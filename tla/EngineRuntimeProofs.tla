------------------------- MODULE EngineRuntimeProofs -------------------------
(***************************************************************************)
(* Proofs about EngineRuntime, for any clients, background threads,        *)
(* process slots and bounds.                                               *)
(***************************************************************************)
EXTENDS EngineRuntime, SequenceTheorems, WellFoundedInduction, TLAPS

-----------------------------------------------------------------------------
(***************************************************************************)
(* Types.                                                                  *)
(***************************************************************************)
Below == {p \in Nat \X Nat : p[1] < p[2]}

\* The least position of an element is one of its positions.
LEMMA LeastPosition ==
  ASSUME NEW n \in Nat, NEW I, I \subseteq 1..n, I # {}
  PROVE  Min(I) \in I
<1>1. I \subseteq Nat
  OBVIOUS
<1>2. IsWellFoundedOn(Below, Nat)
  BY NatLessThanWellFounded DEF OpToRel, Below
<1>3. PICK x \in I : \A y \in I : ~ (<<y, x>> \in Below)
  BY <1>1, <1>2, WFMin
<1>4. ASSUME NEW y \in I
      PROVE  x =< y
  <2>1. x \in Nat /\ y \in Nat /\ <<y, x>> \notin Below
    BY <1>1, <1>3
  <2> QED BY <2>1 DEF Below
<1> QED BY <1>4 DEF Min

\* A queue a connection has left has the connections of the queue.
LEMMA RemovalType ==
  ASSUME NEW S, NEW q \in Seq(S), NEW e
  PROVE  RemoveFirst(q, e) \in Seq(S)
<1> DEFINE I == {i \in 1..Len(q) : q[i] = e}
<1>1. CASE I = {}
  BY <1>1 DEF RemoveFirst
<1>2. CASE I # {}
  <2>1. Min(I) \in 1..Len(q)
    <3>1. Len(q) \in Nat /\ I \subseteq 1..Len(q)
      OBVIOUS
    <3> HIDE DEF I
    <3> QED BY <1>2, <3>1, LeastPosition
  <2>2. RemoveFirst(q, e) = RemoveAt(q, Min(I))
    BY <1>2 DEF RemoveFirst, SelectInSeq
  <2>3. \A i \in 1..Len(q) : RemoveAt(q, i) \in Seq(S)
    <3> SUFFICES ASSUME NEW i \in 1..Len(q)
                 PROVE  SubSeq(q, 1, i - 1) \o SubSeq(q, i + 1, Len(q)) \in Seq(S)
      BY DEF RemoveAt
    <3>1. SubSeq(q, 1, i - 1) \in Seq(S) /\ SubSeq(q, i + 1, Len(q)) \in Seq(S)
      OBVIOUS
    <3> QED BY <3>1, ConcatProperties
  <2> QED BY <2>1, <2>2, <2>3
<1> QED BY <1>1, <1>2

\* A process that ends.
LEMMA GoneType ==
  ASSUME TypeOK, NEW w \in Workers, Gone(w)
  PROVE  /\ wst' \in [Workers -> {"none", "starting", "serving", "killed"}]
         /\ model' \in [Workers -> {"loading", "ready", "failed"}]
         /\ bound' \in Workers \cup {None}
         /\ queue' \in [Workers -> Seq(Clients \cup {Monitor})]
         /\ reply' \in [Clients -> {None, "ready", "loading", "failed", "eof"}]
         /\ orphans' \subseteq Workers
BY EmptySeq DEF TypeOK, Gone

\* A connection is made, answered, or given up.
LEMMA QueueTypes ==
  ASSUME TypeOK
  PROVE  /\ \A c \in Clients \cup {Monitor}, w \in Workers :
              Append(queue[w], c) \in Seq(Clients \cup {Monitor})
         /\ \A c \in Clients, w \in Workers :
              RemoveFirst(queue[w], c) \in Seq(Clients \cup {Monitor})
         /\ \A w \in Workers : queue[w] # <<>> =>
              /\ Head(queue[w]) \in Clients \cup {Monitor}
              /\ Tail(queue[w]) \in Seq(Clients \cup {Monitor})
BY RemovalType, AppendProperties, HeadTailProperties DEF TypeOK

LEMMA SignalType ==
  ASSUME TypeOK, SignalChild
  PROVE  wst' \in [Workers -> {"none", "starting", "serving", "killed"}]
BY DEF TypeOK, SignalChild

LEMMA FaultType ==
  ASSUME TypeOK, Fault \/ UNCHANGED faults
  PROVE  faults' \in 0..MaxFaults
BY EngineAssumption DEF TypeOK, Fault

LEMMA AnswerType ==
  ASSUME TypeOK, NEW c \in Clients, NEW what,
         what \in {None, "ready", "loading", "failed", "error", "crashed"}, Answer(c, what)
  PROVE  /\ pc' = [pc EXCEPT ![c] = "idle"]
         /\ attempt' \in [Clients -> 0..Attempts]
         /\ answer' \in [Clients -> {None, "ready", "loading", "failed", "error", "crashed"}]
         /\ reply' \in [Clients -> {None, "ready", "loading", "failed", "eof"}]
         /\ request_lock' \in Clients \cup {None}
BY EngineAssumption DEF TypeOK, Answer

\* A thread goes to a place of its own kind.
LEMMA GotoType ==
  ASSUME TypeOK, NEW t \in Threads, NEW to, pc' = [pc EXCEPT ![t] = to],
         t \in Clients => to \in ClientPCs,
         t \in Starters => to \in {"idle", "ensure", "listen", "abandon"},
         t = Monitor => to \in MonitorPCs
  PROVE  /\ pc' \in [Threads -> ClientPCs \cup MonitorPCs]
         /\ \A c \in Clients : pc'[c] \in ClientPCs
         /\ \A s \in Starters : pc'[s] \in {"idle", "ensure", "listen", "abandon"}
         /\ pc'[Monitor] \in MonitorPCs
BY EngineAssumption DEF TypeOK, Threads, ClientPCs, MonitorPCs

LEMMA TypeInitially ==
  ASSUME Init
  PROVE  TypeOK
<1>1. /\ pc \in [Threads -> ClientPCs \cup MonitorPCs]
      /\ \A t \in Threads : pc[t] = "idle"
  BY DEF Init, ClientPCs, MonitorPCs
<1>2. /\ \A c \in Clients : pc[c] \in ClientPCs
      /\ \A s \in Starters : pc[s] \in {"idle", "ensure", "listen", "abandon"}
      /\ pc[Monitor] \in MonitorPCs
  BY <1>1 DEF Threads, ClientPCs, MonitorPCs
<1>3. queue \in [Workers -> Seq(Clients \cup {Monitor})]
  BY EmptySeq DEF Init
<1>4. 0 \in 0..Attempts /\ 0 \in 0..MaxFaults /\ 0 \in 0..MaxStops
  BY EngineAssumption
<1> QED BY <1>1, <1>2, <1>3, <1>4 DEF Init, TypeOK

\* ensure_running keeps the types.
LEMMA EnsureTypes ==
  ASSUME TypeOK, NEW t \in Clients \cup Starters, EnsureStep(t)
  PROVE  TypeOK'
<1> USE DEF TypeOK, Ensured, Goto, Fault, threads, workers
<1>0. /\ t \in Threads /\ t # Monitor
      /\ \A to \in {"send", "idle", "listen", "abandon"} : to \in ClientPCs
      /\ t \in Clients => t \notin Starters
  BY EngineAssumption DEF Threads, ClientPCs
<1>1. ASSUME Ensured(t, "ensure") \/ Ensured(t, "listen")
      PROVE  /\ pc' \in [Threads -> ClientPCs \cup MonitorPCs]
             /\ \A c \in Clients : pc'[c] \in ClientPCs
             /\ \A s \in Starters : pc'[s] \in {"idle", "ensure", "listen", "abandon"}
             /\ pc'[Monitor] \in MonitorPCs
  BY <1>0, <1>1, GotoType
<1>2. ASSUME NotEnsured(t, "ensure") \/ NotEnsured(t, "abandon")
      PROVE  /\ pc' \in [Threads -> ClientPCs \cup MonitorPCs]
             /\ \A c \in Clients : pc'[c] \in ClientPCs
             /\ \A s \in Starters : pc'[s] \in {"idle", "ensure", "listen", "abandon"}
             /\ pc'[Monitor] \in MonitorPCs
             /\ attempt' \in [Clients -> 0..Attempts]
             /\ answer' \in [Clients -> {None, "ready", "loading", "failed", "error", "crashed"}]
             /\ reply' \in [Clients -> {None, "ready", "loading", "failed", "eof"}]
             /\ request_lock' \in Clients \cup {None}
  BY <1>0, <1>2, GotoType, AnswerType DEF NotEnsured
<1>3. CASE Ensure(t)
  <2>1. CASE Alive /\ Ensured(t, "ensure") /\ UNCHANGED <<process, wst>>
    BY <1>1, <1>3, <2>1 DEF Ensure
  <2>2. CASE /\ Goto(t, "ensure", "listen")
             /\ \E w \in Workers :
                  /\ wst[w] = "none"
                  /\ wst' = [wst EXCEPT ![w] = "starting"]
                  /\ process' = w
             /\ UNCHANGED <<attempt, answer, request_lock, reply>>
    BY <1>0, <1>3, <2>2, GotoType DEF Ensure
  <2> QED BY <1>3, <2>1, <2>2 DEF Ensure
<1>4. CASE SpawnFails(t)
  BY <1>2, <1>4, EngineAssumption DEF SpawnFails
<1>5. CASE Listening(t)
  BY <1>1, <1>5 DEF Listening
<1>6. CASE ListenTimeout(t)
  <2>1. faults' \in 0..MaxFaults
    BY <1>6, EngineAssumption DEF ListenTimeout
  <2> QED BY <1>0, <1>6, <2>1, GotoType DEF ListenTimeout
<1>7. CASE Abandon(t)
  BY <1>2, <1>7 DEF Abandon, KillChild, SignalChild
<1> QED BY <1>3, <1>4, <1>5, <1>6, <1>7 DEF EnsureStep

\* The router keeps the types.
LEMMA RouterTypes ==
  ASSUME TypeOK, NEW c \in Clients, Receive(c) \/ Lock(c) \/ ClientStep(c)
  PROVE  TypeOK'
<1> USE DEF TypeOK, Goto, threads, workers
<1>0. /\ c \in Threads /\ c # Monitor /\ c \notin Starters
      /\ {"ping", "lock", "idle", "ping_send", "ping_wait", "touch", "ensure", "wait", "kill"}
           \subseteq ClientPCs
  BY EngineAssumption DEF Threads, ClientPCs
<1>1. ASSUME NEW to \in ClientPCs, pc' = [pc EXCEPT ![c] = to]
      PROVE  /\ pc' \in [Threads -> ClientPCs \cup MonitorPCs]
             /\ \A d \in Clients : pc'[d] \in ClientPCs
             /\ \A s \in Starters : pc'[s] \in {"idle", "ensure", "listen", "abandon"}
             /\ pc'[Monitor] \in MonitorPCs
  BY <1>0, <1>1, GotoType
<1>2. ASSUME NEW what \in {"ready", "loading", "failed", "error", "crashed"}, Answer(c, what)
      PROVE  /\ pc' \in [Threads -> ClientPCs \cup MonitorPCs]
             /\ \A d \in Clients : pc'[d] \in ClientPCs
             /\ \A s \in Starters : pc'[s] \in {"idle", "ensure", "listen", "abandon"}
             /\ pc'[Monitor] \in MonitorPCs
             /\ attempt' \in [Clients -> 0..Attempts]
             /\ answer' \in [Clients -> {None, "ready", "loading", "failed", "error", "crashed"}]
             /\ reply' \in [Clients -> {None, "ready", "loading", "failed", "eof"}]
             /\ request_lock' \in Clients \cup {None}
  BY <1>0, <1>1, <1>2, AnswerType
<1>3. ASSUME NEW w \in Workers, queue' = [queue EXCEPT ![w] = Append(@, c)]
      PROVE  queue' \in [Workers -> Seq(Clients \cup {Monitor})]
  BY <1>3, QueueTypes
<1>4. ASSUME queue' = [w \in Workers |-> RemoveFirst(queue[w], c)]
      PROVE  queue' \in [Workers -> Seq(Clients \cup {Monitor})]
  BY <1>4, QueueTypes
<1>5. CASE Receive(c)
  BY <1>0, <1>1, <1>5 DEF Receive
<1>6. CASE Lock(c)
  BY <1>0, <1>1, <1>6 DEF Lock
<1>7. CASE PingStarts(c)
  <2>1. PICK s \in Starters : pc[s] = "idle" /\ pc' = [pc EXCEPT ![c] = "idle", ![s] = "ensure"]
    BY <1>7 DEF PingStarts
  <2>2. s # Monitor /\ s \notin Clients /\ s \in Threads
    BY EngineAssumption DEF Threads
  <2>3. /\ pc' \in [Threads -> ClientPCs \cup MonitorPCs]
        /\ \A d \in Clients : pc'[d] \in ClientPCs
        /\ \A r \in Starters : pc'[r] \in {"idle", "ensure", "listen", "abandon"}
        /\ pc'[Monitor] \in MonitorPCs
    <3>1. pc' = [t \in Threads |-> IF t = s THEN "ensure" ELSE IF t = c THEN "idle" ELSE pc[t]]
      BY <1>0, <2>1, <2>2
    <3> QED BY <1>0, <2>2, <3>1, EngineAssumption DEF Threads
  <2>4. answer' \in [Clients -> {None, "ready", "loading", "failed", "error", "crashed"}]
    BY <1>7 DEF PingStarts
  <2> QED BY <1>7, <2>3, <2>4 DEF PingStarts
<1>8. CASE PingAlive(c)
  BY <1>0, <1>1, <1>8 DEF PingAlive
<1>9. CASE PingSend(c)
  BY <1>0, <1>1, <1>2, <1>3, <1>9 DEF PingSend
<1>10. CASE Pong(c)
  BY <1>2, <1>4, <1>10 DEF Pong
<1>11. CASE Touch(c)
  <2>1. attempt' \in [Clients -> 0..Attempts]
    BY <1>11, EngineAssumption DEF Touch
  <2> QED BY <1>0, <1>1, <1>11, <2>1 DEF Touch
<1>12. CASE Send(c)
  BY <1>0, <1>1, <1>3, <1>12 DEF Send
<1>13. CASE Forwarded(c)
  BY <1>2, <1>13 DEF Forwarded
<1>14. CASE Lost(c)
  <2>1. faults' \in 0..MaxFaults
    BY <1>14, FaultType DEF Lost
  <2>2. reply' \in [Clients -> {None, "ready", "loading", "failed", "eof"}]
    BY <1>14 DEF Lost
  <2> QED BY <1>0, <1>1, <1>4, <1>14, <2>1, <2>2 DEF Lost
<1>15. CASE Retry(c)
  <2>1. CASE attempt[c] < Attempts /\ Goto(c, "kill", "ensure")
             /\ attempt' = [attempt EXCEPT ![c] = @ + 1]
             /\ UNCHANGED <<answer, request_lock, reply>>
    <3>1. attempt' \in [Clients -> 0..Attempts]
      BY <2>1, EngineAssumption
    <3>2. wst' \in [Workers -> {"none", "starting", "serving", "killed"}]
      BY <1>15, SignalType DEF Retry, KillChild
    <3> QED BY <1>0, <1>1, <1>15, <2>1, <3>1, <3>2 DEF Retry, KillChild
  <2>2. CASE Answer(c, "crashed")
    BY <1>2, <1>15, <2>2, SignalType DEF Retry, KillChild
  <2> QED BY <1>15, <2>1, <2>2 DEF Retry
<1> QED BY <1>5, <1>6, <1>7, <1>8, <1>9, <1>10, <1>11, <1>12, <1>13, <1>14, <1>15
        DEF ClientStep

\* The idle monitor keeps the types.
LEMMA MonitorTypes ==
  ASSUME TypeOK, MonitorStep
  PROVE  TypeOK'
<1> USE DEF TypeOK, MonitorGoes, Goto, threads, workers
<1>0. /\ Monitor \in Threads /\ Monitor \notin Clients /\ Monitor \notin Starters
      /\ {"idle", "busy?", "idle?", "shutdown", "ask", "poll"} \subseteq MonitorPCs
  BY EngineAssumption DEF Threads, MonitorPCs
<1>1. ASSUME NEW to \in MonitorPCs, pc' = [pc EXCEPT ![Monitor] = to]
      PROVE  /\ pc' \in [Threads -> ClientPCs \cup MonitorPCs]
             /\ \A c \in Clients : pc'[c] \in ClientPCs
             /\ \A s \in Starters : pc'[s] \in {"idle", "ensure", "listen", "abandon"}
             /\ pc'[Monitor] \in MonitorPCs
  BY <1>0, <1>1, GotoType
<1>2. CASE Wake \/ CheckBusy \/ CheckIdle
  BY <1>0, <1>1, <1>2 DEF Wake, CheckBusy, CheckIdle
<1>3. CASE Shutdown
  BY <1>0, <1>1, <1>3 DEF Shutdown
<1>4. CASE AskExit
  <2>1. queue' \in [Workers -> Seq(Clients \cup {Monitor})]
    BY <1>4, QueueTypes DEF AskExit
  <2> QED BY <1>0, <1>1, <1>4, <2>1 DEF AskExit
<1>5. CASE ChildExited
  BY <1>0, <1>1, <1>5 DEF ChildExited
<1>6. CASE ChildStays
  <2>1. faults' \in 0..MaxFaults
    BY <1>6, FaultType DEF ChildStays
  <2>2. wst' \in [Workers -> {"none", "starting", "serving", "killed"}]
    BY <1>6, SignalType DEF ChildStays
  <2> QED BY <1>0, <1>1, <1>6, <2>1, <2>2 DEF ChildStays
<1> QED BY <1>2, <1>3, <1>4, <1>5, <1>6 DEF MonitorStep

\* The workers keep the types.
LEMMA WorkerTypes ==
  ASSUME TypeOK, NEW w \in Workers, WorkerStep(w) \/ Crash(w)
  PROVE  TypeOK'
<1> USE DEF Fault, threads
<1>1. CASE Bind(w)
  <2>1. CASE Gone(w)
    BY <1>1, <2>1, GoneType DEF Bind, TypeOK
  <2>2. CASE bound' = w /\ wst' = [wst EXCEPT ![w] = "serving"]
             /\ UNCHANGED <<model, queue, reply, orphans>>
    BY <1>1, <2>2 DEF Bind, TypeOK
  <2> QED BY <1>1, <2>1, <2>2 DEF Bind
<1>2. CASE Load(w)
  BY <1>2 DEF Load, TypeOK
<1>3. CASE Serve(w)
  <2>1. CASE Gone(w)
    BY <1>3, <2>1, GoneType DEF Serve, TypeOK
  <2>2. CASE /\ Head(queue[w]) # Monitor
             /\ reply' = [reply EXCEPT ![Head(queue[w])] = model[w]]
             /\ queue' = [queue EXCEPT ![w] = Tail(@)]
             /\ UNCHANGED <<wst, bound, model, orphans>>
    <3>1. Tail(queue[w]) \in Seq(Clients \cup {Monitor})
      BY <1>3, QueueTypes DEF Serve
    <3> QED BY <1>3, <2>2, <3>1 DEF Serve, TypeOK
  <2> QED BY <1>3, <2>1, <2>2 DEF Serve
<1>4. CASE Exit(w)
  BY <1>4, GoneType DEF Exit, TypeOK
<1>5. CASE Crash(w)
  BY <1>5, GoneType, EngineAssumption DEF Crash, TypeOK
<1> QED BY <1>1, <1>2, <1>3, <1>4, <1>5 DEF WorkerStep

LEMMA TypeKept ==
  ASSUME TypeOK, [Next]_vars
  PROVE  TypeOK'
<1>1. CASE UNCHANGED vars
  BY <1>1 DEF vars, threads, workers, TypeOK
<1>2. CASE Age
  BY <1>2 DEF Age, threads, workers, TypeOK
<1>3. CASE StartEngine
  BY <1>3 DEF StartEngine, threads, workers, TypeOK
<1>4. CASE StopEngine
  <2>1. /\ pc' \in [Threads -> ClientPCs \cup MonitorPCs]
        /\ \A t \in Threads : pc'[t] = "idle"
    BY <1>4 DEF StopEngine, ClientPCs, MonitorPCs
  <2>2. /\ \A c \in Clients : pc'[c] \in ClientPCs
        /\ \A s \in Starters : pc'[s] \in {"idle", "ensure", "listen", "abandon"}
        /\ pc'[Monitor] \in MonitorPCs
    BY <2>1 DEF Threads, ClientPCs, MonitorPCs
  <2>3. /\ attempt' \in [Clients -> 0..Attempts]
        /\ answer' \in [Clients -> {None, "ready", "loading", "failed", "error", "crashed"}]
        /\ reply' \in [Clients -> {None, "ready", "loading", "failed", "eof"}]
        /\ stops' \in 0..MaxStops
    BY <1>4, EngineAssumption DEF StopEngine, TypeOK
  <2>4. queue' \in [Workers -> Seq(Clients \cup {Monitor})]
    <3>1. <<>> \in Seq(Clients \cup {Monitor}) /\ <<Monitor>> \in Seq(Clients \cup {Monitor})
      OBVIOUS
    <3> QED BY <1>4, <3>1 DEF StopEngine
  <2> QED BY <1>4, <2>1, <2>2, <2>3, <2>4 DEF StopEngine, TypeOK
<1> QED BY <1>1, <1>2, <1>3, <1>4, RouterTypes, EnsureTypes, MonitorTypes, WorkerTypes DEF Next

\* Every state the engine, its threads and its workers reach is well formed.
THEOREM TypeCorrect == Spec => []TypeOK
BY TypeInitially, TypeKept, PTL DEF Spec

-----------------------------------------------------------------------------
\* What the argument needs of the types.
CoreType ==
  /\ process \in Workers \cup {None}
  /\ wst \in [Workers -> {"none", "starting", "serving", "killed"}]

IInv == CoreType /\ ChildrenAreOwned

\* A step that starts no worker, and forgets a child only when none runs, keeps them owned.
LEMMA NothingStarted ==
  ASSUME IInv, wst' = wst, orphans' = orphans,
         process' = process \/ (~Alive /\ process' = None)
  PROVE  IInv'
<1>1. CoreType'
  BY DEF IInv, CoreType
<1>2. ChildrenAreOwned'
  BY DEF IInv, CoreType, ChildrenAreOwned, Running, Alive
<1> QED BY <1>1, <1>2 DEF IInv

\* A process that ends leaves the others as they were.
LEMMA GoneKeeps ==
  ASSUME IInv, NEW w \in Workers, Gone(w), process' = process
  PROVE  IInv'
<1>1. CoreType'
  BY DEF IInv, CoreType, Gone
<1>2. ChildrenAreOwned'
  BY DEF IInv, CoreType, ChildrenAreOwned, Running, Gone
<1> QED BY <1>1, <1>2 DEF IInv

\* Signalling the child and forgetting it.
LEMMA SignalKeeps ==
  ASSUME IInv, SignalChild, process' = None, orphans' = orphans
  PROVE  IInv'
<1>1. CoreType'
  BY DEF IInv, CoreType, SignalChild, Alive
<1>2. ChildrenAreOwned'
  BY EngineAssumption DEF IInv, CoreType, ChildrenAreOwned, Running, SignalChild, Alive
<1> QED BY <1>1, <1>2 DEF IInv

\* ensure_running spawns only when no child runs.
LEMMA EnsureKeeps ==
  ASSUME IInv, NEW t, Ensure(t)
  PROVE  IInv'
<1>1. CASE Alive /\ UNCHANGED <<process, wst>>
  BY <1>1, NothingStarted DEF Ensure
<1>2. ASSUME ~Alive, NEW w \in Workers, wst[w] = "none",
             wst' = [wst EXCEPT ![w] = "starting"], process' = w
      PROVE  IInv'
  <2>1. orphans' = orphans
    BY DEF Ensure
  <2>2. CoreType'
    BY <1>2 DEF IInv, CoreType
  <2>3. ChildrenAreOwned'
    BY <1>2, <2>1, EngineAssumption DEF IInv, CoreType, ChildrenAreOwned, Running, Alive
  <2> QED BY <2>2, <2>3 DEF IInv
<1> QED BY <1>1, <1>2 DEF Ensure

LEMMA Initially == Init => IInv
BY DEF Init, IInv, CoreType, ChildrenAreOwned, Running

LEMMA StepKeeps ==
  ASSUME IInv, [Next]_vars
  PROVE  IInv'
<1>1. CASE UNCHANGED vars
  BY <1>1, NothingStarted DEF vars, workers
<1>2. ASSUME NEW c \in Clients, Receive(c) \/ Lock(c)
      PROVE  IInv'
  BY <1>2, NothingStarted DEF Receive, Lock, workers
<1>3. ASSUME NEW c \in Clients, ClientStep(c)
      PROVE  IInv'
  <2>1. CASE PingStarts(c)
    BY <2>1, NothingStarted DEF PingStarts, workers
  <2>2. CASE PingAlive(c)
    BY <2>2, NothingStarted DEF PingAlive, workers
  <2>3. CASE PingSend(c)
    BY <2>3, NothingStarted DEF PingSend
  <2>4. CASE Pong(c)
    BY <2>4, NothingStarted DEF Pong
  <2>5. CASE Touch(c)
    BY <2>5, NothingStarted DEF Touch, workers
  <2>6. CASE Send(c)
    BY <2>6, NothingStarted DEF Send
  <2>7. CASE Forwarded(c)
    BY <2>7, NothingStarted DEF Forwarded, workers
  <2>8. CASE Lost(c)
    BY <2>8, NothingStarted DEF Lost
  <2>9. CASE Retry(c)
    BY <2>9, SignalKeeps DEF Retry, KillChild
  <2> QED BY <1>3, <2>1, <2>2, <2>3, <2>4, <2>5, <2>6, <2>7, <2>8, <2>9 DEF ClientStep
<1>4. ASSUME NEW t \in Clients \cup Starters, EnsureStep(t)
      PROVE  IInv'
  <2>1. CASE Ensure(t)
    BY <2>1, EnsureKeeps
  <2>2. CASE SpawnFails(t)
    BY <2>2, NothingStarted DEF SpawnFails, workers
  <2>3. CASE Listening(t)
    BY <2>3, NothingStarted DEF Listening, workers
  <2>4. CASE ListenTimeout(t)
    BY <2>4, NothingStarted DEF ListenTimeout, workers
  <2>5. CASE Abandon(t)
    BY <2>5, SignalKeeps DEF Abandon, KillChild
  <2> QED BY <1>4, <2>1, <2>2, <2>3, <2>4, <2>5 DEF EnsureStep
<1>5. CASE MonitorStep
  <2>1. CASE Wake \/ CheckBusy \/ CheckIdle
    BY <2>1, NothingStarted DEF Wake, CheckBusy, CheckIdle, workers
  <2>2. CASE Shutdown
    BY <2>2, NothingStarted DEF Shutdown, workers
  <2>3. CASE AskExit
    BY <2>3, NothingStarted DEF AskExit
  <2>4. CASE ChildExited
    BY <2>4, NothingStarted DEF ChildExited, workers
  <2>5. CASE ChildStays
    BY <2>5, SignalKeeps DEF ChildStays
  <2> QED BY <1>5, <2>1, <2>2, <2>3, <2>4, <2>5 DEF MonitorStep
<1>6. ASSUME NEW w \in Workers, WorkerStep(w) \/ Crash(w)
      PROVE  IInv'
  <2>1. CASE Bind(w)
    <3>1. CASE wst' = [wst EXCEPT ![w] = "serving"] /\ wst[w] = "starting" /\ orphans' = orphans
      BY <2>1, <3>1 DEF Bind, IInv, CoreType, ChildrenAreOwned, Running
    <3>2. CASE Gone(w)
      BY <2>1, <3>2, GoneKeeps DEF Bind
    <3> QED BY <2>1, <3>1, <3>2 DEF Bind
  <2>2. CASE Load(w)
    BY <2>2, NothingStarted DEF Load
  <2>3. CASE Serve(w)
    <3>1. CASE Gone(w)
      BY <2>3, <3>1, GoneKeeps DEF Serve
    <3>2. CASE UNCHANGED <<wst, orphans>>
      BY <2>3, <3>2, NothingStarted DEF Serve
    <3> QED BY <2>3, <3>1, <3>2 DEF Serve
  <2>4. CASE Exit(w) \/ Crash(w)
    BY <2>4, GoneKeeps DEF Exit, Crash
  <2> QED BY <1>6, <2>1, <2>2, <2>3, <2>4 DEF WorkerStep
<1>7. CASE Age \/ StartEngine
  BY <1>7, NothingStarted DEF Age, StartEngine, workers
<1>8. CASE StopEngine
  BY <1>8 DEF StopEngine, IInv, CoreType, ChildrenAreOwned, Running
<1> QED BY <1>1, <1>2, <1>3, <1>4, <1>5, <1>6, <1>7, <1>8 DEF Next

-----------------------------------------------------------------------------
\* The engine never has a running worker other than the one in state.process, in whatever
\* order its threads take the state mutex, crash, are killed or time out.
THEOREM ChildrenOwned == Spec => []ChildrenAreOwned
<1>1. IInv => ChildrenAreOwned
  BY DEF IInv
<1> QED BY <1>1, Initially, StepKeeps, PTL DEF Spec

-----------------------------------------------------------------------------
(***************************************************************************)
(* Refusals.  While nothing has failed, only the forward that holds        *)
(* request_lock is on its way, and only one thing can go against it: the   *)
(* idle monitor, which looked before it began.  That costs it its first    *)
(* attempt, and the monitor does not look again before the lock is free.   *)
(***************************************************************************)
\* The monitor has found no forward in progress, and goes on.
Ending == pc[Monitor] \in {"idle?", "shutdown", "ask", "poll"}

CalmThreads ==
  /\ up
  /\ \A c \in Clients : answer[c] \notin {"error", "crashed"}
  /\ \A c \in Clients : request_lock # c => pc[c] \in {"idle", "lock"}
  /\ \A c \in Clients : reply[c] # None => pc[c] = "wait"
  /\ \A s \in Starters : pc[s] = "idle"
  /\ shutting <=> pc[Monitor] \in {"ask", "poll"}

\* One worker, if any, which the engine knows, and which listens but for its start.
CalmWorkers ==
  \A w \in Workers :
    /\ wst[w] # "killed"
    /\ wst[w] = "serving" <=> bound = w
    /\ Running(w) => process = w
    /\ wst[w] = "starting" => request_lock # None /\ pc[request_lock] = "listen"

\* A connection is in one queue, once.
CalmQueues ==
  \A w \in Workers : \A i \in 1..Len(queue[w]) :
    /\ bound = w
    /\ queue[w][i] = Monitor => pc[Monitor] = "poll"
    /\ queue[w][i] # Monitor => pc[queue[w][i]] = "wait" /\ reply[queue[w][i]] = None
    /\ \A j \in 1..Len(queue[w]) : queue[w][i] = queue[w][j] => i = j

CalmMonitor ==
  /\ pc[Monitor] \in {"busy?", "idle?", "shutdown", "ask"} => Alive
  /\ pc[Monitor] = "poll" /\ Alive => Contains(queue[process], Monitor)

\* The forward that has its turn loses its worker in its first attempt only.
Turn(c) ==
  /\ pc[c] \in {"touch", "ensure", "listen", "send", "wait", "kill"}
  /\ pc[c] = "listen" => Alive
  /\ pc[c] = "send" /\ bound = None => attempt[c] = 1
  /\ pc[c] = "wait" /\ reply[c] = "eof" => attempt[c] = 1 /\ ~Alive
  /\ pc[c] = "kill" => attempt[c] = 1 /\ ~Alive
  /\ Ending => pc[c] = "touch" \/ (pc[c] # "listen" /\ attempt[c] = 1)

Calm ==
  /\ CalmThreads /\ CalmWorkers /\ CalmQueues /\ CalmMonitor
  /\ \A c \in Clients : request_lock = c => Turn(c)

CalmUntilFault == TypeOK /\ (faults = 0 => Calm)

\* Only the forward with request_lock is past the lock.
LEMMA HolderOnly ==
  ASSUME TypeOK, Calm, NEW c \in Clients, pc[c] \notin {"idle", "lock"}
  PROVE  request_lock = c /\ Turn(c)
BY DEF Calm, CalmThreads

\* A child that runs and does not start up listens.
LEMMA ListensOrStarts ==
  ASSUME TypeOK, Calm
  PROVE  /\ Alive => bound = process \/ wst[process] = "starting"
         /\ bound # None => Alive /\ bound = process /\ wst[bound] = "serving"
         /\ \A w \in Workers : queue[w] # <<>> => bound = w
<1>1. /\ Alive => bound = process \/ wst[process] = "starting"
      /\ bound # None => Alive /\ bound = process /\ wst[bound] = "serving"
  BY EngineAssumption DEF TypeOK, Calm, CalmWorkers, Alive, Running
<1>2. ASSUME NEW w \in Workers, queue[w] # <<>>
      PROVE  bound = w
  <2>1. queue[w] \in Seq(Clients \cup {Monitor})
    BY DEF TypeOK
  <2>2. 1 \in 1..Len(queue[w])
    BY <1>2, <2>1
  <2> QED BY <2>2 DEF Calm, CalmQueues
<1> QED BY <1>1, <1>2

LEMMA CalmInitially ==
  ASSUME Init
  PROVE  Calm
BY EngineAssumption
DEF Init, Calm, CalmThreads, CalmWorkers, CalmQueues, CalmMonitor, Running, Alive, Threads

\* Steps that only failures or pings take.
LEMMA CalmExcludes ==
  ASSUME TypeOK, Calm, faults = 0, faults' = 0
  PROVE  /\ \A c \in Clients : ~ (PingStarts(c) \/ PingAlive(c) \/ PingSend(c) \/ Pong(c))
         /\ \A t \in Clients \cup Starters : ~ (SpawnFails(t) \/ ListenTimeout(t) \/ Abandon(t))
         /\ \A s \in Starters : ~ (Ensure(s) \/ Listening(s))
         /\ \A w \in Workers : ~ (Exit(w) \/ Crash(w) \/ (Bind(w) /\ bound # None))
         /\ ~ ChildStays /\ ~ StartEngine
<1> USE DEF Goto, Fault
<1>1. \A c \in Clients : pc[c] \notin {"ping", "ping_send", "ping_wait", "abandon"}
  BY HolderOnly DEF Turn
<1>2. \A s \in Starters : pc[s] = "idle"
  BY DEF Calm, CalmThreads
<1>3. ASSUME NEW t \in Clients \cup Starters, ListenTimeout(t)
      PROVE  FALSE
  <2>1. t \in Clients /\ pc[t] = "listen" /\ bound = None
    BY <1>2, <1>3 DEF ListenTimeout
  <2>2. Alive
    BY <2>1, HolderOnly DEF Turn
  <2>3. process \in Workers /\ wst[process] = "starting"
    BY <2>1, <2>2, ListensOrStarts DEF Alive, TypeOK
  <2> QED BY <1>3, <2>3 DEF ListenTimeout
<1>4. \A w \in Workers : ~ (Exit(w) \/ Crash(w) \/ (Bind(w) /\ bound # None))
  BY ListensOrStarts DEF Exit, Crash, Bind, Calm, CalmWorkers, Running
<1>5. ~ ChildStays
  BY DEF ChildStays, MonitorGoes, Calm, CalmMonitor
<1>6. ASSUME NEW t \in Clients \cup Starters, Abandon(t)
      PROVE  FALSE
  BY <1>1, <1>2, <1>6 DEF Abandon, NotEnsured
<1>7. \A c \in Clients : ~ (PingStarts(c) \/ PingAlive(c) \/ PingSend(c) \/ Pong(c))
  BY <1>1 DEF PingStarts, PingAlive, PingSend, Pong
<1>8. \A t \in Clients \cup Starters : ~ SpawnFails(t)
  BY DEF SpawnFails, TypeOK
<1>9. \A s \in Starters : ~ (Ensure(s) \/ Listening(s))
  BY <1>2 DEF Ensure, Listening, Ensured
<1>10. ~ StartEngine
  BY DEF StartEngine, Calm, CalmThreads
<1> QED BY <1>3, <1>4, <1>5, <1>6, <1>7, <1>8, <1>9, <1>10

\* A request comes, or gets the lock; the monitor may be about to stop the worker.
LEMMA RequestCalm ==
  ASSUME TypeOK, Calm, Commands \subseteq {"embed"}, NEW c \in Clients, Receive(c) \/ Lock(c)
  PROVE  Calm'
<1> USE DEF Goto, workers, TypeOK
<1>0. c \in Threads /\ c # Monitor /\ c # None /\ c \notin Starters
  BY EngineAssumption DEF Threads
<1>1. CASE Receive(c)
  <2>1. pc' = [pc EXCEPT ![c] = "lock"] /\ pc[c] = "idle" /\ request_lock # c
    BY <1>1 DEF Receive, Calm, Turn
  <2>2. CalmThreads'
    BY <1>0, <1>1, <2>1, EngineAssumption DEF Receive, Calm, CalmThreads
  <2>3. CalmWorkers' /\ CalmQueues' /\ CalmMonitor'
    BY <1>0, <1>1, <2>1
    DEF Receive, Calm, CalmWorkers, CalmQueues, CalmMonitor, Running, Alive
  <2>4. \A d \in Clients : request_lock' = d => Turn(d)'
    BY <1>0, <1>1, <2>1 DEF Receive, Calm, Turn, Ending, Running, Alive
  <2> QED BY <2>2, <2>3, <2>4 DEF Calm
<1>2. CASE Lock(c)
  <2>1. pc' = [pc EXCEPT ![c] = "touch"] /\ pc[c] = "lock" /\ request_lock = None
        /\ request_lock' = c
    BY <1>2 DEF Lock
  <2>2. CalmThreads'
    BY <1>0, <1>2, <2>1, EngineAssumption DEF Lock, Calm, CalmThreads, Threads
  <2>3. CalmWorkers' /\ CalmQueues' /\ CalmMonitor'
    BY <1>0, <1>2, <2>1 DEF Lock, Calm, CalmWorkers, CalmQueues, CalmMonitor, Running, Alive
  <2>4. Turn(c)'
    BY <1>0, <1>2, <2>1 DEF Lock, Turn
  <2> QED BY <2>1, <2>2, <2>3, <2>4 DEF Calm
<1> QED BY <1>1, <1>2

\* The steps of the forward that has its turn, outside ensure_running.
LEMMA ForwardCalm ==
  ASSUME TypeOK, Calm, faults = 0, faults' = 0, Attempts > 1, NEW c \in Clients, ClientStep(c)
  PROVE  Calm'
<1> USE DEF Goto, workers, TypeOK
<1>0. c \in Threads /\ c # Monitor /\ c # None /\ c \notin Starters /\ Monitor \notin Clients
  BY EngineAssumption DEF Threads
<1>1. CASE Touch(c)
  <2>1. request_lock = c /\ Turn(c) /\ pc[c] = "touch" /\ pc' = [pc EXCEPT ![c] = "ensure"]
    BY <1>1, HolderOnly DEF Touch
  <2>2. CalmThreads' /\ CalmWorkers' /\ CalmQueues' /\ CalmMonitor'
    BY <1>0, <1>1, <2>1
    DEF Touch, Calm, CalmThreads, CalmWorkers, CalmQueues, CalmMonitor, Running, Alive
  <2>3. Turn(c)'
    BY <1>0, <1>1, <2>1, EngineAssumption DEF Touch, Turn, Ending, Alive, Running
  <2> QED BY <1>1, <2>1, <2>2, <2>3 DEF Calm, Touch
<1>2. CASE Send(c)
  <2>1. request_lock = c /\ Turn(c) /\ pc[c] = "send"
    BY <1>2, HolderOnly DEF Send
  <2>2. reply[c] = None /\ \A w \in Workers : \A i \in 1..Len(queue[w]) : queue[w][i] # c
    BY <1>0, <2>1 DEF Calm, CalmThreads, CalmQueues
  <2>3. CASE bound = None
    <3>1. ~Alive /\ attempt[c] = 1
      BY <2>1, <2>3, ListensOrStarts, EngineAssumption
      DEF Turn, Calm, CalmWorkers, Alive, Threads
    <3>2. pc' = [pc EXCEPT ![c] = "kill"] /\ queue' = queue
      BY <1>2, <2>3 DEF Send
    <3>3. CalmThreads' /\ CalmWorkers' /\ CalmQueues' /\ CalmMonitor'
      BY <1>0, <1>2, <2>1, <2>2, <3>1, <3>2
      DEF Send, Calm, CalmThreads, CalmWorkers, CalmQueues, CalmMonitor, Running, Alive
    <3>4. Turn(c)'
      BY <1>0, <1>2, <2>1, <3>1, <3>2 DEF Send, Turn, Ending, Alive, Running
    <3> QED BY <1>2, <2>1, <3>3, <3>4 DEF Calm, Send
  <2>4. CASE bound # None
    <3>1. pc' = [pc EXCEPT ![c] = "wait"] /\ queue' = [queue EXCEPT ![bound] = Append(@, c)]
      BY <1>2, <2>4 DEF Send
    <3>2. CalmThreads' /\ CalmWorkers'
      BY <1>0, <1>2, <2>1, <2>2, <3>1
      DEF Send, Calm, CalmThreads, CalmWorkers, Running
    <3>3. CalmQueues'
      BY <1>0, <1>2, <2>1, <2>2, <2>4, <3>1, AppendProperties DEF Send, Calm, CalmQueues
    <3>4. CalmMonitor'
      <4>1. ASSUME NEW w \in Workers, Contains(queue[w], Monitor)
            PROVE  Contains(queue'[w], Monitor)
        BY <1>2, <2>4, <3>1, <4>1, AppendProperties DEF Contains
      <4> QED BY <1>0, <1>2, <3>1, <4>1 DEF Send, Calm, CalmMonitor, Alive, Running
    <3>5. Turn(c)'
      BY <1>0, <1>2, <2>1, <2>2, <2>4, <3>1, EngineAssumption DEF Send, Turn, Ending, Alive, Running
    <3> QED BY <1>2, <2>1, <3>2, <3>3, <3>4, <3>5 DEF Calm, Send
  <2> QED BY <2>3, <2>4
<1>3. CASE Forwarded(c)
  <2>1. request_lock = c /\ Turn(c) /\ pc[c] = "wait" /\ reply[c] # None
    BY <1>3, HolderOnly DEF Forwarded
  <2>2. \A w \in Workers : \A i \in 1..Len(queue[w]) : queue[w][i] # c
    BY <1>0, <2>1 DEF Calm, CalmQueues
  <2>3. /\ pc' = [pc EXCEPT ![c] = "idle"] /\ reply' = [reply EXCEPT ![c] = None]
        /\ answer' = [answer EXCEPT ![c] = reply[c]] /\ request_lock' = None
    BY <1>3, <2>1 DEF Forwarded, Answer
  <2>4. reply[c] \in {"ready", "loading", "failed"}
    BY <1>3 DEF Forwarded
  <2>5. CalmThreads'
    BY <1>0, <1>3, <2>1, <2>3, <2>4 DEF Forwarded, Calm, CalmThreads
  <2>6. CalmWorkers' /\ CalmMonitor'
    BY <1>0, <1>3, <2>1, <2>3 DEF Forwarded, Calm, CalmWorkers, CalmMonitor, Running, Alive
  <2>7. CalmQueues'
    BY <1>0, <1>3, <2>1, <2>2, <2>3 DEF Forwarded, Calm, CalmQueues
  <2> QED BY <2>3, <2>5, <2>6, <2>7, EngineAssumption DEF Calm, Threads
<1>4. CASE Lost(c)
  <2>1. request_lock = c /\ Turn(c) /\ pc[c] = "wait" /\ reply[c] = "eof"
    <3>1. pc[c] = "wait" /\ reply[c] # None /\ reply[c] \in {None, "eof"}
      BY <1>4 DEF Lost, Fault
    <3> QED BY <3>1, HolderOnly
  <2>2. \A w \in Workers : \A i \in 1..Len(queue[w]) : queue[w][i] # c
    BY <1>0, <2>1, EngineAssumption DEF Calm, CalmQueues
  <2>3. queue' = queue
    <3>1. \A w \in Workers : RemoveFirst(queue[w], c) = queue[w]
      BY <2>2 DEF RemoveFirst
    <3> QED BY <1>4, <3>1 DEF Lost
  <2>4. CalmThreads' /\ CalmWorkers' /\ CalmQueues' /\ CalmMonitor'
    BY <1>0, <1>4, <2>1, <2>2, <2>3
    DEF Lost, Calm, CalmThreads, CalmWorkers, CalmQueues, CalmMonitor, Running, Alive
  <2>5. Turn(c)'
    BY <1>0, <1>4, <2>1 DEF Lost, Turn, Ending, Alive, Running
  <2> QED BY <1>4, <2>1, <2>4, <2>5 DEF Calm, Lost
<1>5. CASE Retry(c)
  <2>1. request_lock = c /\ Turn(c) /\ pc[c] = "kill" /\ attempt[c] = 1 /\ ~Alive /\ ~shutting
    BY <1>5, HolderOnly DEF Retry, KillChild, Turn
  <2>2. pc[Monitor] = "idle"
    BY <2>1 DEF Calm, CalmThreads, CalmMonitor, MonitorPCs
  <2>3. /\ pc' = [pc EXCEPT ![c] = "ensure"] /\ attempt' = [attempt EXCEPT ![c] = 2]
        /\ UNCHANGED <<answer, request_lock, reply>>
    BY <1>5, <2>1 DEF Retry
  <2>4. wst' = wst /\ process' = None /\ ~Alive'
    BY <1>5, <2>1 DEF Retry, KillChild, SignalChild, Alive
  <2>5. CalmThreads' /\ CalmWorkers' /\ CalmQueues' /\ CalmMonitor'
    BY <1>0, <1>5, <2>1, <2>2, <2>3, <2>4
    DEF Retry, KillChild, Calm, CalmThreads, CalmWorkers, CalmQueues, CalmMonitor, Running, Alive
  <2>6. Turn(c)'
    BY <1>0, <1>5, <2>1, <2>2, <2>3, <2>4 DEF Retry, KillChild, Turn, Ending
  <2> QED BY <2>1, <2>3, <2>5, <2>6 DEF Calm
<1> QED BY <1>1, <1>2, <1>3, <1>4, <1>5, CalmExcludes DEF ClientStep

\* ensure_running finds the child, or starts one when the monitor is not about to end one.
LEMMA EnsureCalm ==
  ASSUME TypeOK, Calm, faults = 0, faults' = 0, NEW c \in Clients \cup Starters, EnsureStep(c)
  PROVE  Calm'
<1> USE DEF Goto, workers, TypeOK
<1>1. c \in Clients /\ (Ensure(c) \/ Listening(c))
  BY CalmExcludes DEF EnsureStep
<1>0. c \in Threads /\ c # Monitor /\ c # None /\ c \notin Starters /\ Monitor \notin Clients
  BY <1>1, EngineAssumption DEF Threads
<1>2. request_lock = c /\ Turn(c)
  BY <1>1, HolderOnly DEF Ensure, Ensured, Listening
<1>3. \A w \in Workers : \A i \in 1..Len(queue[w]) : queue[w][i] # c
  BY <1>0, <1>1 DEF Calm, CalmQueues, Ensure, Ensured, Listening
<1>4. ASSUME pc' = [pc EXCEPT ![c] = "send"], pc[c] # "wait", bound # None,
             UNCHANGED <<up, shutting, process, bound, wst, queue, reply, attempt, answer,
                         request_lock>>
      PROVE  Calm'
  <2>1. \A w \in Workers : wst[w] # "starting"
    BY <1>4, ListensOrStarts DEF Calm, CalmWorkers, Running
  <2>2. CalmThreads' /\ CalmWorkers' /\ CalmQueues' /\ CalmMonitor'
    BY <1>0, <1>1, <1>2, <1>3, <1>4, <2>1
    DEF Calm, CalmThreads, CalmWorkers, CalmQueues, CalmMonitor, Running, Alive
  <2>3. Ending => attempt[c] = 1
    BY <1>1, <1>2 DEF Turn, Ensure, Ensured, Listening
  <2>4. Turn(c)'
    BY <1>0, <1>1, <1>2, <1>4, <2>3 DEF Turn, Ending, Alive, Running
  <2> QED BY <1>2, <1>4, <2>2, <2>4 DEF Calm
<1>5. CASE Ensure(c) /\ Alive
  <2>1. wst[process] # "starting"
    BY <1>1, <1>2, <1>5, EngineAssumption DEF Calm, CalmWorkers, Alive, Ensure, Ensured
  <2>2. bound # None
    BY <1>5, <2>1, ListensOrStarts DEF Alive
  <2> QED BY <1>1, <1>4, <1>5, <2>2 DEF Ensure, Ensured
<1>6. CASE Ensure(c) /\ ~Alive
  <2>1. PICK w \in Workers : /\ wst[w] = "none" /\ process' = w
                             /\ wst' = [wst EXCEPT ![w] = "starting"]
    BY <1>6 DEF Ensure
  <2>2. /\ pc[c] = "ensure" /\ pc' = [pc EXCEPT ![c] = "listen"] /\ ~shutting
        /\ UNCHANGED <<up, shutting, bound, queue, reply, attempt, answer, request_lock>>
    BY <1>6 DEF Ensure
  <2>3. pc[Monitor] = "idle" /\ bound = None /\ \A v \in Workers : ~Running(v)
    <3>1. pc[Monitor] = "idle"
      BY <1>6, <2>2 DEF Calm, CalmThreads, CalmMonitor, MonitorPCs
    <3>2. ASSUME NEW v \in Workers, Running(v)
          PROVE  FALSE
      BY <1>6, <3>2, EngineAssumption DEF Calm, CalmWorkers, Alive
    <3> QED BY <1>6, <3>1, <3>2, ListensOrStarts
  <2>4. Alive'
    BY <2>1, EngineAssumption DEF Alive, Running
  <2>5. CalmThreads' /\ CalmQueues' /\ CalmMonitor'
    BY <1>0, <1>1, <1>2, <1>3, <2>2, <2>3 DEF Calm, CalmThreads, CalmQueues, CalmMonitor
  <2>6. CalmWorkers'
    BY <1>0, <1>2, <2>1, <2>2, <2>3, EngineAssumption DEF Calm, CalmWorkers, Running
  <2>7. Turn(c)'
    BY <1>0, <2>2, <2>3, <2>4 DEF Turn, Ending
  <2> QED BY <1>2, <2>2, <2>5, <2>6, <2>7 DEF Calm
<1>7. CASE Listening(c)
  BY <1>1, <1>4, <1>7 DEF Listening, Ensured
<1> QED BY <1>1, <1>5, <1>6, <1>7

\* The idle monitor asks a worker that listens, and finds it gone.
LEMMA MonitorCalm ==
  ASSUME TypeOK, Calm, faults = 0, faults' = 0, MonitorStep
  PROVE  Calm'
<1> USE DEF MonitorGoes, Goto, workers, TypeOK
<1>0. /\ Monitor \in Threads /\ Monitor \notin Clients /\ Monitor \notin Starters
      /\ None \notin Clients
  BY EngineAssumption DEF Threads
<1>1. ASSUME NEW to, pc' = [pc EXCEPT ![Monitor] = to], to # "poll", pc[Monitor] # "poll",
             to \in {"busy?", "idle?", "shutdown", "ask"} => Alive,
             to \in {"idle?", "shutdown", "ask"} => Ending \/ request_lock = None,
             UNCHANGED <<up, process, bound, wst, queue, reply, attempt, answer, request_lock>>
      PROVE  /\ CalmWorkers' /\ CalmQueues' /\ CalmMonitor'
             /\ \A c \in Clients : request_lock' = c => Turn(c)'
             /\ (shutting' <=> pc'[Monitor] \in {"ask", "poll"}) => CalmThreads'
  <2>1. CalmWorkers' /\ CalmQueues' /\ CalmMonitor'
    BY <1>0, <1>1 DEF Calm, CalmWorkers, CalmQueues, CalmMonitor, Running, Alive
  <2>2. \A c \in Clients : request_lock' = c => Turn(c)'
    BY <1>0, <1>1 DEF Calm, Turn, Ending, Running, Alive
  <2>3. (shutting' <=> pc'[Monitor] \in {"ask", "poll"}) => CalmThreads'
    BY <1>0, <1>1 DEF Calm, CalmThreads
  <2> QED BY <2>1, <2>2, <2>3
<1>2. ASSUME Wake \/ CheckBusy \/ CheckIdle \/ Shutdown
      PROVE  shutting' <=> pc'[Monitor] \in {"ask", "poll"}
  <2>1. CASE Wake \/ CheckBusy \/ CheckIdle
    <3>1. ~shutting /\ shutting' = shutting
      BY <2>1 DEF Wake, CheckBusy, CheckIdle, Calm, CalmThreads
    <3>2. pc'[Monitor] \in {"idle", "busy?", "idle?", "shutdown"}
      BY <1>0, <2>1 DEF Wake, CheckBusy, CheckIdle
    <3> QED BY <3>1, <3>2
  <2>2. CASE Shutdown
    <3>1. Alive
      BY <2>2 DEF Shutdown, Calm, CalmMonitor
    <3> QED BY <1>0, <2>2, <3>1 DEF Shutdown
  <2> QED BY <1>2, <2>1, <2>2
<1>3. CASE Wake
  BY <1>1, <1>2, <1>3 DEF Wake, Calm
<1>6. CASE CheckBusy
  <2>1. Alive
    BY <1>6 DEF CheckBusy, Calm, CalmMonitor
  <2> QED BY <1>1, <1>2, <1>6, <2>1 DEF CheckBusy, Calm
<1>7. CASE CheckIdle
  <2>1. Alive /\ Ending
    BY <1>7 DEF CheckIdle, Calm, CalmMonitor, Ending
  <2> QED BY <1>1, <1>2, <1>7, <2>1 DEF CheckIdle, Calm
<1>8. CASE Shutdown
  <2>1. Alive /\ Ending
    BY <1>8 DEF Shutdown, Calm, CalmMonitor, Ending
  <2> QED BY <1>1, <1>2, <1>8, <2>1 DEF Shutdown, Calm
<1>4. CASE AskExit
  <2>1. Alive /\ bound = process /\ process \in Workers
    <3>1. Alive /\ (request_lock # None => pc[request_lock] # "listen")
      BY <1>0, <1>4 DEF AskExit, Calm, CalmMonitor, Turn, Ending
    <3>2. wst[process] # "starting"
      BY <3>1 DEF Calm, CalmWorkers, Alive
    <3> QED BY <3>1, <3>2, ListensOrStarts DEF Alive
  <2>2. CalmThreads' /\ CalmWorkers'
    BY <1>0, <1>4 DEF AskExit, Calm, CalmThreads, CalmWorkers, Running
  <2>6. \A w \in Workers : \A i \in 1..Len(queue[w]) : queue[w][i] # Monitor
    BY <1>4 DEF AskExit, Calm, CalmQueues
  <2>7. queue' = [queue EXCEPT ![bound] = Append(@, Monitor)]
    BY <1>4, <2>1, <2>6 DEF AskExit, Contains
  <2>3. CalmQueues'
    <3> DEFINE n == Len(queue[bound])
    <3>1. /\ n \in Nat /\ Len(queue'[bound]) = n + 1 /\ queue'[bound][n + 1] = Monitor
          /\ \A i \in 1..n : queue'[bound][i] = queue[bound][i]
      BY <2>1, <2>7, AppendProperties
    <3>2. pc'[Monitor] = "poll"
      BY <1>0, <1>4 DEF AskExit
    <3>3. ASSUME NEW i \in 1..n
          PROVE  /\ queue'[bound][i] # Monitor
                 /\ pc'[queue'[bound][i]] = "wait" /\ reply'[queue'[bound][i]] = None
                 /\ \A j \in 1..n : queue'[bound][i] = queue'[bound][j] => i = j
      BY <1>0, <1>4, <2>1, <2>6, <3>1 DEF AskExit, Calm, CalmQueues
    <3> HIDE DEF n
    <3>4. ASSUME NEW i \in 1..Len(queue'[bound])
          PROVE  i \in 1..n \/ (i = n + 1 /\ queue'[bound][i] = Monitor)
      BY <3>1
    <3>5. ASSUME NEW w \in Workers, w # bound, NEW i \in 1..Len(queue'[w])
          PROVE  FALSE
      BY <2>7, <3>5, ListensOrStarts
    <3>6. ASSUME NEW i \in 1..Len(queue'[bound])
          PROVE  /\ queue'[bound][i] # Monitor => /\ pc'[queue'[bound][i]] = "wait"
                                                  /\ reply'[queue'[bound][i]] = None
                 /\ \A j \in 1..Len(queue'[bound]) : queue'[bound][i] = queue'[bound][j] => i = j
      BY <3>3, <3>4
    <3>7. bound' = bound
      BY <1>4 DEF AskExit
    <3> QED BY <3>2, <3>5, <3>6, <3>7 DEF CalmQueues
  <2>4. CalmMonitor'
    <3>1. Contains(queue'[process], Monitor)
      <4>1. queue[process] \in Seq(Clients \cup {Monitor})
        BY <2>1
      <4>2. queue'[process] = Append(queue[process], Monitor)
        BY <2>1, <2>7
      <4>3. /\ Len(queue'[process]) = Len(queue[process]) + 1
            /\ queue'[process][Len(queue[process]) + 1] = Monitor
        BY <4>1, <4>2, AppendProperties
      <4>4. Len(queue[process]) + 1 \in 1..Len(queue'[process])
        BY <4>1, <4>3
      <4> QED BY <4>3, <4>4 DEF Contains
    <3> QED BY <1>0, <1>4, <3>1 DEF AskExit, CalmMonitor
  <2>5. \A c \in Clients : request_lock' = c => Turn(c)'
    BY <1>0, <1>4 DEF AskExit, Calm, Turn, Ending, Running, Alive
  <2> QED BY <2>2, <2>3, <2>4, <2>5 DEF Calm
<1>5. CASE ChildExited
  <2>1. CalmThreads'
    BY <1>0, <1>5 DEF ChildExited, Calm, CalmThreads
  <2>2. CalmWorkers'
    BY <1>0, <1>5, EngineAssumption DEF ChildExited, Calm, CalmWorkers, Running, Alive
  <2>3. \A w \in Workers : queue[w] = <<>>
    BY <1>5, ListensOrStarts, EngineAssumption DEF ChildExited
  <2>4. CalmQueues' /\ CalmMonitor'
    BY <1>0, <1>5, <2>3 DEF ChildExited, CalmQueues, CalmMonitor
  <2>5. \A c \in Clients : request_lock' = c => Turn(c)'
    BY <1>0, <1>5 DEF ChildExited, Calm, Turn, Ending, Running, Alive
  <2> QED BY <2>1, <2>2, <2>4, <2>5 DEF Calm
<1> QED BY <1>3, <1>4, <1>5, <1>6, <1>7, <1>8, CalmExcludes DEF MonitorStep

\* A worker ends only when it was asked to, which costs the forward its first attempt.
LEMMA WorkerCalm ==
  ASSUME TypeOK, Calm, faults = 0, faults' = 0, NEW w \in Workers, WorkerStep(w) \/ Crash(w)
  PROVE  Calm'
<1> USE DEF threads, TypeOK
<1>1. CASE Bind(w)
  <2>1. /\ wst[w] = "starting" /\ bound = None /\ bound' = w
        /\ wst' = [wst EXCEPT ![w] = "serving"]
        /\ UNCHANGED <<up, pc, shutting, process, queue, reply, attempt, answer, request_lock>>
    BY <1>1, CalmExcludes DEF Bind
  <2>2. process = w /\ \A v \in Workers : queue[v] = <<>>
    BY <2>1, ListensOrStarts, EngineAssumption DEF Calm, CalmWorkers, Running
  <2>3. CalmThreads' /\ CalmQueues' /\ CalmMonitor'
    BY <2>1, <2>2 DEF Calm, CalmThreads, CalmQueues, CalmMonitor, Alive, Running
  <2>4. CalmWorkers'
    BY <2>1, <2>2, EngineAssumption DEF Calm, CalmWorkers, Running
  <2>5. \A c \in Clients : request_lock' = c => Turn(c)'
    BY <2>1, <2>2, EngineAssumption DEF Calm, Turn, Ending, Alive, Running
  <2> QED BY <2>3, <2>4, <2>5 DEF Calm
<1>2. CASE Load(w)
  <2>1. CalmThreads' /\ CalmWorkers' /\ CalmQueues' /\ CalmMonitor'
    BY <1>2 DEF Load, Calm, CalmThreads, CalmWorkers, CalmQueues, CalmMonitor, Alive, Running
  <2>2. \A c \in Clients : request_lock' = c => Turn(c)'
    BY <1>2 DEF Load, Calm, Turn, Ending, Alive, Running
  <2> QED BY <2>1, <2>2 DEF Calm
<1>3. CASE Serve(w) /\ Head(queue[w]) = Monitor
  <2>1. /\ wst[w] = "serving" /\ queue[w] # <<>> /\ Gone(w)
        /\ UNCHANGED <<up, pc, shutting, process, attempt, answer, request_lock>>
    BY <1>3 DEF Serve
  <2>2. bound = w /\ process = w /\ \A v \in Workers \ {w} : ~Running(v)
    BY <2>1, ListensOrStarts DEF Calm, CalmWorkers, Running
  <2>3. pc[Monitor] = "poll"
    <3>1. 1 \in 1..Len(queue[w]) /\ queue[w][1] = Monitor
      BY <1>3, <2>1
    <3> QED BY <3>1 DEF Calm, CalmQueues
  <2>4. ~Alive' /\ bound' = None /\ wst'[w] = "none" /\ \A v \in Workers : queue'[v] = <<>>
    BY <2>1, <2>2, ListensOrStarts DEF Gone, Alive, Running
  <2>5. CalmThreads'
    <3>1. ASSUME NEW c \in Clients, Contains(queue[w], c)
          PROVE  pc[c] = "wait"
      BY <3>1, EngineAssumption DEF Calm, CalmQueues, Contains
    <3> QED BY <2>1, <3>1 DEF Gone, Calm, CalmThreads
  <2>6. CalmWorkers'
    BY <2>1, <2>2, <2>4, EngineAssumption DEF Gone, Calm, CalmWorkers, Running
  <2>7. CalmQueues' /\ CalmMonitor'
    BY <2>1, <2>3, <2>4 DEF CalmQueues, CalmMonitor
  <2>8. \A c \in Clients : request_lock' = c => Turn(c)'
    BY <2>1, <2>3, <2>4 DEF Calm, Turn, Ending
  <2> QED BY <2>5, <2>6, <2>7, <2>8 DEF Calm
<1>4. CASE Serve(w) /\ Head(queue[w]) # Monitor
  <2> DEFINE t == Head(queue[w])
  <2>1. t \in Clients /\ pc[t] = "wait" /\ reply[t] = None
    <3>1. 1 \in 1..Len(queue[w]) /\ queue[w][1] = t /\ t \in Clients
      BY <1>4, QueueTypes DEF Serve
    <3> QED BY <1>4, <3>1 DEF Calm, CalmQueues
  <2>2. /\ queue[w] # <<>> /\ queue' = [queue EXCEPT ![w] = Tail(@)]
        /\ reply' = [reply EXCEPT ![t] = model[w]]
        /\ UNCHANGED <<up, pc, shutting, process, wst, bound, attempt, answer, request_lock>>
    BY <1>4 DEF Serve
  <2> HIDE DEF t
  <2>3. CalmThreads' /\ CalmWorkers'
    BY <2>1, <2>2 DEF Calm, CalmThreads, CalmWorkers, Running
  <2>4. /\ Len(queue'[w]) = Len(queue[w]) - 1
        /\ \A i \in 1..Len(queue'[w]) : i + 1 \in 1..Len(queue[w]) /\ queue'[w][i] = queue[w][i + 1]
    BY <2>2, HeadTailProperties
  <2>5. CalmQueues'
    <3>1. \A i \in 1..Len(queue[w]) : queue[w][i] = queue[w][1] => i = 1
      BY <2>2 DEF Calm, CalmQueues
    <3>2. t = queue[w][1] /\ Len(queue[w]) \in Nat
      BY <2>2 DEF t
    <3>3. ASSUME NEW i \in 1..Len(queue'[w])
          PROVE  queue'[w][i] # t
      BY <2>4, <3>1, <3>2, <3>3
    <3>4. ASSUME NEW i \in 1..Len(queue'[w]), NEW j \in 1..Len(queue'[w]),
                 queue'[w][i] = queue'[w][j]
          PROVE  i = j
      <4>1. /\ i + 1 \in 1..Len(queue[w]) /\ j + 1 \in 1..Len(queue[w])
            /\ queue[w][i + 1] = queue[w][j + 1]
        BY <2>4, <3>4
      <4>2. i + 1 = j + 1
        BY <4>1 DEF Calm, CalmQueues
      <4> QED BY <4>2, <3>2, <2>4
    <3>5. ASSUME NEW i \in 1..Len(queue'[w])
          PROVE  /\ bound = w
                 /\ queue'[w][i] = Monitor => pc[Monitor] = "poll"
                 /\ queue'[w][i] # Monitor => /\ pc[queue'[w][i]] = "wait"
                                              /\ reply[queue'[w][i]] = None
      <4>1. i + 1 \in 1..Len(queue[w]) /\ queue'[w][i] = queue[w][i + 1]
        BY <2>4
      <4> QED BY <4>1 DEF Calm, CalmQueues
    <3>6. ASSUME NEW v \in Workers, v # w, NEW i \in 1..Len(queue'[v])
          PROVE  FALSE
      BY <2>2, <3>6, ListensOrStarts
    <3>7. ASSUME NEW i \in 1..Len(queue'[w]), queue'[w][i] # Monitor
          PROVE  reply'[queue'[w][i]] = None
      BY <2>2, <3>3, <3>5, <3>7
    <3> QED BY <2>2, <3>4, <3>5, <3>6, <3>7 DEF CalmQueues
  <2>6. CalmMonitor'
    <3>1. Contains(queue[w], Monitor) => Contains(queue'[w], Monitor)
      <4>1. ASSUME NEW i \in 1..Len(queue[w]), queue[w][i] = Monitor
            PROVE  i - 1 \in 1..Len(queue'[w]) /\ queue'[w][i - 1] = Monitor
        <5>1. queue[w][1] # Monitor /\ Len(queue[w]) \in Nat
          BY <1>4, <2>2
        <5>2. i - 1 \in 1..Len(queue'[w])
          BY <2>4, <4>1, <5>1
        <5> QED BY <2>4, <4>1, <5>2
      <4> QED BY <4>1 DEF Contains
    <3> QED BY <2>2, <3>1 DEF Calm, CalmMonitor, Alive, Running
  <2>7. \A c \in Clients : request_lock' = c => Turn(c)'
    BY <2>1, <2>2, ZenonT(60) DEF Calm, Turn, Ending, Alive, Running
  <2> QED BY <2>3, <2>5, <2>6, <2>7 DEF Calm
<1> QED BY <1>1, <1>2, <1>3, <1>4, CalmExcludes DEF WorkerStep

\* Faults are not taken back.
LEMMA FaultsGrow ==
  ASSUME TypeOK, [Next]_vars
  PROVE  faults' = faults \/ faults' = faults + 1
<1> USE DEF Fault
<1>1. ASSUME NEW c \in Clients, Receive(c) \/ Lock(c) \/ ClientStep(c)
      PROVE  faults' = faults \/ faults' = faults + 1
  BY <1>1
  DEF Receive, Lock, ClientStep, PingStarts, PingAlive, PingSend, Pong, Touch, Send, Forwarded,
      Lost, Retry, KillChild
<1>2. ASSUME NEW t \in Clients \cup Starters, EnsureStep(t)
      PROVE  faults' = faults \/ faults' = faults + 1
  BY <1>2 DEF EnsureStep, Ensure, SpawnFails, Listening, ListenTimeout, Abandon, KillChild
<1>3. ASSUME MonitorStep
      PROVE  faults' = faults \/ faults' = faults + 1
  BY <1>3
  DEF MonitorStep, Wake, CheckBusy, CheckIdle, Shutdown, AskExit, ChildExited, ChildStays
<1>4. ASSUME NEW w \in Workers, WorkerStep(w) \/ Crash(w)
      PROVE  faults' = faults \/ faults' = faults + 1
  BY <1>4 DEF WorkerStep, Bind, Load, Serve, Exit, Crash
<1>5. CASE Age \/ StopEngine \/ StartEngine
  BY <1>5 DEF Age, StopEngine, StartEngine
<1> QED BY <1>1, <1>2, <1>3, <1>4, <1>5 DEF Next, vars

\* Nothing but a fault disturbs the calm.
LEMMA CalmKept ==
  ASSUME Commands \subseteq {"embed"}, MaxStops = 0, Attempts > 1,
         CalmUntilFault, [Next]_vars
  PROVE  CalmUntilFault'
<1>1. TypeOK /\ TypeOK'
  BY TypeKept DEF CalmUntilFault
<1> SUFFICES ASSUME faults' = 0
             PROVE  Calm'
  BY <1>1 DEF CalmUntilFault
<1>2. faults = 0 /\ Calm
  BY <1>1, FaultsGrow DEF TypeOK, CalmUntilFault
<1>3. CASE UNCHANGED vars
  BY <1>2, <1>3
  DEF vars, threads, workers, Calm, CalmThreads, CalmWorkers, CalmQueues, CalmMonitor, Turn,
      Ending, Running, Alive
<1>4. CASE Age
  BY <1>2, <1>4
  DEF Age, threads, workers, Calm, CalmThreads, CalmWorkers, CalmQueues, CalmMonitor, Turn,
      Ending, Running, Alive
<1>5. ~StopEngine
  BY <1>1 DEF StopEngine, TypeOK
<1> QED BY <1>1, <1>2, <1>3, <1>4, <1>5, RequestCalm, ForwardCalm, EnsureCalm, MonitorCalm,
           WorkerCalm, CalmExcludes DEF Next

\* When clients only embed and the engine is not stopped, a request is refused only after a
\* crash, a failed spawn or a late answer, however the idle monitor races with it: the two
\* attempts of forward_with_retry are enough, and the first of them alone is exposed.
THEOREM RefusalsNeedFaults ==
  ASSUME Commands \subseteq {"embed"}, MaxStops = 0, Attempts > 1
  PROVE  Spec => []ErrorsNeedFaults
<1>1. Init => CalmUntilFault
  BY TypeInitially, CalmInitially DEF CalmUntilFault
<1>2. CalmUntilFault /\ [Next]_vars => CalmUntilFault'
  BY CalmKept
<1>3. CalmUntilFault => ErrorsNeedFaults
  BY DEF CalmUntilFault, TypeOK, Calm, CalmThreads, ErrorsNeedFaults
<1> QED BY <1>1, <1>2, <1>3, PTL DEF Spec

=============================================================================
