---------------------------- MODULE ControlProofs ----------------------------
(***************************************************************************)
(* Proofs about Control, for any commands, pids, files, settings and menus *)
(* of requests: its types (one engine at a time has the port), that a      *)
(* service that runs is the one stop finds, that the index roots are what  *)
(* the commands on them make of them, and that after an index the rows are *)
(* those of the files under the roots.                                     *)
(***************************************************************************)
EXTENDS Control, SequenceTheorems, FiniteSetTheorems, WellFoundedInduction, TLAPS

-----------------------------------------------------------------------------
(***************************************************************************)
(* The invariant.  Which step a command is at says what it has found out   *)
(* and not yet done; what follows from that holds only while no reason is  *)
(* known why it may not.                                                   *)
(***************************************************************************)
ServiceOps == {"check", "stale", "remove", "spawn", "truncate", "write", "find", "terminate"}

\* Command c is a start, stop or restart that runs.
Servicing(c) == cmd[c] # Idle /\ About(cmd[c].request) = "services"

\* A step and the one after it.
Follows(x, y) ==
  \/ x[1] = "find" /\ y = <<"terminate", x[2]>>
  \/ x[1] \in {"terminate", "stale"} /\ y = <<"remove", x[2]>>
  \/ x = <<"remove", "engine">> /\ y \in {<<"find", "watcher">>, <<"stale", "watcher">>}
  \/ x = <<"remove", "watcher">> /\ y \in {<<"check", "engine">>, <<"spawn", "engine">>}
  \/ x = <<"check", "engine">> /\ y = <<"check", "watcher">>
  \/ x = <<"check", "watcher">> /\ y = <<"stale", "engine">>
  \/ x[1] = "spawn" /\ y = <<"truncate", x[2]>>
  \/ x[1] = "truncate" /\ y = <<"write", x[2]>>
  \/ x = <<"write", "engine">> /\ y = <<"spawn", "watcher">>

\* The steps of a command on the services that are left: each is followed by what may
\* follow it, and the last is one that may be.
Linked(steps) == \A i \in 1 .. Len(steps) - 1 : Follows(steps[i], steps[i + 1])
Ended(steps) == steps[Len(steps)] \in {<<"remove", "watcher">>, <<"write", "watcher">>}

Planned(c) ==
  /\ DOMAIN cmd[c] = DOMAIN Idle
  /\ cmd[c].steps \in Seq(ToSet(cmd[c].steps))
  /\ cmd[c].steps = <<>> => cmd[c] = Idle
  /\ cmd[c] # Idle => cmd[c].request \in menu.requests
  /\ cmd[c].pid \in Pids \cup {None} /\ cmd[c].sound \in BOOLEAN /\ IsFiniteSet(cmd[c].scan)
  /\ Servicing(c) => /\ cmd[c].steps \in Seq(ServiceOps \X Services)
                     /\ Linked(cmd[c].steps) /\ Ended(cmd[c].steps)
  /\ ~ Servicing(c) => \A i \in DOMAIN cmd[c].steps :
                         ~ (cmd[c].steps[i][1] \in ServiceOps /\ cmd[c].steps[i][2] \in Services)

Shape ==
  /\ \A c \in Commands : Planned(c)
  /\ \A p \in Pids : DOMAIN proc[p] = DOMAIN NoProcess

\* No two commands on the services.
Single == \A c, d \in Commands : Servicing(c) /\ Servicing(d) => c = d

Serves(p, v) == Is(p, v, "new") \/ Is(p, v, "up")

\* Command c has launched service v and not yet noted its pid.
Launched(c, v) == At(c, "truncate", v) \/ At(c, "write", v)

\* Every service that runs is in its pid file, but while it is being launched.
Tracked ==
  /\ Single
  /\ \A v \in Services : (\A c \in Commands : ~ Launched(c, v)) =>
       \A p \in Pids : Serves(p, v) => pidfile[v] = p
  /\ \A c \in Commands, v \in Services :
       /\ Launched(c, v) => \A p \in Pids : Serves(p, v) => p = cmd[c].pid
       /\ At(c, "remove", v) => \A p \in Pids : ~ Serves(p, v)
       /\ At(c, "terminate", v) => cmd[c].pid = pidfile[v]

\* Service v is there: a process runs that the pid file names.
There(v) == \E p \in Pids : pidfile[v] = p /\ Alive(p)

\* A process that a pid file names is that service, and runs, but while it is stopped.
Named ==
  /\ Single
  /\ \A v \in Services, p \in Pids : pidfile[v] = p /\ Alive(p) =>
       /\ proc[p].kind = v
       /\ proc[p].state = "stopping" => \E c \in Commands : At(c, "remove", v)
  /\ \A c \in Commands, v \in Services :
       /\ At(c, "terminate", v) => cmd[c].pid = pidfile[v]
       /\ Launched(c, v) => \E p \in Pids : /\ cmd[c].pid = p
                                            /\ Alive(p) => Serves(p, v)
                                            /\ cmd[c].sound => Alive(p)
  /\ \A c \in Commands :
       /\ cmd[c].sound
       /\ At(c, "check", "watcher") \/ At(c, "spawn", "watcher") \/ Launched(c, "watcher")
       => There("engine")
  /\ started => NoneAbout("services") /\ \A v \in Services : There(v)

\* What is no service has a pid that was a service's.
Foreign ==
  /\ hit => "reused" \in upset
  /\ \A p \in Pids : Alive(p) /\ proc[p].kind = "foreign" => "reused" \in upset

Inv ==
  /\ TypeOK /\ Shape /\ Foreign
  /\ upset \cap {"services", "beside", "unstopped"} = {} => Tracked
  /\ upset \cap {"services", "reused"} = {} => Named

-----------------------------------------------------------------------------
(***************************************************************************)
(* The steps of a command.                                                 *)
(***************************************************************************)
ServiceSteps == ServiceOps \X Services

LEMMA OfItsElements ==
  ASSUME NEW S, NEW s \in Seq(S)
  PROVE  s \in Seq(ToSet(s))
<1>1. /\ Len(s) \in Nat /\ DOMAIN s = 1 .. Len(s) /\ s = [i \in 1 .. Len(s) |-> s[i]]
  BY LenProperties
<1>2. \A i \in 1 .. Len(s) : s[i] \in ToSet(s)
  BY <1>1 DEF ToSet
<1>3. [i \in 1 .. Len(s) |-> s[i]] \in Seq(ToSet(s))
  BY <1>1, <1>2, IsASeq
<1> QED BY <1>1, <1>3

LEMMA OfOnes ==
  ASSUME NEW x
  PROVE  <<x>> \in Seq({x}) /\ Len(<<x>>) = 1 /\ <<x>>[1] = x
OBVIOUS

\* What is left of the steps after n of them.
LEMMA RestOfSteps ==
  ASSUME NEW S, NEW s \in Seq(S), NEW n \in 1 .. Len(s), n # Len(s)
  PROVE  LET rest == SubSeq(s, n + 1, Len(s))
         IN  /\ rest \in Seq(S) /\ rest # <<>> /\ Len(rest) = Len(s) - n
             /\ \A i \in 1 .. Len(rest) : n + i \in 1 .. Len(s) /\ rest[i] = s[n + i]
<1> DEFINE rest == SubSeq(s, n + 1, Len(s))
<1>1. Len(s) \in Nat
  BY LenProperties
<1>2. \A i \in n + 1 .. Len(s) : i \in 1 .. Len(s)
  BY <1>1
<1>3. \A i \in n + 1 .. Len(s) : s[i] \in S
  BY <1>2, ElementOfSeq
<1>4. n + 1 \in Int /\ Len(s) \in Int
  BY <1>1
<1>5. /\ rest \in Seq(S) /\ Len(rest) = (IF n + 1 <= Len(s) THEN Len(s) - (n + 1) + 1 ELSE 0)
      /\ \A i \in 1 .. Len(s) - (n + 1) + 1 : rest[i] = s[(n + 1) + i - 1]
  BY <1>3, <1>4, SubSeqProperties
<1> HIDE DEF rest
<1>6. Len(rest) = Len(s) - n /\ Len(rest) >= 1
  BY <1>1, <1>5
<1>7. \A i \in 1 .. Len(rest) : n + i \in 1 .. Len(s) /\ (n + 1) + i - 1 = n + i
  BY <1>1, <1>6
<1>8. \A i \in 1 .. Len(rest) : rest[i] = s[n + i]
  BY <1>1, <1>5, <1>6, <1>7
<1>9. rest # <<>>
  BY <1>6, EmptySeq
<1> QED BY <1>5, <1>6, <1>7, <1>8, <1>9 DEF rest

LEMMA RestLinked ==
  ASSUME NEW s \in Seq(ServiceSteps), NEW n \in 1 .. Len(s), n # Len(s), Linked(s), Ended(s)
  PROVE  LET rest == SubSeq(s, n + 1, Len(s))
         IN  /\ Linked(rest) /\ Ended(rest) /\ rest[1] = s[n + 1]
             /\ \A i \in 1 .. Len(rest) : rest[i] = s[n + i]
<1> DEFINE rest == SubSeq(s, n + 1, Len(s))
<1>1. /\ Len(rest) = Len(s) - n /\ Len(s) \in Nat
      /\ \A i \in 1 .. Len(rest) : n + i \in 1 .. Len(s) /\ rest[i] = s[n + i]
  BY RestOfSteps, LenProperties
<1> HIDE DEF rest
<1>2. Linked(rest)
  <2> SUFFICES ASSUME NEW i \in 1 .. Len(rest) - 1
               PROVE  Follows(rest[i], rest[i + 1])
    BY DEF Linked
  <2>1. i \in 1 .. Len(rest) /\ i + 1 \in 1 .. Len(rest) /\ n + i \in 1 .. Len(s) - 1
    BY <1>1
  <2>2. rest[i] = s[n + i] /\ rest[i + 1] = s[(n + i) + 1]
    BY <1>1, <2>1
  <2> QED BY <2>1, <2>2 DEF Linked
<1>3. Len(rest) \in 1 .. Len(rest) /\ n + Len(rest) = Len(s) /\ 1 \in 1 .. Len(rest)
  BY <1>1
<1>4. rest[Len(rest)] = s[Len(s)] /\ rest[1] = s[n + 1]
  BY <1>1, <1>3
<1> QED BY <1>1, <1>2, <1>4 DEF rest, Ended

\* Steps that begin with x and end with y.
From(steps, x, y) ==
  /\ steps \in Seq(ServiceSteps) /\ steps # <<>> /\ Linked(steps)
  /\ steps[1] = x /\ steps[Len(steps)] = y

LEMMA JoinedSteps ==
  ASSUME NEW a, NEW b, NEW x, NEW y, NEW u, NEW v, From(a, x, y), From(b, u, v), Follows(y, u)
  PROVE  From(a \o b, x, v)
<1> USE DEF From
<1>1. Len(a) \in Nat /\ Len(b) \in Nat
  BY LenProperties
<1>2. /\ a \o b \in Seq(ServiceSteps) /\ Len(a \o b) = Len(a) + Len(b)
      /\ \A i \in 1 .. Len(a) + Len(b) : (a \o b)[i] = IF i <= Len(a) THEN a[i] ELSE b[i - Len(a)]
  BY ConcatProperties
<1>3. Len(b) >= 1 /\ Len(a) >= 1
  BY <1>1, EmptySeq
<1>4. \A i \in 1 .. Len(a) : (a \o b)[i] = a[i]
  BY <1>1, <1>2
<1>5. \A i \in 1 .. Len(b) : (a \o b)[Len(a) + i] = b[i]
  BY <1>1, <1>2
<1>6. Linked(a \o b)
  <2> SUFFICES ASSUME NEW i \in 1 .. Len(a) + Len(b) - 1
               PROVE  Follows((a \o b)[i], (a \o b)[i + 1])
    BY <1>2 DEF Linked
  <2>1. CASE i < Len(a)
    <3>1. i \in 1 .. Len(a) - 1 /\ i \in 1 .. Len(a) /\ i + 1 \in 1 .. Len(a)
      BY <1>1, <2>1
    <3> QED BY <1>4, <3>1 DEF Linked
  <2>2. CASE i = Len(a)
    <3>1. Len(a) \in 1 .. Len(a) /\ 1 \in 1 .. Len(b)
      BY <1>1, <1>3, <2>2
    <3> QED BY <1>4, <1>5, <2>2, <3>1
  <2>3. CASE i > Len(a)
    <3>1. PICK j \in 1 .. Len(b) - 1 : i = Len(a) + j
      <4>1. i - Len(a) \in 1 .. Len(b) - 1 /\ i = Len(a) + (i - Len(a))
        BY <1>1, <2>3
      <4> QED BY <4>1
    <3>2. j \in 1 .. Len(b) /\ j + 1 \in 1 .. Len(b) /\ i + 1 = Len(a) + (j + 1)
      BY <1>1, <3>1
    <3> QED BY <1>5, <3>1, <3>2 DEF Linked
  <2> QED BY <1>1, <2>1, <2>2, <2>3
<1>7. 1 \in 1 .. Len(a) /\ Len(b) \in 1 .. Len(b)
  BY <1>1, <1>3
<1>8. (a \o b)[Len(a \o b)] = b[Len(b)] /\ (a \o b)[1] = a[1]
  BY <1>2, <1>4, <1>5, <1>7
<1>9. a \o b # <<>>
  BY <1>1, <1>2, <1>3, EmptySeq
<1> QED BY <1>2, <1>6, <1>8, <1>9

LEMMA OneStep ==
  ASSUME NEW x \in ServiceSteps
  PROVE  From(<<x>>, x, x)
BY DEF From, Linked

LEMMA TwoSteps ==
  ASSUME NEW x \in ServiceSteps, NEW y \in ServiceSteps, Follows(x, y)
  PROVE  From(<<x, y>>, x, y)
<1>1. <<x, y>> \in Seq(ServiceSteps) /\ Len(<<x, y>>) = 2 /\ <<x, y>>[1] = x /\ <<x, y>>[2] = y
  OBVIOUS
<1>2. \A i \in 1 .. 2 - 1 : i = 1
  OBVIOUS
<1> QED BY <1>1, <1>2 DEF From, Linked

LEMMA ThreeSteps ==
  ASSUME NEW x \in ServiceSteps, NEW y \in ServiceSteps, NEW z \in ServiceSteps,
         Follows(x, y), Follows(y, z)
  PROVE  From(<<x, y, z>>, x, z)
<1>1. /\ <<x, y, z>> \in Seq(ServiceSteps) /\ Len(<<x, y, z>>) = 3
      /\ <<x, y, z>>[1] = x /\ <<x, y, z>>[2] = y /\ <<x, y, z>>[3] = z
  OBVIOUS
<1>2. \A i \in 1 .. 3 - 1 : i = 1 \/ i = 2
  OBVIOUS
<1> QED BY <1>1, <1>2 DEF From, Linked

LEMMA ProgramShaped ==
  ASSUME NEW request, request.do \in {"start", "stop", "restart"}
  PROVE  LET steps == Program(request)
         IN  /\ steps \in Seq(ServiceSteps) /\ steps # <<>> /\ Linked(steps) /\ Ended(steps)
             /\ steps[1] \in {<<"find", "engine">>, <<"check", "engine">>}
<1>1. \A op \in ServiceOps, v \in Services : <<op, v>> \in ServiceSteps
  BY DEF ServiceSteps
<1>2. \A v \in Services :
        /\ From(Halt(v), <<"find", v>>, <<"remove", v>>)
        /\ From(Check(v), <<"check", v>>, <<"check", v>>)
        /\ From(Stale(v), <<"stale", v>>, <<"remove", v>>)
        /\ From(Launch(v), <<"spawn", v>>, <<"write", v>>)
  <2> TAKE v \in Services
  <2>1. From(Halt(v), <<"find", v>>, <<"remove", v>>)
    BY <1>1, ThreeSteps DEF Halt, Follows, ServiceOps
  <2>2. From(Check(v), <<"check", v>>, <<"check", v>>)
    BY <1>1, OneStep DEF Check, ServiceOps
  <2>3. From(Stale(v), <<"stale", v>>, <<"remove", v>>)
    BY <1>1, TwoSteps DEF Stale, Follows, ServiceOps
  <2>4. From(Launch(v), <<"spawn", v>>, <<"write", v>>)
    BY <1>1, ThreeSteps DEF Launch, Follows, ServiceOps
  <2> QED BY <2>1, <2>2, <2>3, <2>4
<1> DEFINE halt == Both(Halt) check == Both(Check) stale == Both(Stale) launch == Both(Launch)
<1>3. /\ From(halt, <<"find", "engine">>, <<"remove", "watcher">>)
      /\ From(check, <<"check", "engine">>, <<"check", "watcher">>)
      /\ From(stale, <<"stale", "engine">>, <<"remove", "watcher">>)
      /\ From(launch, <<"spawn", "engine">>, <<"write", "watcher">>)
  <2>1. /\ Follows(<<"remove", "engine">>, <<"find", "watcher">>)
        /\ Follows(<<"check", "engine">>, <<"check", "watcher">>)
        /\ Follows(<<"remove", "engine">>, <<"stale", "watcher">>)
        /\ Follows(<<"write", "engine">>, <<"spawn", "watcher">>)
    BY DEF Follows
  <2>2. "engine" \in Services /\ "watcher" \in Services
    BY DEF Services
  <2> QED BY <1>2, <2>1, <2>2, JoinedSteps DEF Both
<1> HIDE DEF halt, check, stale, launch
<1>4. /\ Follows(<<"remove", "watcher">>, <<"check", "engine">>)
      /\ Follows(<<"check", "watcher">>, <<"stale", "engine">>)
      /\ Follows(<<"remove", "watcher">>, <<"spawn", "engine">>)
  BY DEF Follows
<1>5. From(check \o stale, <<"check", "engine">>, <<"remove", "watcher">>)
  BY <1>3, <1>4, JoinedSteps
<1>6. From(check \o stale \o launch, <<"check", "engine">>, <<"write", "watcher">>)
  BY <1>3, <1>4, <1>5, JoinedSteps
<1>7. From(halt \o check, <<"find", "engine">>, <<"check", "watcher">>)
  BY <1>3, <1>4, JoinedSteps
<1>8. From(halt \o check \o stale, <<"find", "engine">>, <<"remove", "watcher">>)
  BY <1>3, <1>4, <1>7, JoinedSteps
<1>9. From(halt \o check \o stale \o launch, <<"find", "engine">>, <<"write", "watcher">>)
  BY <1>3, <1>4, <1>8, JoinedSteps
<1>10. CASE request.do = "start"
  <2>1. Program(request) = check \o stale \o launch
    BY <1>10 DEF Program, check, stale, launch
  <2> QED BY <1>6, <2>1 DEF From, Ended
<1>11. CASE request.do = "stop"
  <2>1. Program(request) = halt
    BY <1>11 DEF Program, halt
  <2> QED BY <1>3, <2>1 DEF From, Ended
<1>12. CASE request.do = "restart"
  <2>1. Program(request) = halt \o check \o stale \o launch
    BY <1>12 DEF Program, halt, check, stale, launch
  <2> QED BY <1>9, <2>1 DEF From, Ended
<1> QED BY <1>10, <1>11, <1>12

OtherOps == {"read", "truncate", "write", "load", "scan", "sweep", "cached"}

\* The steps of the other commands touch no service.
LEMMA OtherProgramShaped ==
  ASSUME NEW request, request.do \in {"add", "remove", "index", "file"}
  PROVE  LET steps == Program(request)
         IN  /\ steps \in Seq(ToSet(steps)) /\ steps # <<>>
             /\ \A i \in DOMAIN steps : steps[i][2] \notin Services
<1>1. /\ \A S : \A x, y, z \in S : <<x, y, z>> \in Seq(S) /\ <<x, y, z>> # <<>>
      /\ \A S : \A x, y \in S : <<x, y>> \in Seq(S) /\ <<x, y>> # <<>>
  OBVIOUS
<1>2. PICK what \in {"local", "rows"} :
        /\ Program(request) \in Seq(OtherOps \X {what}) /\ Program(request) # <<>>
  <2>1. CASE request.do \in {"add", "remove"}
    <3>1. Program(request) = << <<"read", "local">>, <<"truncate", "local">>,
                                <<"write", "local">> >>
      BY <2>1 DEF Program
    <3> DEFINE of == OtherOps \X {"local"}
    <3>2. /\ <<"read", "local">> \in of /\ <<"truncate", "local">> \in of
          /\ <<"write", "local">> \in of
      BY DEF OtherOps
    <3> HIDE DEF of
    <3>3. Program(request) \in Seq(of) /\ Program(request) # <<>>
      BY <1>1, <3>1, <3>2
    <3> QED BY <3>3 DEF of
  <2>2. CASE request.do \in {"index", "file"}
    <3>1. \/ Program(request) = << <<"load", "rows">>, <<"scan", "rows">>, <<"sweep", "rows">> >>
          \/ Program(request) = << <<"load", "rows">>, <<"cached", "rows">> >>
      BY <2>2 DEF Program
    <3> DEFINE of == OtherOps \X {"rows"}
    <3>2. /\ <<"cached", "rows">> \in of /\ <<"load", "rows">> \in of
          /\ <<"scan", "rows">> \in of /\ <<"sweep", "rows">> \in of
      BY DEF OtherOps
    <3> HIDE DEF of
    <3>3. Program(request) \in Seq(of) /\ Program(request) # <<>>
      BY <1>1, <3>1, <3>2
    <3> QED BY <3>3 DEF of
  <2> QED BY <2>1, <2>2
<1>3. \A i \in DOMAIN Program(request) : Program(request)[i] \in OtherOps \X {what}
  BY <1>2, ElementOfSeq, LenProperties
<1>4. Program(request) \in Seq(ToSet(Program(request)))
  BY <1>2, OfItsElements
<1> QED BY <1>2, <1>3, <1>4 DEF Services

\* A command that is at a step of a service.
LEMMA AtService ==
  ASSUME NEW c \in Commands, Planned(c), NEW op \in ServiceOps, NEW v \in Services, At(c, op, v)
  PROVE  Servicing(c) /\ cmd[c].steps[1] = <<op, v>> /\ Len(cmd[c].steps) \in Nat \ {0}
<1>1. cmd[c].steps # <<>> /\ cmd[c].steps \in Seq(ToSet(cmd[c].steps))
  BY DEF At, Planned
<1>2. Len(cmd[c].steps) \in Nat \ {0} /\ DOMAIN cmd[c].steps = 1 .. Len(cmd[c].steps)
  BY <1>1, EmptySeq, LenProperties
<1>3. cmd[c].steps[1] = <<op, v>> /\ 1 \in DOMAIN cmd[c].steps
  BY <1>1, <1>2 DEF At
<1> QED BY <1>2, <1>3 DEF Planned

LEMMA ElsewhereNotAt ==
  ASSUME NEW c \in Commands, Planned(c), ~Servicing(c), NEW op \in ServiceOps, NEW v \in Services
  PROVE  ~At(c, op, v)
BY AtService

\* What may come after the step that a command on the services is at: Rests are those
\* at which it knows nothing.
Rests == { <<"find", "watcher">>, <<"stale", "watcher">>, <<"check", "engine">>,
           <<"spawn", "engine">> }

\* What follows a step on service v.
LEMMA FollowsIs ==
  ASSUME NEW op, NEW v, NEW y, Follows(<<op, v>>, y)
  PROVE  \/ op = "find" /\ y = <<"terminate", v>>
         \/ op \in {"terminate", "stale"} /\ y = <<"remove", v>>
         \/ op = "remove" /\ y \in Rests
         \/ op = "check" /\ v = "engine" /\ y = <<"check", "watcher">>
         \/ op = "check" /\ v = "watcher" /\ y = <<"stale", "engine">>
         \/ op = "spawn" /\ y = <<"truncate", v>>
         \/ op = "truncate" /\ y = <<"write", v>>
         \/ op = "write" /\ v = "engine" /\ y = <<"spawn", "watcher">>
<1> DEFINE x == <<op, v>>
<1>1. x[1] = op /\ x[2] = v /\ \A a, b : x = <<a, b>> => op = a /\ v = b
  OBVIOUS
<1>2. Follows(x, y)
  OBVIOUS
<1> HIDE DEF x
<1>3. {<<"find", "watcher">>, <<"stale", "watcher">>, <<"check", "engine">>, <<"spawn", "engine">>} = Rests
  BY DEF Rests
<1> QED BY <1>1, <1>2, <1>3, ZenonT(60) DEF Follows

LEMMA AfterService ==
  ASSUME NEW c \in Commands, Planned(c), NEW op \in ServiceOps, NEW v \in Services, At(c, op, v)
  PROVE  LET s == cmd[c].steps
             n == Len(cmd[c].steps)
         IN  /\ op = "find" => /\ n >= 3 /\ s[2] = <<"terminate", v>> /\ s[3] = <<"remove", v>>
                               /\ n = 3 \/ s[4] \in Rests
             /\ op = "terminate" => n >= 2 /\ s[2] = <<"remove", v>>
             /\ op = "remove" => n = 1 \/ s[2] \in Rests
             /\ op = "check" /\ v = "engine" => /\ n >= 3 /\ s[2] = <<"check", "watcher">>
                                                /\ s[3] = <<"stale", "engine">>
             /\ op = "check" /\ v = "watcher" => n >= 2 /\ s[2] = <<"stale", "engine">>
             /\ op = "stale" => /\ n >= 2 /\ s[2] = <<"remove", v>>
                                /\ n = 2 \/ s[3] \in Rests
             /\ op = "spawn" => n >= 2 /\ s[2] = <<"truncate", v>>
             /\ op = "truncate" => n >= 2 /\ s[2] = <<"write", v>>
             /\ op = "write" /\ v = "engine" => n >= 2 /\ s[2] = <<"spawn", "watcher">>
             /\ op = "write" /\ v = "watcher" => n = 1
<1> DEFINE s == cmd[c].steps
           n == Len(cmd[c].steps)
<1>1. /\ n \in Nat \ {0} /\ s[1] = <<op, v>>
      /\ Linked(s) /\ Ended(s)
  BY AtService DEF Planned
<1>2. \A i \in 1 .. n - 1 : Follows(s[i], s[i + 1])
  BY <1>1 DEF Linked
<1>3. s[n] \in {<<"remove", "watcher">>, <<"write", "watcher">>}
  BY <1>1 DEF Ended
<1> HIDE DEF s, n
<1>4. n = 1 => op \in {"remove", "write"} /\ v = "watcher"
  <2>1. n = 1 => <<op, v>> \in {<<"remove", "watcher">>, <<"write", "watcher">>}
    BY <1>1, <1>3
  <2> QED BY <2>1
<1>5. /\ n = 1 \/ n >= 2
      /\ n >= 2 => Follows(<<op, v>>, s[2])
      /\ n = 2 \/ n = 1 \/ n >= 3
      /\ n >= 3 => Follows(s[2], s[3])
      /\ n = 3 \/ n = 2 \/ n = 1 \/ n >= 4
      /\ n >= 4 => Follows(s[3], s[4])
  <2>1. n >= 2 => 1 \in 1 .. n - 1
    BY <1>1
  <2>2. n >= 3 => 2 \in 1 .. n - 1
    BY <1>1
  <2>3. n >= 4 => 3 \in 1 .. n - 1
    BY <1>1
  <2>4. n = 1 \/ n = 2 \/ n = 3 \/ n >= 4
    BY <1>1
  <2>5. (n = 2 => n >= 2) /\ (n = 3 => n >= 2 /\ n >= 3) /\ (n >= 4 => n >= 2 /\ n >= 3)
    BY <1>1
  <2>6. 1 + 1 = 2 /\ 2 + 1 = 3 /\ 3 + 1 = 4
    OBVIOUS
  <2>7. \A i, j : i \in 1 .. n - 1 /\ j = i + 1 => Follows(s[i], s[j])
    BY <1>2
  <2>8. /\ n >= 2 => Follows(s[1], s[2])
        /\ n >= 3 => Follows(s[2], s[3])
        /\ n >= 4 => Follows(s[3], s[4])
    BY <2>1, <2>2, <2>3, <2>6, <2>7, Zenon
  <2> QED BY <1>1, <2>4, <2>5, <2>8
<1>6. CASE op = "find"
  <2>1. n >= 2 /\ s[2] = <<"terminate", v>>
    BY <1>4, <1>5, <1>6, FollowsIs
  <2>2. n # 2
    <3>1. n = 2 => "terminate" \in {"remove", "write"}
      BY <1>3, <2>1
    <3> QED BY <3>1
  <2>3. n >= 3 /\ s[3] = <<"remove", v>>
    <3>1. n >= 3 /\ Follows(<<"terminate", v>>, s[3])
      BY <1>1, <1>5, <2>1, <2>2
    <3> QED BY <3>1, FollowsIs
  <2>4. n = 3 \/ s[4] \in Rests
    <3>1. n = 3 \/ Follows(<<"remove", v>>, s[4])
      BY <1>1, <1>5, <2>3
    <3> QED BY <3>1, FollowsIs
  <2> QED BY <1>6, <2>1, <2>3, <2>4 DEF s, n
<1>7. CASE op = "terminate"
  <2>1. n >= 2 /\ s[2] = <<"remove", v>>
    BY <1>4, <1>5, <1>7, FollowsIs
  <2> QED BY <1>7, <2>1 DEF s, n
<1>8. CASE op = "remove"
  <2>1. n = 1 \/ s[2] \in Rests
    BY <1>5, <1>8, FollowsIs
  <2> QED BY <1>8, <2>1 DEF s, n
<1>9. CASE op = "check" /\ v = "engine"
  <2>1. n >= 2 /\ s[2] = <<"check", "watcher">>
    BY <1>4, <1>5, <1>9, FollowsIs
  <2>2. n # 2
    <3>1. n = 2 => "check" \in {"remove", "write"}
      BY <1>3, <2>1
    <3> QED BY <3>1
  <2>3. n >= 3 /\ s[3] = <<"stale", "engine">>
    <3>1. n >= 3 /\ Follows(<<"check", "watcher">>, s[3])
      BY <1>1, <1>5, <2>1, <2>2
    <3> QED BY <3>1, FollowsIs
  <2> QED BY <1>9, <2>1, <2>3 DEF s, n
<1>10. CASE op = "check" /\ v = "watcher"
  <2>1. n >= 2 /\ s[2] = <<"stale", "engine">>
    BY <1>4, <1>5, <1>10, FollowsIs
  <2> QED BY <1>10, <2>1 DEF s, n
<1>11. CASE op = "stale"
  <2>1. n >= 2 /\ s[2] = <<"remove", v>>
    BY <1>4, <1>5, <1>11, FollowsIs
  <2>2. n = 2 \/ s[3] \in Rests
    <3>1. n = 2 \/ Follows(<<"remove", v>>, s[3])
      BY <1>1, <1>5, <2>1
    <3> QED BY <3>1, FollowsIs
  <2> QED BY <1>11, <2>1, <2>2 DEF s, n
<1>12. CASE op = "spawn"
  <2>1. n >= 2 /\ s[2] = <<"truncate", v>>
    BY <1>4, <1>5, <1>12, FollowsIs
  <2> QED BY <1>12, <2>1 DEF s, n
<1>13. CASE op = "truncate"
  <2>1. n >= 2 /\ s[2] = <<"write", v>>
    BY <1>4, <1>5, <1>13, FollowsIs
  <2> QED BY <1>13, <2>1 DEF s, n
<1>14. CASE op = "write" /\ v = "engine"
  <2>1. n >= 2 /\ s[2] = <<"spawn", "watcher">>
    BY <1>4, <1>5, <1>14, FollowsIs
  <2> QED BY <1>14, <2>1 DEF s, n
<1>15. CASE op = "write" /\ v = "watcher"
  <2>1. n = 1
    BY <1>5, <1>15, FollowsIs
  <2> QED BY <1>15, <2>1 DEF s, n
<1> QED BY <1>6, <1>7, <1>8, <1>9, <1>10, <1>11, <1>12, <1>13, <1>14, <1>15, ZenonT(60) DEF ServiceOps, Services

-----------------------------------------------------------------------------
(***************************************************************************)
(* A command's turn.                                                       *)
(***************************************************************************)
\* Command c, which is on the services, goes on or ends.
Turn(c) ==
  /\ DOMAIN cmd' = Commands /\ \A d \in Commands \ {c} : cmd'[d] = cmd[d]
  /\ Servicing(c) /\ Planned(c)'
  /\ cmd'[c] # Idle => cmd'[c].since = cmd[c].since

\* A command on the services goes on n steps.
LEMMA ServiceTurn ==
  ASSUME DOMAIN cmd = Commands, NEW c \in Commands, Planned(c), Servicing(c), menu' = menu,
         NEW now, DOMAIN now = DOMAIN Idle, now.steps = cmd[c].steps,
         now.request = cmd[c].request, now.scan = cmd[c].scan, now.since = cmd[c].since,
         now.sound = cmd[c].sound, now.pid \in Pids \cup {None},
         NEW n \in 1 .. Len(cmd[c].steps), Skip(c, now, n)
  PROVE  /\ Turn(c)
         /\ Servicing(c)' <=> n # Len(cmd[c].steps)
         /\ Servicing(c)' => /\ cmd'[c].pid = now.pid /\ cmd'[c].sound = now.sound
                             /\ cmd'[c].since = now.since
         /\ \A op, v : At(c, op, v)' <=> n # Len(cmd[c].steps) /\ cmd[c].steps[n + 1] = <<op, v>>
<1>1. /\ DOMAIN cmd' = Commands /\ \A d \in Commands \ {c} : cmd'[d] = cmd[d]
      /\ cmd'[c] = IF Len(cmd[c].steps) = n THEN Idle
                   ELSE [now EXCEPT !.steps = SubSeq(cmd[c].steps, n + 1, Len(cmd[c].steps))]
  <2>1. /\ DOMAIN cmd' = Commands /\ \A d \in Commands \ {c} : cmd'[d] = cmd[d]
        /\ cmd'[c] = IF Len(now.steps) = n THEN Idle
                     ELSE [now EXCEPT !.steps = SubSeq(now.steps, n + 1, Len(now.steps))]
    BY DEF Skip
  <2> QED BY <2>1
<1>2. CASE n = Len(cmd[c].steps)
  <2>1. cmd'[c] = Idle
    BY <1>1, <1>2
  <2>2. Planned(c)'
    BY <2>1, FS_EmptySet DEF Planned, Idle, Servicing
  <2> QED BY <1>1, <1>2, <2>1, <2>2 DEF Servicing, At, Idle, Turn
<1>3. CASE n # Len(cmd[c].steps)
  <2> DEFINE rest == SubSeq(cmd[c].steps, n + 1, Len(cmd[c].steps))
  <2>1. cmd[c].steps \in Seq(ServiceSteps) /\ Linked(cmd[c].steps) /\ Ended(cmd[c].steps)
    BY DEF Planned, ServiceSteps
  <2>2. /\ rest \in Seq(ServiceSteps) /\ rest # <<>> /\ Linked(rest) /\ Ended(rest)
        /\ rest[1] = cmd[c].steps[n + 1]
    BY <1>3, <2>1, RestOfSteps, RestLinked
  <2>3. rest \in Seq(ToSet(rest))
    BY <2>2, OfItsElements
  <2> HIDE DEF rest
  <2>4. /\ cmd'[c] = [now EXCEPT !.steps = rest] /\ DOMAIN cmd'[c] = DOMAIN Idle
        /\ cmd'[c].steps = rest /\ cmd'[c].request = cmd[c].request
        /\ cmd'[c].pid = now.pid /\ cmd'[c].sound = now.sound /\ cmd'[c].since = now.since
        /\ cmd'[c].scan = cmd[c].scan
    BY <1>1, <1>3 DEF Idle, rest
  <2>5. cmd'[c] # Idle
    BY <2>2, <2>4 DEF Idle
  <2>6. Servicing(c)'
    BY <2>4, <2>5 DEF Servicing
  <2>7. Planned(c)'
    BY <2>2, <2>3, <2>4, <2>5, <2>6 DEF Planned, ServiceSteps, Servicing
  <2>8. \A op, v : At(c, op, v)' <=> cmd[c].steps[n + 1] = <<op, v>>
    BY <2>2, <2>4 DEF At
  <2> QED BY <1>1, <1>3, <2>4, <2>6, <2>7, <2>8 DEF Turn
<1> QED BY <1>2, <1>3

Typed == TypeOK /\ Shape

\* What command c may be at next.
Goes(c, steps) == \A op, v : At(c, op, v)' => <<op, v>> \in steps

\* It knows what it knew.
Keeps(c) == Servicing(c)' => cmd'[c].pid = cmd[c].pid /\ cmd'[c].sound = cmd[c].sound

LEMMA OneAt ==
  ASSUME NEW c, NEW op, NEW v, NEW o, NEW u, At(c, op, v), At(c, o, u)
  PROVE  o = op /\ u = v
BY DEF At

LEMMA TypedCommand ==
  ASSUME Typed, NEW c \in Commands
  PROVE  /\ DOMAIN cmd = Commands /\ Planned(c) /\ DOMAIN cmd[c] = DOMAIN Idle
         /\ cmd[c].pid \in Pids \cup {None}
BY DEF Typed, TypeOK, Shape, Planned

LEMMA GoTurn ==
  ASSUME Typed, NEW c \in Commands, NEW op \in ServiceOps, NEW v \in Services, At(c, op, v),
         menu' = menu, NEW n \in 1 .. Len(cmd[c].steps), Skip(c, cmd[c], n)
  PROVE  /\ Turn(c) /\ Keeps(c) /\ (Servicing(c)' <=> n # Len(cmd[c].steps))
         /\ \A o, u : At(c, o, u)' <=> n # Len(cmd[c].steps) /\ cmd[c].steps[n + 1] = <<o, u>>
<1>1. DOMAIN cmd = Commands /\ Planned(c) /\ DOMAIN cmd[c] = DOMAIN Idle /\ Servicing(c)
  BY TypedCommand, AtService
<1>2. cmd[c].pid \in Pids \cup {None}
  BY TypedCommand
<1>3. /\ Turn(c)
      /\ Servicing(c)' <=> n # Len(cmd[c].steps)
      /\ Servicing(c)' => cmd'[c].pid = cmd[c].pid /\ cmd'[c].sound = cmd[c].sound
      /\ \A o, u : At(c, o, u)' <=> n # Len(cmd[c].steps) /\ cmd[c].steps[n + 1] = <<o, u>>
  BY <1>1, <1>2, ServiceTurn
<1> QED BY <1>3 DEF Keeps

LEMMA WithPidTurn ==
  ASSUME Typed, NEW c \in Commands, NEW op \in ServiceOps, NEW v \in Services, At(c, op, v),
         menu' = menu, NEW n \in 1 .. Len(cmd[c].steps), NEW p \in Pids \cup {None},
         Skip(c, [cmd[c] EXCEPT !.pid = p], n)
  PROVE  /\ Turn(c)
         /\ Servicing(c)' => cmd'[c].pid = p /\ cmd'[c].sound = cmd[c].sound
         /\ \A o, u : At(c, o, u)' <=> n # Len(cmd[c].steps) /\ cmd[c].steps[n + 1] = <<o, u>>
<1> DEFINE now == [cmd[c] EXCEPT !.pid = p]
<1>1. DOMAIN cmd = Commands /\ Planned(c) /\ DOMAIN cmd[c] = DOMAIN Idle /\ Servicing(c)
  BY TypedCommand, AtService
<1>2. /\ DOMAIN now = DOMAIN Idle /\ now.steps = cmd[c].steps /\ now.request = cmd[c].request
      /\ now.scan = cmd[c].scan /\ now.pid = p /\ now.sound = cmd[c].sound
      /\ now.since = cmd[c].since
  BY <1>1 DEF Idle
<1>3. Skip(c, now, n)
  OBVIOUS
<1> HIDE DEF now
<1>4. /\ Turn(c)
      /\ Servicing(c)' => cmd'[c].pid = now.pid /\ cmd'[c].sound = now.sound
      /\ \A o, u : At(c, o, u)' <=> n # Len(cmd[c].steps) /\ cmd[c].steps[n + 1] = <<o, u>>
  BY <1>1, <1>2, <1>3, ServiceTurn
<1> QED BY <1>2, <1>4

LEMMA FinishTurn ==
  ASSUME Typed, NEW c \in Commands, Servicing(c), Finish(c)
  PROVE  Turn(c) /\ ~Servicing(c)' /\ cmd'[c] = Idle /\ \A op, v : ~At(c, op, v)'
<1>1. /\ cmd'[c] = Idle /\ DOMAIN cmd' = Commands
      /\ \A d \in Commands \ {c} : cmd'[d] = cmd[d]
  BY TypedCommand DEF Finish
<1>2. Planned(c)'
  BY <1>1, FS_EmptySet DEF Planned, Idle, Servicing
<1> QED BY <1>1, <1>2 DEF Turn, Servicing, At, Idle

-----------------------------------------------------------------------------
LEMMA CheckEngineTurn ==
  ASSUME Typed, NEW c \in Commands, At(c, "check", "engine"), CheckService(c)
  PROVE  /\ Turn(c) /\ Keeps(c) /\ UNCHANGED <<services, ghosts, Quiet>>
         /\ Goes(c, {IF ServiceAlive("engine") THEN <<"check", "watcher">>
                                              ELSE <<"stale", "engine">>})
<1>1. "check" \in ServiceOps /\ "engine" \in Services
  BY DEF ServiceOps, Services
<1>2. ~At(c, "check", "watcher")
  BY OneAt
<1>3. /\ Skip(c, cmd[c], IF ServiceAlive("engine") THEN 1 ELSE 2)
      /\ UNCHANGED <<services, ghosts, Quiet>>
  BY <1>2 DEF CheckService
<1>4. /\ Len(cmd[c].steps) >= 3 /\ Len(cmd[c].steps) \in Nat
      /\ cmd[c].steps[2] = <<"check", "watcher">> /\ cmd[c].steps[3] = <<"stale", "engine">>
  BY <1>1, TypedCommand, AfterService, AtService
<1>5. menu' = menu
  BY <1>3 DEF Quiet
<1>6. CASE ServiceAlive("engine")
  <2>1. Skip(c, cmd[c], 1) /\ 1 \in 1 .. Len(cmd[c].steps)
    BY <1>3, <1>4, <1>6
  <2>2. Turn(c) /\ Keeps(c) /\ \A o, u : At(c, o, u)' => cmd[c].steps[1 + 1] = <<o, u>>
    BY <1>1, <1>5, <2>1, GoTurn
  <2> QED BY <1>3, <1>4, <1>6, <2>2 DEF Goes
<1>7. CASE ~ServiceAlive("engine")
  <2>1. Skip(c, cmd[c], 2) /\ 2 \in 1 .. Len(cmd[c].steps)
    BY <1>3, <1>4, <1>7
  <2>2. Turn(c) /\ Keeps(c) /\ \A o, u : At(c, o, u)' => cmd[c].steps[2 + 1] = <<o, u>>
    BY <1>1, <1>5, <2>1, GoTurn
  <2> QED BY <1>3, <1>4, <1>7, <2>2 DEF Goes
<1> QED BY <1>6, <1>7

LEMMA CheckWatcherTurn ==
  ASSUME Typed, NEW c \in Commands, At(c, "check", "watcher"), CheckService(c)
  PROVE  /\ Turn(c) /\ UNCHANGED <<pidfile, proc, hit, upset, Quiet>>
         /\ ServiceAlive("watcher") => /\ cmd'[c] = Idle /\ started' = cmd[c].sound
                                       /\ ~Servicing(c)' /\ Goes(c, {})
         /\ ~ServiceAlive("watcher") => /\ Keeps(c) /\ started' = started
                                        /\ Goes(c, {<<"stale", "engine">>})
<1>1. "check" \in ServiceOps /\ "watcher" \in Services
  BY DEF ServiceOps, Services
<1>2. ~At(c, "check", "engine")
  BY OneAt
<1>3. /\ IF ServiceAlive("watcher") THEN Finish(c) /\ started' = cmd[c].sound
                                    ELSE Go(c, cmd[c]) /\ UNCHANGED started
      /\ UNCHANGED <<pidfile, proc, hit, upset, Quiet>>
  BY <1>2 DEF CheckService
<1>4. /\ Len(cmd[c].steps) >= 2 /\ Len(cmd[c].steps) \in Nat /\ Servicing(c)
      /\ cmd[c].steps[2] = <<"stale", "engine">>
  BY <1>1, TypedCommand, AfterService, AtService
<1>5. menu' = menu
  BY <1>3 DEF Quiet
<1>6. CASE ServiceAlive("watcher")
  BY <1>3, <1>4, <1>6, FinishTurn DEF Goes
<1>7. CASE ~ServiceAlive("watcher")
  <2>1. Skip(c, cmd[c], 1) /\ 1 \in 1 .. Len(cmd[c].steps)
    BY <1>3, <1>4, <1>7 DEF Go
  <2>2. Turn(c) /\ Keeps(c) /\ \A o, u : At(c, o, u)' => cmd[c].steps[1 + 1] = <<o, u>>
    BY <1>1, <1>5, <2>1, GoTurn
  <2> QED BY <1>3, <1>4, <1>7, <2>2 DEF Goes
<1> QED BY <1>6, <1>7

LEMMA StaleTurn ==
  ASSUME Typed, NEW c \in Commands, NEW v \in Services, At(c, "stale", v), CheckStale(c)
  PROVE  /\ Turn(c) /\ Keeps(c) /\ UNCHANGED <<services, ghosts, Quiet>>
         /\ ServiceAlive(v) => Goes(c, Rests)
         /\ ~ServiceAlive(v) => Goes(c, {<<"remove", v>>})
<1>1. "stale" \in ServiceOps
  BY DEF ServiceOps
<1>2. Skip(c, cmd[c], IF ServiceAlive(v) THEN 2 ELSE 1) /\ UNCHANGED <<services, ghosts, Quiet>>
  <2>1. PICK u \in Services :
          /\ At(c, "stale", u) /\ Skip(c, cmd[c], IF ServiceAlive(u) THEN 2 ELSE 1)
          /\ UNCHANGED <<services, ghosts, Quiet>>
    BY DEF CheckStale
  <2> QED BY <2>1, OneAt
<1>3. /\ Len(cmd[c].steps) >= 2 /\ Len(cmd[c].steps) \in Nat
      /\ cmd[c].steps[2] = <<"remove", v>> /\ (Len(cmd[c].steps) = 2 \/ cmd[c].steps[3] \in Rests)
  BY <1>1, TypedCommand, AfterService, AtService
<1>4. menu' = menu
  BY <1>2 DEF Quiet
<1>5. CASE ServiceAlive(v)
  <2>1. Skip(c, cmd[c], 2) /\ 2 \in 1 .. Len(cmd[c].steps)
    BY <1>2, <1>3, <1>5
  <2>2. /\ Turn(c) /\ Keeps(c)
        /\ \A o, u : At(c, o, u)' => 2 # Len(cmd[c].steps) /\ cmd[c].steps[2 + 1] = <<o, u>>
    BY <1>1, <1>4, <2>1, GoTurn
  <2> QED BY <1>2, <1>3, <1>5, <2>2 DEF Goes
<1>6. CASE ~ServiceAlive(v)
  <2>1. Skip(c, cmd[c], 1) /\ 1 \in 1 .. Len(cmd[c].steps)
    BY <1>2, <1>3, <1>6
  <2>2. Turn(c) /\ Keeps(c) /\ \A o, u : At(c, o, u)' => cmd[c].steps[1 + 1] = <<o, u>>
    BY <1>1, <1>4, <2>1, GoTurn
  <2> QED BY <1>2, <1>3, <1>6, <2>2 DEF Goes
<1> QED BY <1>5, <1>6

LEMMA RemoveTurn ==
  ASSUME Typed, NEW c \in Commands, NEW v \in Services, At(c, "remove", v), RemovePid(c)
  PROVE  /\ Turn(c) /\ Keeps(c) /\ Goes(c, Rests)
         /\ pidfile' = [pidfile EXCEPT ![v] = None]
         /\ UNCHANGED <<proc, started, hit, upset, Quiet>>
<1>1. "remove" \in ServiceOps
  BY DEF ServiceOps
<1>2. /\ pidfile' = [pidfile EXCEPT ![v] = None] /\ Go(c, cmd[c])
      /\ UNCHANGED <<proc, started, hit, upset, Quiet>>
  <2>1. PICK u \in Services :
          /\ At(c, "remove", u) /\ pidfile' = [pidfile EXCEPT ![u] = None] /\ Go(c, cmd[c])
          /\ UNCHANGED <<proc, started, hit, upset, Quiet>>
    BY DEF RemovePid
  <2> QED BY <2>1, OneAt
<1>3. /\ Len(cmd[c].steps) \in Nat \ {0}
      /\ Len(cmd[c].steps) = 1 \/ cmd[c].steps[2] \in Rests
  BY <1>1, TypedCommand, AfterService, AtService
<1>4. Skip(c, cmd[c], 1) /\ 1 \in 1 .. Len(cmd[c].steps) /\ menu' = menu
  BY <1>2, <1>3 DEF Go, Quiet
<1>5. /\ Turn(c) /\ Keeps(c)
      /\ \A o, u : At(c, o, u)' => 1 # Len(cmd[c].steps) /\ cmd[c].steps[1 + 1] = <<o, u>>
  BY <1>1, <1>4, GoTurn
<1> QED BY <1>2, <1>3, <1>5 DEF Goes

LEMMA SpawnTurn ==
  ASSUME Typed, NEW c \in Commands, NEW v \in Services, At(c, "spawn", v), Spawn(c)
  PROVE  /\ Turn(c) /\ Goes(c, {<<"truncate", v>>}) /\ At(c, "truncate", v)'
         /\ UNCHANGED <<pidfile, started, hit, Quiet>>
         /\ Servicing(c)' => cmd'[c].sound = cmd[c].sound
         /\ \E p \in Pids :
              /\ proc[p] = NoProcess
              /\ proc' = [proc EXCEPT ![p] = [Process(v, Configured)
                            EXCEPT !.state = IF v = "engine" THEN "new" ELSE "up"]]
              /\ Servicing(c)' => cmd'[c].pid = p
              /\ upset' = upset \cup {"beside" : q \in {q \in {pidfile[v]} : Alive(q)}}
                                \cup {"reused" : u \in {u \in Services : pidfile[u] = p}}
<1>1. "spawn" \in ServiceOps
  BY DEF ServiceOps
<1>2. PICK p \in Pids :
        /\ proc[p] = NoProcess
        /\ proc' = [proc EXCEPT ![p] = [Process(v, Configured)
                      EXCEPT !.state = IF v = "engine" THEN "new" ELSE "up"]]
        /\ Go(c, [cmd[c] EXCEPT !.pid = p])
        /\ upset' = upset \cup {"beside" : q \in {q \in {pidfile[v]} : Alive(q)}}
                          \cup {"reused" : u \in {u \in Services : pidfile[u] = p}}
        /\ UNCHANGED <<pidfile, started, hit, Quiet>>
  <2>1. PICK w \in Services, p \in Pids :
          /\ At(c, "spawn", w) /\ proc[p] = NoProcess
          /\ proc' = [proc EXCEPT ![p] = [Process(w, Configured)
                        EXCEPT !.state = IF w = "engine" THEN "new" ELSE "up"]]
          /\ Go(c, [cmd[c] EXCEPT !.pid = p])
          /\ upset' = upset \cup {"beside" : q \in {q \in {pidfile[w]} : Alive(q)}}
                            \cup {"reused" : u \in {u \in Services : pidfile[u] = p}}
          /\ UNCHANGED <<pidfile, started, hit, Quiet>>
    BY DEF Spawn
  <2>2. w = v
    BY <2>1, OneAt
  <2> QED BY <2>1, <2>2
<1>3. /\ Len(cmd[c].steps) \in Nat /\ Len(cmd[c].steps) >= 2
      /\ cmd[c].steps[2] = <<"truncate", v>>
  BY <1>1, TypedCommand, AfterService, AtService
<1>4. /\ Skip(c, [cmd[c] EXCEPT !.pid = p], 1) /\ 1 \in 1 .. Len(cmd[c].steps) /\ menu' = menu
      /\ p \in Pids \cup {None}
  BY <1>2, <1>3 DEF Go, Quiet
<1>5. /\ Turn(c)
      /\ Servicing(c)' => cmd'[c].pid = p /\ cmd'[c].sound = cmd[c].sound
      /\ \A o, u : At(c, o, u)' <=> 1 # Len(cmd[c].steps) /\ cmd[c].steps[1 + 1] = <<o, u>>
  BY <1>1, <1>4, WithPidTurn
<1>6. Goes(c, {<<"truncate", v>>}) /\ At(c, "truncate", v)'
  BY <1>3, <1>5 DEF Goes
<1>7. \E q \in Pids :
        /\ proc[q] = NoProcess
        /\ proc' = [proc EXCEPT ![q] = [Process(v, Configured)
                      EXCEPT !.state = IF v = "engine" THEN "new" ELSE "up"]]
        /\ Servicing(c)' => cmd'[c].pid = q
        /\ upset' = upset \cup {"beside" : r \in {r \in {pidfile[v]} : Alive(r)}}
                          \cup {"reused" : u \in {u \in Services : pidfile[u] = q}}
  <2>1. Servicing(c)' => cmd'[c].pid = p
    BY <1>5
  <2> WITNESS p \in Pids
  <2> QED BY <1>2, <2>1
<1> QED BY <1>2, <1>5, <1>6, <1>7

LEMMA TruncateTurn ==
  ASSUME Typed, NEW c \in Commands, NEW v \in Services, At(c, "truncate", v), TruncatePid(c)
  PROVE  /\ Turn(c) /\ Keeps(c) /\ Goes(c, {<<"write", v>>}) /\ At(c, "write", v)'
         /\ pidfile' = [pidfile EXCEPT ![v] = None]
         /\ UNCHANGED <<proc, started, hit, upset, Quiet>>
<1>1. "truncate" \in ServiceOps
  BY DEF ServiceOps
<1>2. /\ pidfile' = [pidfile EXCEPT ![v] = None] /\ Go(c, cmd[c])
      /\ UNCHANGED <<proc, started, hit, upset, Quiet>>
  <2>1. PICK u \in Services :
          /\ At(c, "truncate", u) /\ pidfile' = [pidfile EXCEPT ![u] = None] /\ Go(c, cmd[c])
          /\ UNCHANGED <<proc, started, hit, upset, Quiet>>
    BY DEF TruncatePid
  <2> QED BY <2>1, OneAt
<1>3. /\ Len(cmd[c].steps) \in Nat /\ Len(cmd[c].steps) >= 2
      /\ cmd[c].steps[2] = <<"write", v>>
  BY <1>1, TypedCommand, AfterService, AtService
<1>4. Skip(c, cmd[c], 1) /\ 1 \in 1 .. Len(cmd[c].steps) /\ menu' = menu
  BY <1>2, <1>3 DEF Go, Quiet
<1>5. /\ Turn(c) /\ Keeps(c)
      /\ \A o, u : At(c, o, u)' <=> 1 # Len(cmd[c].steps) /\ cmd[c].steps[1 + 1] = <<o, u>>
  BY <1>1, <1>4, GoTurn
<1>6. Goes(c, {<<"write", v>>}) /\ At(c, "write", v)'
  BY <1>3, <1>5 DEF Goes
<1> QED BY <1>2, <1>5, <1>6

LEMMA WriteTurn ==
  ASSUME Typed, NEW c \in Commands, NEW v \in Services, At(c, "write", v), WritePid(c)
  PROVE  /\ Turn(c) /\ Keeps(c)
         /\ pidfile' = [pidfile EXCEPT ![v] = cmd[c].pid]
         /\ started' = (v = "watcher" /\ cmd[c].sound)
         /\ UNCHANGED <<proc, hit, upset, Quiet>>
         /\ v = "engine" => Goes(c, {<<"spawn", "watcher">>})
         /\ v = "watcher" => ~Servicing(c)' /\ Goes(c, {})
<1>1. "write" \in ServiceOps
  BY DEF ServiceOps
<1>2. /\ pidfile' = [pidfile EXCEPT ![v] = cmd[c].pid] /\ Go(c, cmd[c])
      /\ started' = (v = "watcher" /\ cmd[c].sound)
      /\ UNCHANGED <<proc, hit, upset, Quiet>>
  <2>1. PICK u \in Services :
          /\ At(c, "write", u) /\ pidfile' = [pidfile EXCEPT ![u] = cmd[c].pid] /\ Go(c, cmd[c])
          /\ started' = (u = "watcher" /\ cmd[c].sound)
          /\ UNCHANGED <<proc, hit, upset, Quiet>>
    BY DEF WritePid
  <2> QED BY <2>1, OneAt
<1>3. /\ Len(cmd[c].steps) \in Nat \ {0}
      /\ v = "engine" => Len(cmd[c].steps) >= 2 /\ cmd[c].steps[2] = <<"spawn", "watcher">>
      /\ v = "watcher" => Len(cmd[c].steps) = 1
  BY <1>1, TypedCommand, AfterService, AtService
<1>4. Skip(c, cmd[c], 1) /\ 1 \in 1 .. Len(cmd[c].steps) /\ menu' = menu
  BY <1>2, <1>3 DEF Go, Quiet
<1>5. /\ Turn(c) /\ Keeps(c) /\ (Servicing(c)' <=> 1 # Len(cmd[c].steps))
      /\ \A o, u : At(c, o, u)' <=> 1 # Len(cmd[c].steps) /\ cmd[c].steps[1 + 1] = <<o, u>>
  BY <1>1, <1>4, GoTurn
<1>6. v = "engine" => Goes(c, {<<"spawn", "watcher">>})
  BY <1>3, <1>5 DEF Goes
<1>7. v = "watcher" => ~Servicing(c)' /\ Goes(c, {})
  BY <1>3, <1>5 DEF Goes
<1> QED BY <1>2, <1>5, <1>6, <1>7

LEMMA FindTurn ==
  ASSUME Typed, NEW c \in Commands, NEW v \in Services, At(c, "find", v), FindPid(c)
  PROVE  /\ Turn(c) /\ UNCHANGED <<services, ghosts, Quiet>>
         /\ Servicing(c)' => cmd'[c].pid = pidfile[v] /\ cmd'[c].sound = cmd[c].sound
         /\ pidfile[v] = None => Goes(c, Rests)
         /\ Alive(pidfile[v]) => Goes(c, {<<"terminate", v>>})
         /\ pidfile[v] # None /\ ~Alive(pidfile[v]) => Goes(c, {<<"remove", v>>})
<1>1. "find" \in ServiceOps
  BY DEF ServiceOps
<1> DEFINE n == IF pidfile[v] = None THEN 3 ELSE IF Alive(pidfile[v]) THEN 1 ELSE 2
<1>2. /\ Skip(c, [cmd[c] EXCEPT !.pid = pidfile[v]], n) /\ UNCHANGED <<services, ghosts, Quiet>>
  <2>1. PICK u \in Services :
          /\ At(c, "find", u)
          /\ Skip(c, [cmd[c] EXCEPT !.pid = pidfile[u]],
                  IF pidfile[u] = None THEN 3 ELSE IF Alive(pidfile[u]) THEN 1 ELSE 2)
          /\ UNCHANGED <<services, ghosts, Quiet>>
    BY DEF FindPid
  <2>2. u = v
    BY <2>1, OneAt
  <2> QED BY <2>1, <2>2
<1>3. /\ Len(cmd[c].steps) \in Nat /\ Len(cmd[c].steps) >= 3
      /\ cmd[c].steps[2] = <<"terminate", v>> /\ cmd[c].steps[3] = <<"remove", v>>
      /\ Len(cmd[c].steps) = 3 \/ cmd[c].steps[4] \in Rests
  BY <1>1, TypedCommand, AfterService, AtService
<1>4. n \in 1 .. 3 /\ (pidfile[v] = None => n = 3) /\ (Alive(pidfile[v]) => n = 1)
      /\ (pidfile[v] # None /\ ~Alive(pidfile[v]) => n = 2)
  BY DEF Alive
<1>5. pidfile[v] \in Pids \cup {None} /\ menu' = menu
  BY <1>2 DEF Typed, TypeOK, Quiet
<1> HIDE DEF n
<1>6. n \in 1 .. Len(cmd[c].steps)
  BY <1>3, <1>4
<1>7. /\ Turn(c)
      /\ Servicing(c)' => cmd'[c].pid = pidfile[v] /\ cmd'[c].sound = cmd[c].sound
      /\ \A o, u : At(c, o, u)' <=> n # Len(cmd[c].steps) /\ cmd[c].steps[n + 1] = <<o, u>>
  BY <1>1, <1>2, <1>5, <1>6, WithPidTurn
<1>8. n = 3 => Goes(c, Rests)
  BY <1>3, <1>7 DEF Goes
<1>9. n = 1 => Goes(c, {<<"terminate", v>>})
  BY <1>3, <1>7 DEF Goes
<1>10. n = 2 => Goes(c, {<<"remove", v>>})
  BY <1>3, <1>7 DEF Goes
<1> QED BY <1>2, <1>4, <1>7, <1>8, <1>9, <1>10

\* Terminate has told p to end, or could not.
Signals(p) ==
  /\ proc' = IF Alive(p) THEN [proc EXCEPT ![p].state = "stopping"] ELSE proc
  /\ hit' = (hit \/ (Alive(p) /\ proc[p].kind = "foreign"))
  /\ UNCHANGED <<faults, upset>>

Fails(p) ==
  /\ faults < menu.faults /\ faults' = faults + 1
  /\ upset' = upset \cup {"unstopped"}
  /\ UNCHANGED <<proc, hit>>

LEMMA TerminateTurn ==
  ASSUME Typed, NEW c \in Commands, NEW v \in Services, At(c, "terminate", v), Terminate(c)
  PROVE  LET p == cmd[c].pid
         IN  /\ Turn(c) /\ Keeps(c) /\ Goes(c, {<<"remove", v>>}) /\ At(c, "remove", v)'
             /\ UNCHANGED <<menu, taken, pidfile, settings, rows, runs, notices, started, stirs,
                            indexed>>
             /\ Signals(p) \/ Fails(p)
<1>1. "terminate" \in ServiceOps
  BY DEF ServiceOps
<1>2. /\ Signals(cmd[c].pid) \/ Fails(cmd[c].pid)
      /\ Go(c, cmd[c])
      /\ UNCHANGED <<menu, taken, pidfile, settings, rows, runs, notices, started, stirs, indexed>>
  BY DEF Terminate, Signals, Fails
<1>3. /\ Len(cmd[c].steps) \in Nat /\ Len(cmd[c].steps) >= 2
      /\ cmd[c].steps[2] = <<"remove", v>>
  BY <1>1, TypedCommand, AfterService, AtService
<1>4. Skip(c, cmd[c], 1) /\ 1 \in 1 .. Len(cmd[c].steps) /\ menu' = menu
  BY <1>2, <1>3 DEF Go
<1>5. /\ Turn(c) /\ Keeps(c)
      /\ \A o, u : At(c, o, u)' <=> 1 # Len(cmd[c].steps) /\ cmd[c].steps[1 + 1] = <<o, u>>
  BY <1>1, <1>4, GoTurn
<1>6. Goes(c, {<<"remove", v>>}) /\ At(c, "remove", v)'
  BY <1>3, <1>5 DEF Goes
<1> QED BY <1>2, <1>5, <1>6

-----------------------------------------------------------------------------
(***************************************************************************)
(* The commands that touch no service.                                     *)
(***************************************************************************)
Harmless(step) == ~(step[1] \in ServiceOps /\ step[2] \in Services)

\* Command c, which is not on the services, goes on or ends.
OtherTurn(c) ==
  /\ DOMAIN cmd' = Commands /\ \A d \in Commands \ {c} : cmd'[d] = cmd[d]
  /\ ~Servicing(c) /\ Planned(c)' /\ ~Servicing(c)'
  /\ cmd'[c] # Idle => cmd'[c].since = cmd[c].since /\ cmd[c] # Idle

LEMMA AtOther ==
  ASSUME NEW c \in Commands, Planned(c), cmd[c].steps # <<>>, Harmless(Head(cmd[c].steps))
  PROVE  /\ ~Servicing(c) /\ cmd[c] # Idle
         /\ cmd[c].steps \in Seq(ToSet(cmd[c].steps)) /\ Len(cmd[c].steps) \in Nat \ {0}
         /\ \A step \in ToSet(cmd[c].steps) : Harmless(step)
<1>1. ~Servicing(c)
  <2> SUFFICES ASSUME Servicing(c)
               PROVE  FALSE
    OBVIOUS
  <2>1. cmd[c].steps \in Seq(ServiceSteps)
    BY DEF Planned, ServiceSteps
  <2>2. Head(cmd[c].steps) \in ServiceSteps
    BY <2>1, HeadTailProperties
  <2> QED BY <2>2 DEF ServiceSteps, Harmless
<1>2. cmd[c] # Idle
  BY DEF Idle
<1>3. cmd[c].steps \in Seq(ToSet(cmd[c].steps))
  BY DEF Planned
<1>4. Len(cmd[c].steps) \in Nat \ {0}
  BY <1>3, EmptySeq
<1>5. \A i \in DOMAIN cmd[c].steps : Harmless(cmd[c].steps[i])
  BY <1>1 DEF Planned, Harmless
<1>6. \A step \in ToSet(cmd[c].steps) : Harmless(step)
  BY <1>5 DEF ToSet
<1> QED BY <1>1, <1>2, <1>3, <1>4, <1>6

LEMMA OtherGoes ==
  ASSUME DOMAIN cmd = Commands, NEW c \in Commands, Planned(c), cmd[c] # Idle, ~Servicing(c),
         menu' = menu, NEW S, \A step \in S : Harmless(step),
         NEW now, DOMAIN now = DOMAIN Idle, now.steps \in Seq(S), now.steps # <<>>,
         now.request = cmd[c].request, now.pid = cmd[c].pid, IsFiniteSet(now.scan),
         now.since = cmd[c].since, now.sound = cmd[c].sound, Go(c, now)
  PROVE  OtherTurn(c)
<1>1. /\ DOMAIN cmd' = Commands /\ \A d \in Commands \ {c} : cmd'[d] = cmd[d]
      /\ cmd'[c] = IF Len(now.steps) = 1 THEN Idle
                   ELSE [now EXCEPT !.steps = SubSeq(now.steps, 1 + 1, Len(now.steps))]
  BY DEF Go, Skip
<1>2. CASE Len(now.steps) = 1
  <2>1. cmd'[c] = Idle
    BY <1>1, <1>2
  <2>2. Planned(c)'
    BY <2>1, FS_EmptySet DEF Planned, Idle, Servicing
  <2> QED BY <1>1, <2>1, <2>2 DEF OtherTurn, Servicing
<1>3. CASE Len(now.steps) # 1
  <2> DEFINE rest == SubSeq(now.steps, 1 + 1, Len(now.steps))
  <2>1. Len(now.steps) \in Nat \ {0}
    BY EmptySeq
  <2>2. 1 \in 1 .. Len(now.steps)
    BY <2>1
  <2>3. rest \in Seq(S) /\ rest # <<>>
    BY <1>3, <2>2, RestOfSteps
  <2>4. rest \in Seq(ToSet(rest))
    BY <2>3, OfItsElements
  <2>5. \A i \in DOMAIN rest : rest[i] \in S
    BY <2>3, ElementOfSeq, LenProperties
  <2> HIDE DEF rest
  <2>6. /\ cmd'[c] = [now EXCEPT !.steps = rest] /\ DOMAIN cmd'[c] = DOMAIN Idle
        /\ cmd'[c].steps = rest /\ cmd'[c].request = cmd[c].request
        /\ cmd'[c].pid = cmd[c].pid /\ cmd'[c].since = cmd[c].since
        /\ cmd'[c].scan = now.scan /\ cmd'[c].sound = cmd[c].sound
    BY <1>1, <1>3 DEF Idle, rest
  <2>7. cmd'[c] # Idle
    BY <2>3, <2>6 DEF Idle
  <2>8. ~Servicing(c)'
    BY <2>6, <2>7 DEF Servicing
  <2>9. \A i \in DOMAIN rest : ~(rest[i][1] \in ServiceOps /\ rest[i][2] \in Services)
    BY <2>5 DEF Harmless
  <2>10. Planned(c)'
    BY <2>3, <2>4, <2>6, <2>7, <2>8, <2>9 DEF Planned
  <2> QED BY <1>1, <2>6, <2>8, <2>10 DEF OtherTurn
<1> QED BY <1>2, <1>3

LEMMA OtherFinishes ==
  ASSUME DOMAIN cmd = Commands, NEW c \in Commands, ~Servicing(c), Finish(c)
  PROVE  OtherTurn(c)
<1>1. /\ cmd'[c] = Idle /\ DOMAIN cmd' = Commands
      /\ \A d \in Commands \ {c} : cmd'[d] = cmd[d]
  BY DEF Finish
<1>2. Planned(c)'
  BY <1>1, FS_EmptySet DEF Planned, Idle, Servicing
<1> QED BY <1>1, <1>2 DEF OtherTurn, Servicing

LEMMA RowStepsType ==
  ASSUME NEW paths, IsFiniteSet(paths)
  PROVE  RowSteps(paths) \in Seq({"row"} \X paths)
<1>1. /\ Cardinality(paths) \in Nat
      /\ \E f \in [1 .. Cardinality(paths) -> paths] : IsInjective(f)
  BY FS_CardinalityType DEF ExistsBijection, Bijection, Injection
<1>2. SetToSeq(paths) \in [1 .. Cardinality(paths) -> paths]
  BY <1>1 DEF SetToSeq
<1> DEFINE order == SetToSeq(paths)
<1>3. \A i \in 1 .. Cardinality(paths) : <<"row", order[i]>> \in {"row"} \X paths
  BY <1>2
<1>4. [i \in 1 .. Cardinality(paths) |-> <<"row", order[i]>>] \in Seq({"row"} \X paths)
  BY <1>1, <1>3, IsASeq
<1>5. DOMAIN order = 1 .. Cardinality(paths)
  BY <1>2
<1> QED BY <1>4, <1>5 DEF RowSteps

LEMMA ScanFinite ==
  ASSUME NEW roots
  PROVE  IsFiniteSet(ScanFiles(roots))
<1> DEFINE found == UNION {Collected(roots, root) : root \in ToSet(NormalizedRoots(roots))}
<1>1. found \in SUBSET SourceFiles
  BY DEF Collected
<1>2. IsFiniteSet(found)
  BY <1>1, RootsAssumption, FS_Subset
<1> HIDE DEF found
<1> DEFINE paths == {DbPath(roots, f) : f \in found}
           path == [f \in found |-> DbPath(roots, f)]
<1>3. path \in Surjection(found, paths)
  BY DEF Surjection
<1>4. IsFiniteSet(paths)
  BY <1>2, <1>3, FS_Surjection
<1> QED BY <1>4 DEF ScanFiles, found

OtherStep(c) ==
  \/ ReadSettings(c) \/ TruncateSettings(c) \/ WriteSettings(c)
  \/ LoadSettings(c) \/ Scan(c) \/ Sweep(c) \/ ReadCached(c) \/ IndexRow(c) \/ Report(c)

LEMMA OtherStepTurns ==
  ASSUME Typed, NEW c \in Commands, OtherStep(c)
  PROVE  /\ OtherTurn(c) /\ UNCHANGED <<menu, services, base, first, bounds, started, hit, upset>>
         /\ cmd[c].request \in menu.requests
<1>1. UNCHANGED <<menu, services, base, first, bounds, started, hit, upset>>
  BY DEF OtherStep, ReadSettings, TruncateSettings, WriteSettings, LoadSettings, Scan, Sweep,
     ReadCached, IndexRow, Report, settings, ghosts
<1>2. cmd[c].steps # <<>> /\ Harmless(Head(cmd[c].steps))
  <2>1. CASE ReadSettings(c)
    BY <2>1 DEF ReadSettings, At, Harmless, ServiceOps, Services
  <2>2. CASE TruncateSettings(c)
    BY <2>2 DEF TruncateSettings, At, Harmless, ServiceOps, Services
  <2>3. CASE WriteSettings(c)
    BY <2>3 DEF WriteSettings, At, Harmless, ServiceOps, Services
  <2>4. CASE LoadSettings(c)
    BY <2>4 DEF LoadSettings, At, Harmless, ServiceOps, Services
  <2>5. CASE Scan(c)
    BY <2>5 DEF Scan, At, Harmless, ServiceOps, Services
  <2>6. CASE Sweep(c)
    BY <2>6 DEF Sweep, At, Harmless, ServiceOps, Services
  <2>7. CASE ReadCached(c)
    BY <2>7 DEF ReadCached, At, Harmless, ServiceOps, Services
  <2>8. CASE IndexRow(c)
    BY <2>8 DEF IndexRow, At, Harmless, ServiceOps, Services
  <2>9. CASE Report(c)
    BY <2>9 DEF Report, At, Harmless, ServiceOps, Services
  <2> QED BY <2>1, <2>2, <2>3, <2>4, <2>5, <2>6, <2>7, <2>8, <2>9 DEF OtherStep
<1>3. /\ DOMAIN cmd = Commands /\ Planned(c) /\ DOMAIN cmd[c] = DOMAIN Idle /\ menu' = menu
      /\ IsFiniteSet(cmd[c].scan)
  BY <1>1, TypedCommand DEF Planned
<1> DEFINE S == ToSet(cmd[c].steps)
<1>4. /\ ~Servicing(c) /\ cmd[c] # Idle /\ cmd[c].steps \in Seq(S) /\ cmd[c].steps # <<>>
      /\ Len(cmd[c].steps) \in Nat \ {0} /\ \A step \in S : Harmless(step)
  BY <1>2, <1>3, AtOther
<1> HIDE DEF S
<1>5. cmd[c].request \in menu.requests
  BY <1>3, <1>4 DEF Planned
<1> SUFFICES OtherTurn(c)
  BY <1>1, <1>5
<1>6. CASE Go(c, cmd[c])
  BY <1>3, <1>4, <1>6, OtherGoes
<1>7. CASE Finish(c)
  BY <1>3, <1>4, <1>7, OtherFinishes
<1>8. CASE ReadSettings(c)
  <2> DEFINE now == [cmd[c] EXCEPT !.copy = Change(local, cmd[c].request)]
  <2>1. Finish(c) \/ Go(c, now)
    BY <1>8 DEF ReadSettings
  <2>2. /\ DOMAIN now = DOMAIN Idle /\ now.steps = cmd[c].steps /\ now.request = cmd[c].request
        /\ now.pid = cmd[c].pid /\ now.scan = cmd[c].scan /\ now.since = cmd[c].since
        /\ now.sound = cmd[c].sound
    BY <1>3 DEF Idle
  <2> HIDE DEF now
  <2> QED BY <1>3, <1>4, <1>7, <2>1, <2>2, OtherGoes
<1>9. CASE TruncateSettings(c) \/ WriteSettings(c) \/ IndexRow(c) \/ Report(c)
  BY <1>6, <1>7, <1>9 DEF TruncateSettings, WriteSettings, IndexRow, Report
<1>10. CASE LoadSettings(c)
  <2> DEFINE now == [cmd[c] EXCEPT !.roots = Configured]
  <2>1. Go(c, now)
    BY <1>10 DEF LoadSettings
  <2>2. /\ DOMAIN now = DOMAIN Idle /\ now.steps = cmd[c].steps /\ now.request = cmd[c].request
        /\ now.pid = cmd[c].pid /\ now.scan = cmd[c].scan /\ now.since = cmd[c].since
        /\ now.sound = cmd[c].sound
    BY <1>3 DEF Idle
  <2> HIDE DEF now
  <2> QED BY <1>3, <1>4, <2>1, <2>2, OtherGoes
<1>11. CASE Scan(c)
  <2> DEFINE now == [cmd[c] EXCEPT !.scan = ScanFiles(Configured)]
  <2>1. Go(c, now)
    BY <1>11 DEF Scan
  <2>2. /\ DOMAIN now = DOMAIN Idle /\ now.steps = cmd[c].steps /\ now.request = cmd[c].request
        /\ now.pid = cmd[c].pid /\ now.scan = ScanFiles(Configured) /\ now.since = cmd[c].since
        /\ now.sound = cmd[c].sound
    BY <1>3 DEF Idle
  <2> HIDE DEF now
  <2>3. IsFiniteSet(now.scan)
    BY <2>2, ScanFinite
  <2> QED BY <1>3, <1>4, <2>1, <2>2, <2>3, OtherGoes
<1>12. CASE Sweep(c)
  <2> DEFINE report == << <<"report", "rows">> >>
             paths == cmd[c].scan
             kept == [d \in DOMAIN rows \cap cmd[c].scan |-> rows[d]]
             steps == cmd[c].steps \o RowSteps(paths) \o report
             now == [cmd[c] EXCEPT !.cache = kept, !.steps = steps]
             T == S \cup ({"row"} \X paths) \cup {<<"report", "rows">>}
  <2>1. Go(c, now)
    BY <1>12 DEF Sweep
  <2>2. /\ DOMAIN now = DOMAIN Idle /\ now.steps = steps /\ now.request = cmd[c].request
        /\ now.pid = cmd[c].pid /\ now.scan = cmd[c].scan /\ now.since = cmd[c].since
        /\ now.sound = cmd[c].sound
    BY <1>3 DEF Idle
  <2>3. \A step \in T : Harmless(step)
    BY <1>4 DEF Harmless, ServiceOps
  <2>4. cmd[c].steps \in Seq(T) /\ RowSteps(paths) \in Seq(T) /\ report \in Seq(T)
    <3>1. RowSteps(paths) \in Seq({"row"} \X paths)
      BY <1>3, RowStepsType
    <3>2. report \in Seq({<<"report", "rows">>})
      BY OfOnes
    <3> QED BY <1>4, <3>1, <3>2, SeqMonotonic
  <2> HIDE DEF T, report, now
  <2>5. cmd[c].steps \o RowSteps(paths) \in Seq(T)
    BY <2>4, ConcatProperties
  <2>6. steps \in Seq(T) /\ Len(report) = 1 /\ Len(steps) = Len(cmd[c].steps \o RowSteps(paths)) + 1
    BY <2>4, <2>5, ConcatProperties, OfOnes DEF report
  <2>7. steps # <<>>
    <3>1. Len(cmd[c].steps \o RowSteps(paths)) \in Nat
      BY <2>5, LenProperties
    <3> QED BY <2>6, <3>1, EmptySeq
  <2> HIDE DEF steps
  <2> QED BY <1>3, <1>4, <2>1, <2>2, <2>3, <2>6, <2>7, OtherGoes
<1>13. CASE ReadCached(c)
  <2> DEFINE row == <<"row", cmd[c].request.path>>
             steps == Append(cmd[c].steps, row)
             now == [cmd[c] EXCEPT !.cache = rows, !.steps = steps]
             T == S \cup {row}
  <2>1. Go(c, now)
    BY <1>13 DEF ReadCached
  <2>2. /\ DOMAIN now = DOMAIN Idle /\ now.steps = steps /\ now.request = cmd[c].request
        /\ now.pid = cmd[c].pid /\ now.scan = cmd[c].scan /\ now.since = cmd[c].since
        /\ now.sound = cmd[c].sound
    BY <1>3 DEF Idle
  <2>3. \A step \in T : Harmless(step)
    BY <1>4 DEF Harmless, ServiceOps
  <2>4. cmd[c].steps \in Seq(T) /\ row \in T
    BY <1>4, SeqMonotonic
  <2> HIDE DEF T, row, now
  <2>5. steps \in Seq(T) /\ steps # <<>>
    BY <2>4, AppendProperties
  <2> HIDE DEF steps
  <2> QED BY <1>3, <1>4, <2>1, <2>2, <2>3, <2>5, OtherGoes
<1> QED BY <1>8, <1>9, <1>10, <1>11, <1>12, <1>13 DEF OtherStep

-----------------------------------------------------------------------------
(***************************************************************************)
(* A command begins, or is cut short.                                      *)
(***************************************************************************)
LEMMA AboutOf ==
  ASSUME NEW request,
         request.do \in {"start", "stop", "restart", "add", "remove", "index", "file"}
  PROVE  /\ About(request) \in {"services", "settings", "rows"}
         /\ About(request) = "services" <=> request.do \in {"start", "stop", "restart"}
BY DEF About

LEMMA Requested ==
  ASSUME Typed, NEW request \in menu.requests
  PROVE  request.do \in {"start", "stop", "restart", "add", "remove", "index", "file"}
BY ControlAssumption DEF Typed, TypeOK

LEMMA RunTurn ==
  ASSUME Typed, NEW c \in Commands, NEW request \in menu.requests, Run(c, request)
  PROVE  /\ DOMAIN cmd' = Commands /\ \A d \in Commands \ {c} : cmd'[d] = cmd[d]
         /\ Planned(c)' /\ ~Servicing(c) /\ cmd'[c].since = stirs
         /\ Servicing(c)' <=> About(request) = "services"
         /\ Servicing(c)' => Goes(c, {<<"find", "engine">>, <<"check", "engine">>})
<1>1. /\ cmd' = [cmd EXCEPT ![c] = [Idle EXCEPT !.request = request, !.steps = Program(request),
                                                !.since = stirs]]
      /\ cmd[c] = Idle /\ menu' = menu
  BY DEF Run
<1> DEFINE steps == Program(request)
<1>2. /\ DOMAIN cmd' = Commands /\ \A d \in Commands \ {c} : cmd'[d] = cmd[d]
      /\ cmd'[c].request = request /\ cmd'[c].steps = steps /\ cmd'[c].since = stirs
      /\ cmd'[c].pid = None /\ cmd'[c].scan = {} /\ cmd'[c].sound = TRUE
      /\ DOMAIN cmd'[c] = DOMAIN Idle
  BY <1>1, TypedCommand DEF Idle
<1>3. request.do \in {"start", "stop", "restart", "add", "remove", "index", "file"}
  BY Requested
<1>4. /\ request.do \in {"start", "stop", "restart"} =>
           /\ steps \in Seq(ServiceSteps) /\ Linked(steps) /\ Ended(steps)
           /\ steps[1] \in {<<"find", "engine">>, <<"check", "engine">>}
      /\ request.do \notin {"start", "stop", "restart"} =>
           \A i \in DOMAIN steps : steps[i][2] \notin Services
      /\ steps # <<>> /\ steps \in Seq(ToSet(steps))
  <2>1. CASE request.do \in {"start", "stop", "restart"}
    <3>1. /\ steps \in Seq(ServiceSteps) /\ steps # <<>> /\ Linked(steps) /\ Ended(steps)
          /\ steps[1] \in {<<"find", "engine">>, <<"check", "engine">>}
      BY <2>1, ProgramShaped
    <3>2. steps \in Seq(ToSet(steps))
      BY <3>1, OfItsElements
    <3> QED BY <2>1, <3>1, <3>2
  <2>2. CASE request.do \notin {"start", "stop", "restart"}
    BY <1>3, <2>2, OtherProgramShaped
  <2> QED BY <2>1, <2>2
<1> HIDE DEF steps
<1>5. cmd'[c] # Idle
  BY <1>2, <1>4 DEF Idle
<1>6. Servicing(c)' <=> About(request) = "services"
  BY <1>2, <1>5 DEF Servicing
<1>7. Servicing(c)' <=> request.do \in {"start", "stop", "restart"}
  BY <1>3, <1>6, AboutOf
<1>8. Planned(c)'
  BY <1>1, <1>2, <1>4, <1>5, <1>7, FS_EmptySet DEF Planned, ServiceSteps
<1>9. Servicing(c)' => Goes(c, {<<"find", "engine">>, <<"check", "engine">>})
  BY <1>2, <1>4, <1>7 DEF Goes, At
<1> QED BY <1>1, <1>2, <1>6, <1>8, <1>9 DEF Servicing

LEMMA CutTurn ==
  ASSUME Typed, NEW c \in Commands, CutShort(c)
  PROVE  /\ cmd'[c] = Idle /\ DOMAIN cmd' = Commands
         /\ \A d \in Commands \ {c} : cmd'[d] = cmd[d]
         /\ Planned(c)' /\ \A op, v : ~At(c, op, v)'
<1>1. /\ cmd'[c] = Idle /\ DOMAIN cmd' = Commands
      /\ \A d \in Commands \ {c} : cmd'[d] = cmd[d]
  BY TypedCommand DEF CutShort, Finish
<1>2. Planned(c)'
  BY <1>1, FS_EmptySet DEF Planned, Idle, Servicing
<1> QED BY <1>1, <1>2 DEF At, Idle

\* A service has died: the commands do not know, but what they say may no longer hold.
LEMMA DiesTurn ==
  ASSUME Typed, NEW p, NEW reason, Dies(p, reason), NEW c \in Commands
  PROVE  /\ DOMAIN cmd' = Commands /\ Planned(c)' /\ (Servicing(c)' <=> Servicing(c))
         /\ cmd'[c].pid = cmd[c].pid /\ cmd'[c].since = cmd[c].since
         /\ cmd'[c] # Idle => cmd[c] # Idle /\ cmd'[c].sound = FALSE
         /\ \A op, v : At(c, op, v)' <=> At(c, op, v)
<1>1. /\ menu' = menu /\ DOMAIN cmd' = Commands
      /\ cmd'[c] = IF cmd[c] = Idle THEN Idle ELSE [cmd[c] EXCEPT !.sound = FALSE]
  BY DEF Dies
<1>2. /\ Planned(c) /\ DOMAIN cmd[c] = DOMAIN Idle
  BY TypedCommand
<1>3. CASE cmd[c] = Idle
  <2>1. cmd'[c] = cmd[c]
    BY <1>1, <1>3
  <2>2. Planned(c)' /\ (Servicing(c)' <=> Servicing(c))
    BY <1>1, <1>2, <2>1 DEF Planned, Servicing
  <2> QED BY <1>1, <1>3, <2>1, <2>2 DEF At
<1>4. CASE cmd[c] # Idle
  <2>1. /\ cmd'[c] = [cmd[c] EXCEPT !.sound = FALSE] /\ DOMAIN cmd'[c] = DOMAIN Idle
        /\ cmd'[c].steps = cmd[c].steps /\ cmd'[c].request = cmd[c].request
        /\ cmd'[c].pid = cmd[c].pid /\ cmd'[c].since = cmd[c].since
        /\ cmd'[c].scan = cmd[c].scan /\ cmd'[c].sound = FALSE
    BY <1>1, <1>2, <1>4 DEF Idle
  <2>2. cmd[c].steps # <<>>
    BY <1>2, <1>4 DEF Planned
  <2>3. cmd'[c] # Idle
    BY <2>1, <2>2 DEF Idle
  <2>4. Servicing(c)' <=> Servicing(c)
    BY <1>4, <2>1, <2>3 DEF Servicing
  <2>5. Planned(c)'
    BY <1>1, <1>2, <1>4, <2>1, <2>2, <2>3, <2>4 DEF Planned
  <2>6. \A op, v : At(c, op, v)' <=> At(c, op, v)
    BY <2>1 DEF At
  <2> QED BY <1>1, <1>4, <2>1, <2>4, <2>5, <2>6
<1> QED BY <1>3, <1>4

-----------------------------------------------------------------------------
(***************************************************************************)
(* The types.                                                              *)
(***************************************************************************)
CommandsOK ==
  /\ DOMAIN cmd = Commands
  /\ \A c \in Commands : Planned(c) /\ (cmd[c] # Idle => cmd[c].since \in 0 .. stirs)

\* What a process may be.
Proper(x) ==
  /\ DOMAIN x = DOMAIN NoProcess
  /\ x # NoProcess =>
       /\ x.kind \in Services \cup {"foreign"} /\ x.state \in {"new", "up", "stopping"}
       /\ x.state = "new" => x.kind = "engine"
       /\ x.pending \cup x.batch # {} => x.kind = "watcher"

OneEngine == \A p, q \in Pids : Is(p, "engine", "up") /\ Is(q, "engine", "up") => p = q

ProcsOK == DOMAIN proc = Pids /\ (\A p \in Pids : Proper(proc[p])) /\ OneEngine

Counted ==
  /\ menu \in Menus /\ taken \in menu.taken
  /\ runs \in 0 .. menu.runs /\ notices \in 0 .. menu.notices /\ faults \in 0 .. menu.faults

FilesOK == pidfile \in [Services -> Pids \cup {None}] /\ Range(rows) \subseteq SourceFiles

GhostsOK ==
  /\ performed \in Seq(menu.requests)
  /\ started \in BOOLEAN /\ hit \in BOOLEAN /\ upset \subseteq Reasons
  /\ stirs \in Nat /\ indexed \in 0 .. stirs \cup {None}

LEMMA AliveIs ==
  ASSUME NEW p \in Pids
  PROVE  Alive(p) <=> proc[p] # NoProcess
BY ControlAssumption DEF Alive

LEMMA AliveIsThen ==
  ASSUME NEW p \in Pids
  PROVE  Alive(p)' <=> proc'[p] # NoProcess
BY ControlAssumption DEF Alive

LEMMA TypedParts ==
  ASSUME Typed
  PROVE  CommandsOK /\ ProcsOK /\ Counted /\ FilesOK /\ GhostsOK
<1> USE DEF Typed, TypeOK, Shape
<1>1. CommandsOK
  BY DEF CommandsOK
<1>2. ProcsOK
  BY AliveIs DEF ProcsOK, Proper, OneEngine
<1>3. Counted /\ FilesOK /\ GhostsOK
  BY DEF Counted, FilesOK, GhostsOK
<1> QED BY <1>1, <1>2, <1>3

LEMMA TypedFromParts ==
  ASSUME CommandsOK', ProcsOK', Counted', FilesOK', GhostsOK'
  PROVE  Typed'
<1>1. Shape'
  BY DEF Shape, CommandsOK, ProcsOK, Proper
<1>2. \A c \in Commands : (cmd'[c] = Idle) = (cmd'[c].steps = <<>>)
  BY DEF CommandsOK, Planned, Idle
<1>3. \A c \in Commands :
        cmd'[c] # Idle => cmd'[c].request \in menu'.requests /\ cmd'[c].since \in 0 .. stirs'
  BY DEF CommandsOK, Planned
<1>4. \A p \in {p \in Pids : Alive(p)'} :
       /\ proc'[p].kind \in Services \cup {"foreign"}
       /\ proc'[p].state \in {"new", "up", "stopping"}
       /\ proc'[p].state = "new" => proc'[p].kind = "engine"
       /\ proc'[p].pending \cup proc'[p].batch # {} => proc'[p].kind = "watcher"
  BY AliveIsThen DEF ProcsOK, Proper
<1>5. TypeOK'
  BY <1>2, <1>3, <1>4 DEF TypeOK, CommandsOK, ProcsOK, OneEngine, Counted, FilesOK, GhostsOK
<1> QED BY <1>1, <1>5 DEF Typed

\* One process begins, changes or ends.
LEMMA ProcessChanges ==
  ASSUME Typed, NEW p \in Pids, NEW x, Proper(x), proc' = [proc EXCEPT ![p] = x],
         x # NoProcess /\ x.kind = "engine" /\ x.state = "up" =>
           \/ Is(p, "engine", "up")
           \/ \A q \in Pids : ~Is(q, "engine", "up")
  PROVE  ProcsOK'
<1>1. ProcsOK
  BY TypedParts
<1>2. /\ DOMAIN proc' = Pids /\ proc'[p] = x
      /\ \A q \in Pids \ {p} : proc'[q] = proc[q]
  BY <1>1 DEF ProcsOK
<1>3. \A q \in Pids : Proper(proc'[q])
  BY <1>1, <1>2 DEF ProcsOK
<1>4. \A q \in Pids : proc[q] # NoProcess <=> Alive(q)
  BY AliveIs
<1>5. \A q \in Pids : proc'[q] # NoProcess <=> Alive(q)'
  BY AliveIsThen
<1>6. \A q \in Pids \ {p} : Is(q, "engine", "up")' <=> Is(q, "engine", "up")
  BY <1>2, <1>4, <1>5 DEF Is
<1>7. Is(p, "engine", "up")' <=> x # NoProcess /\ x.kind = "engine" /\ x.state = "up"
  BY <1>2, <1>5 DEF Is
<1>8. OneEngine'
  BY <1>1, <1>6, <1>7 DEF OneEngine, ProcsOK
<1> QED BY <1>2, <1>3, <1>8 DEF ProcsOK

LEMMA ProcessesStay ==
  ASSUME Typed, proc' = proc
  PROVE  ProcsOK'
BY TypedParts DEF ProcsOK, Proper, OneEngine, Is, Alive

LEMMA TurnTyped ==
  ASSUME Typed, NEW c \in Commands, Turn(c), menu' = menu, stirs' = stirs
  PROVE  CommandsOK'
<1>1. CommandsOK
  BY TypedParts
<1>2. \A d \in Commands \ {c} : Planned(d)'
  BY <1>1 DEF CommandsOK, Turn, Planned, Servicing
<1>3. cmd'[c] # Idle => cmd'[c].since \in 0 .. stirs'
  BY <1>1 DEF CommandsOK, Turn, Servicing
<1> QED BY <1>1, <1>2, <1>3 DEF CommandsOK, Turn

ServiceStep(c) ==
  \/ CheckService(c) \/ CheckStale(c) \/ RemovePid(c) \/ Spawn(c) \/ TruncatePid(c)
  \/ WritePid(c) \/ FindPid(c) \/ Terminate(c)

\* Which step of which service.
LEMMA ServiceStepAt ==
  ASSUME NEW c \in Commands, ServiceStep(c)
  PROVE  \E v \in Services :
           \/ At(c, "check", v) /\ CheckService(c)
           \/ At(c, "stale", v) /\ CheckStale(c)
           \/ At(c, "remove", v) /\ RemovePid(c)
           \/ At(c, "spawn", v) /\ Spawn(c)
           \/ At(c, "truncate", v) /\ TruncatePid(c)
           \/ At(c, "write", v) /\ WritePid(c)
           \/ At(c, "find", v) /\ FindPid(c)
           \/ At(c, "terminate", v) /\ Terminate(c)
<1>1. CASE CheckService(c)
  BY <1>1 DEF CheckService, Services
<1>2. CASE CheckStale(c)
  BY <1>2 DEF CheckStale
<1>3. CASE RemovePid(c)
  BY <1>3 DEF RemovePid
<1>4. CASE Spawn(c)
  BY <1>4 DEF Spawn
<1>5. CASE TruncatePid(c)
  BY <1>5 DEF TruncatePid
<1>6. CASE WritePid(c)
  BY <1>6 DEF WritePid
<1>7. CASE FindPid(c)
  BY <1>7 DEF FindPid
<1>8. CASE Terminate(c)
  BY <1>8 DEF Terminate
<1> QED BY <1>1, <1>2, <1>3, <1>4, <1>5, <1>6, <1>7, <1>8 DEF ServiceStep

LEMMA QuietCounted ==
  ASSUME Typed, UNCHANGED Quiet
  PROVE  Counted' /\ Range(rows') = Range(rows) /\ menu' = menu /\ stirs' = stirs
BY TypedParts DEF Counted, Quiet, bounds

LEMMA QuietGhosts ==
  ASSUME Typed, UNCHANGED Quiet, started' \in BOOLEAN, hit' \in BOOLEAN, upset' \subseteq Reasons
  PROVE  GhostsOK'
BY TypedParts DEF GhostsOK, Quiet, settings

LEMMA FilesOKChange ==
  ASSUME Typed, NEW v \in Services, NEW p \in Pids \cup {None}, rows' = rows,
         pidfile' = [pidfile EXCEPT ![v] = p]
  PROVE  FilesOK'
BY TypedParts DEF FilesOK

LEMMA ServiceStepTyped ==
  ASSUME Typed, NEW c \in Commands, ServiceStep(c)
  PROVE  Typed' /\ Turn(c)
<1>1. /\ started \in BOOLEAN /\ hit \in BOOLEAN /\ upset \subseteq Reasons /\ FilesOK /\ ProcsOK
      /\ cmd[c].pid \in Pids \cup {None} /\ cmd[c].sound \in BOOLEAN
  BY TypedParts, TypedCommand DEF GhostsOK, CommandsOK, Planned
<1>2. PICK v \in Services :
           \/ At(c, "check", v) /\ CheckService(c)
           \/ At(c, "stale", v) /\ CheckStale(c)
           \/ At(c, "remove", v) /\ RemovePid(c)
           \/ At(c, "spawn", v) /\ Spawn(c)
           \/ At(c, "truncate", v) /\ TruncatePid(c)
           \/ At(c, "write", v) /\ WritePid(c)
           \/ At(c, "find", v) /\ FindPid(c)
           \/ At(c, "terminate", v) /\ Terminate(c)
  BY ServiceStepAt
<1>3. UNCHANGED Quiet /\ Turn(c) => Counted' /\ CommandsOK' /\ rows' = rows
  BY QuietCounted, TurnTyped DEF Quiet
<1>4. CASE \/ At(c, "stale", v) /\ CheckStale(c)
           \/ At(c, "find", v) /\ FindPid(c)
  <2>1. Turn(c) /\ UNCHANGED <<services, ghosts, Quiet>>
    <3>1. CASE At(c, "stale", v) /\ CheckStale(c)
      BY <3>1, StaleTurn
    <3>2. CASE At(c, "find", v) /\ FindPid(c)
      BY <3>2, FindTurn
    <3> QED BY <1>4, <3>1, <3>2
  <2>2. Counted' /\ CommandsOK'
    BY <1>3, <2>1
  <2>3. FilesOK' /\ ProcsOK'
    BY <1>1, <1>3, <2>1, ProcessesStay DEF FilesOK, services
  <2>4. GhostsOK'
    BY <1>1, <2>1, QuietGhosts DEF ghosts
  <2> QED BY <2>1, <2>2, <2>3, <2>4, TypedFromParts
<1>5. CASE At(c, "check", v) /\ CheckService(c)
  <2>1. /\ Turn(c) /\ UNCHANGED <<pidfile, proc, hit, upset, Quiet>>
        /\ started' \in BOOLEAN
    <3>1. CASE v = "engine"
      BY <1>1, <1>5, <3>1, CheckEngineTurn DEF services, ghosts
    <3>2. CASE v = "watcher"
      <4>1. At(c, "check", "watcher") /\ CheckService(c)
        BY <1>5, <3>2
      <4>2. started' = started \/ started' = cmd[c].sound
        BY <4>1, CheckWatcherTurn
      <4> QED BY <1>1, <4>1, <4>2, CheckWatcherTurn
    <3> QED BY <3>1, <3>2 DEF Services
  <2>2. Counted' /\ CommandsOK'
    BY <1>3, <2>1
  <2>3. FilesOK' /\ ProcsOK'
    BY <1>1, <1>3, <2>1, ProcessesStay DEF FilesOK
  <2>4. GhostsOK'
    BY <1>1, <2>1, QuietGhosts
  <2> QED BY <2>1, <2>2, <2>3, <2>4, TypedFromParts
<1>6. CASE \/ At(c, "remove", v) /\ RemovePid(c)
           \/ At(c, "truncate", v) /\ TruncatePid(c)
           \/ At(c, "write", v) /\ WritePid(c)
  <2>1. /\ Turn(c) /\ UNCHANGED <<proc, hit, upset, Quiet>> /\ started' \in BOOLEAN
        /\ \E p \in Pids \cup {None} : pidfile' = [pidfile EXCEPT ![v] = p]
    <3>1. CASE At(c, "remove", v) /\ RemovePid(c)
      BY <1>1, <3>1, RemoveTurn
    <3>2. CASE At(c, "truncate", v) /\ TruncatePid(c)
      BY <1>1, <3>2, TruncateTurn
    <3>3. CASE At(c, "write", v) /\ WritePid(c)
      BY <1>1, <3>3, WriteTurn
    <3> QED BY <1>6, <3>1, <3>2, <3>3
  <2>2. Counted' /\ CommandsOK'
    BY <1>3, <2>1
  <2>3. FilesOK' /\ ProcsOK'
    BY <1>1, <1>3, <2>1, ProcessesStay, FilesOKChange
  <2>4. GhostsOK'
    BY <1>1, <2>1, QuietGhosts
  <2> QED BY <2>1, <2>2, <2>3, <2>4, TypedFromParts
<1>7. CASE At(c, "spawn", v) /\ Spawn(c)
  <2>1. /\ Turn(c) /\ UNCHANGED <<pidfile, started, hit, Quiet>>
        /\ \E p \in Pids :
             /\ proc[p] = NoProcess
             /\ proc' = [proc EXCEPT ![p] = [Process(v, Configured)
                            EXCEPT !.state = IF v = "engine" THEN "new" ELSE "up"]]
             /\ upset' = upset \cup {"beside" : q \in {q \in {pidfile[v]} : Alive(q)}}
                               \cup {"reused" : u \in {u \in Services : pidfile[u] = p}}
    BY <1>7, SpawnTurn, ZenonT(60)
  <2>2. upset' \subseteq Reasons
    BY <1>1, <2>1 DEF Reasons
  <2> DEFINE x == [Process(v, Configured) EXCEPT !.state = IF v = "engine" THEN "new" ELSE "up"]
  <2>3. PICK p \in Pids : proc' = [proc EXCEPT ![p] = x]
    BY <2>1
  <2>4. Proper(x) /\ ~(x.kind = "engine" /\ x.state = "up")
    BY DEF Proper, Process, NoProcess, Services
  <2> HIDE DEF x
  <2>5. ProcsOK'
    BY <2>3, <2>4, ProcessChanges
  <2>6. Counted' /\ CommandsOK' /\ FilesOK'
    BY <1>1, <1>3, <2>1 DEF FilesOK
  <2>7. GhostsOK'
    BY <1>1, <2>1, <2>2, QuietGhosts
  <2> QED BY <2>1, <2>5, <2>6, <2>7, TypedFromParts
<1>8. CASE At(c, "terminate", v) /\ Terminate(c)
  <2>1. PICK p : p = cmd[c].pid
    OBVIOUS
  <2>2. /\ Turn(c)
        /\ Signals(p) \/ Fails(p)
        /\ UNCHANGED <<menu, taken, pidfile, settings, rows, runs, notices, started, stirs, indexed>>
    BY <1>8, <2>1, TerminateTurn
  <2>3. hit' \in BOOLEAN /\ upset' \subseteq Reasons
    BY <1>1, <2>2 DEF Signals, Fails, Reasons
  <2>4. ProcsOK'
    <3>1. CASE proc' = proc
      BY <3>1, ProcessesStay
    <3>2. CASE Alive(p) /\ proc' = [proc EXCEPT ![p].state = "stopping"]
      <4> DEFINE x == [proc[p] EXCEPT !.state = "stopping"]
      <4>1. p \in Pids /\ proc[p] # NoProcess
        BY <1>1, <2>1, <3>2 DEF Alive
      <4>2. Proper(proc[p])
        BY <1>1, <4>1 DEF ProcsOK
      <4>3. Proper(x) /\ x.state # "up"
        BY <4>1, <4>2 DEF Proper, NoProcess, Process
      <4>4. proc' = [proc EXCEPT ![p] = x]
        BY <3>2
      <4> HIDE DEF x
      <4> QED BY <4>1, <4>3, <4>4, ProcessChanges
    <3> QED BY <2>2, <3>1, <3>2 DEF Signals, Fails
  <2>5. Counted'
    <3>1. Counted /\ menu' = menu /\ UNCHANGED <<taken, runs, notices>>
      BY <2>2, TypedParts
    <3>2. faults' = faults \/ (faults < menu.faults /\ faults' = faults + 1)
      BY <2>2 DEF Signals, Fails
    <3>3. menu.faults \in Nat
      BY <3>1, ControlAssumption DEF Counted
    <3> QED BY <3>1, <3>2, <3>3 DEF Counted
  <2>6. CommandsOK' /\ FilesOK'
    BY <1>1, <2>2, TurnTyped DEF FilesOK
  <2>7. GhostsOK'
    BY <1>1, <2>2, <2>3, TypedParts DEF GhostsOK, settings
  <2>8. Turn(c)
    BY <2>2
  <2> QED BY <2>4, <2>5, <2>6, <2>7, <2>8, TypedFromParts
<1> QED BY <1>2, <1>4, <1>5, <1>6, <1>7, <1>8

LEMMA InspectedRange ==
  ASSUME Typed, NEW cache, NEW d, NEW source, NEW unread
  PROVE  Range(Inspected(cache, d, source, unread)) \subseteq SourceFiles
<1>1. \A e \in DOMAIN rows : rows[e] \in SourceFiles
  BY TypedParts DEF FilesOK, Range
<1> DEFINE passed == source \in unread \/ (d \in DOMAIN cache /\ cache[d] = source)
<1>2. CASE source \notin SourceFiles
  BY <1>1, <1>2 DEF Inspected, Range
<1>3. CASE source \in SourceFiles /\ passed
  BY <1>1, <1>3 DEF Inspected, Range
<1>4. CASE source \in SourceFiles /\ ~ passed
  <2>1. Inspected(cache, d, source, unread) =
          [e \in DOMAIN rows \cup {d} |-> IF e = d THEN source ELSE rows[e]]
    BY <1>4 DEF Inspected
  <2>2. \A e \in DOMAIN rows \cup {d} : (IF e = d THEN source ELSE rows[e]) \in SourceFiles
    BY <1>1, <1>4
  <2> QED BY <2>1, <2>2 DEF Range
<1> QED BY <1>2, <1>3, <1>4

\* A command gets on while the work of others is undone or not.
LEMMA OtherTurnTyped ==
  ASSUME Typed, NEW c \in Commands, OtherTurn(c), menu' = menu, stirs' \in {stirs, stirs + 1}
  PROVE  CommandsOK' /\ stirs' \in Nat /\ indexed \in 0 .. stirs' \cup {None}
<1>1. CommandsOK /\ stirs \in Nat /\ indexed \in 0 .. stirs \cup {None}
  BY TypedParts DEF GhostsOK
<1>2. stirs' \in Nat /\ \A n \in 0 .. stirs : n \in 0 .. stirs'
  BY <1>1
<1>3. \A d \in Commands \ {c} : Planned(d)'
  BY <1>1 DEF CommandsOK, OtherTurn, Planned, Servicing
<1>4. \A d \in Commands : cmd'[d] # Idle => cmd'[d].since \in 0 .. stirs'
  BY <1>1, <1>2 DEF CommandsOK, OtherTurn
<1>5. CommandsOK'
  BY <1>3, <1>4 DEF CommandsOK, OtherTurn
<1> QED BY <1>1, <1>2, <1>5

LEMMA OtherStepTyped ==
  ASSUME Typed, NEW c \in Commands, OtherStep(c)
  PROVE  Typed'
<1>1. /\ OtherTurn(c) /\ UNCHANGED <<menu, services, base, first, bounds, started, hit, upset>>
      /\ cmd[c].request \in menu.requests
  BY OtherStepTurns
<1>2. CommandsOK /\ ProcsOK /\ Counted /\ FilesOK /\ GhostsOK
  BY TypedParts
<1>3. stirs' \in {stirs, stirs + 1}
  BY DEF OtherStep, ReadSettings, TruncateSettings, WriteSettings, LoadSettings, Scan, Sweep,
     ReadCached, IndexRow, Report, ghosts, Stir
<1>4. CommandsOK' /\ stirs' \in Nat /\ indexed \in 0 .. stirs' \cup {None}
  BY <1>1, <1>3, OtherTurnTyped
<1>5. ProcsOK' /\ Counted'
  BY <1>1, <1>2, ProcessesStay DEF services, bounds, Counted
<1>6. Range(rows') \subseteq SourceFiles
  <2>1. CASE Sweep(c)
    BY <1>2, <2>1 DEF Sweep, FilesOK, Range
  <2>2. CASE IndexRow(c)
    <3>1. \E cache, d, source, unread : rows' = Inspected(cache, d, source, unread)
      BY <2>2 DEF IndexRow
    <3> QED BY <3>1, InspectedRange
  <2>3. CASE ~Sweep(c) /\ ~IndexRow(c)
    <3>1. rows' = rows
      BY <2>3 DEF OtherStep, ReadSettings, TruncateSettings, WriteSettings, LoadSettings, Scan,
         ReadCached, Report, settings
    <3> QED BY <1>2, <3>1 DEF FilesOK
  <2> QED BY <2>1, <2>2, <2>3
<1>7. performed' \in Seq(menu.requests)
  <2>1. performed' = performed \/ performed' = Append(performed, cmd[c].request)
    BY DEF OtherStep, ReadSettings, TruncateSettings, WriteSettings, LoadSettings, Scan, Sweep,
       ReadCached, IndexRow, Report, settings
  <2> QED BY <1>1, <1>2, <2>1, AppendProperties DEF GhostsOK
<1>8. indexed' \in 0 .. stirs' \cup {None}
  <2>1. indexed' = indexed \/ (indexed' = stirs /\ stirs' = stirs)
    BY DEF OtherStep, ReadSettings, TruncateSettings, WriteSettings, LoadSettings, Scan, Sweep,
       ReadCached, IndexRow, Report, ghosts
  <2> QED BY <1>4, <2>1
<1>9. FilesOK' /\ GhostsOK'
  BY <1>1, <1>2, <1>4, <1>6, <1>7, <1>8 DEF FilesOK, GhostsOK, services
<1> QED BY <1>4, <1>5, <1>9, TypedFromParts

LEMMA RunTyped ==
  ASSUME Typed, NEW c \in Commands, NEW request \in menu.requests, Run(c, request)
  PROVE  Typed'
<1>1. CommandsOK /\ ProcsOK /\ Counted /\ FilesOK /\ GhostsOK
  BY TypedParts
<1>2. /\ DOMAIN cmd' = Commands /\ \A d \in Commands \ {c} : cmd'[d] = cmd[d]
      /\ Planned(c)' /\ cmd'[c].since = stirs
  BY RunTurn
<1>3. /\ runs < menu.runs /\ runs' = runs + 1
      /\ UNCHANGED <<menu, services, settings, rows, notices, faults, hit, stirs, indexed>>
      /\ started' = (started /\ About(request) # "services")
      /\ \A reason \in upset' : reason \in upset \/ reason = About(request)
  BY DEF Run
<1>4. CommandsOK'
  <2>1. \A d \in Commands \ {c} : Planned(d)'
    BY <1>1, <1>2, <1>3 DEF CommandsOK, Planned, Servicing
  <2>2. stirs \in Nat
    BY <1>1 DEF GhostsOK
  <2> QED BY <1>1, <1>2, <1>3, <2>1, <2>2 DEF CommandsOK
<1>5. ProcsOK'
  BY <1>3, ProcessesStay DEF services
<1>6. Counted'
  <2>1. menu.runs \in Nat /\ runs \in 0 .. menu.runs
    BY <1>1, ControlAssumption DEF Counted
  <2>2. runs' \in 0 .. menu.runs
    BY <1>3, <2>1
  <2> QED BY <1>1, <1>3, <2>2 DEF Counted, services
<1>7. FilesOK'
  BY <1>1, <1>3 DEF FilesOK, services
<1>8. GhostsOK'
  <2>1. About(request) \in {"services", "settings", "rows"}
    BY Requested, AboutOf
  <2>2. upset' \subseteq Reasons
    BY <1>1, <1>3, <2>1 DEF GhostsOK, Reasons
  <2>3. started' \in BOOLEAN
    BY <1>1, <1>3 DEF GhostsOK
  <2> QED BY <1>1, <1>3, <2>2, <2>3 DEF GhostsOK, settings
<1> QED BY <1>4, <1>5, <1>6, <1>7, <1>8, TypedFromParts

LEMMA CutTyped ==
  ASSUME Typed, NEW c \in Commands, CutShort(c)
  PROVE  Typed'
<1>1. CommandsOK /\ ProcsOK /\ Counted /\ FilesOK /\ GhostsOK
  BY TypedParts
<1>2. /\ DOMAIN cmd' = Commands /\ \A d \in Commands \ {c} : cmd'[d] = cmd[d]
      /\ Planned(c)' /\ cmd'[c] = Idle
  BY CutTurn
<1>3. /\ faults < menu.faults /\ faults' = faults + 1
      /\ UNCHANGED <<menu, services, settings, rows, runs, notices, started, hit, stirs, indexed>>
      /\ \A reason \in upset' : reason \in upset \/ reason \in {"services", "settings"}
  BY DEF CutShort
<1>4. CommandsOK'
  <2>1. \A d \in Commands \ {c} : Planned(d)'
    BY <1>1, <1>2, <1>3 DEF CommandsOK, Planned, Servicing
  <2> QED BY <1>1, <1>2, <1>3, <2>1 DEF CommandsOK
<1>5. ProcsOK'
  BY <1>3, ProcessesStay DEF services
<1>6. Counted'
  <2>1. menu.faults \in Nat /\ faults \in 0 .. menu.faults
    BY <1>1, ControlAssumption DEF Counted
  <2>2. faults' \in 0 .. menu.faults
    BY <1>3, <2>1
  <2> QED BY <1>1, <1>3, <2>2 DEF Counted, services
<1>7. FilesOK'
  BY <1>1, <1>3 DEF FilesOK, services
<1>8. GhostsOK'
  <2>1. upset' \subseteq Reasons
    BY <1>1, <1>3 DEF GhostsOK, Reasons
  <2> QED BY <1>1, <1>3, <2>1 DEF GhostsOK, settings
<1> QED BY <1>4, <1>5, <1>6, <1>7, <1>8, TypedFromParts

\* What the processes do.
ProcessStep(p) ==
  \/ Bind(p) \/ GiveUp(p) \/ Crash(p) \/ Reuse(p) \/ Exit(p) \/ Flush(p) \/ ProcessPath(p)
  \/ \E f \in SourceFiles : Notice(p, f)

LEMMA ProcessAt ==
  ASSUME Typed, NEW p \in Pids
  PROVE  /\ DOMAIN proc = Pids /\ Proper(proc[p])
         /\ \A kind, state : Is(p, kind, state) <=>
              proc[p] # NoProcess /\ proc[p].kind = kind /\ proc[p].state = state
BY TypedParts, AliveIs DEF ProcsOK, Is

LEMMA NoProcessProper == Proper(NoProcess)
BY DEF Proper

\* The work of a watcher changes neither what it is nor whether it runs.
Working(p) ==
  \E x : /\ proc' = [proc EXCEPT ![p] = x] /\ Proper(x)
         /\ x # NoProcess /\ x.kind = proc[p].kind /\ x.state = proc[p].state

WithWork(p, pending, batch, cache) ==
  [proc[p] EXCEPT !.pending = pending, !.batch = batch, !.cache = cache]

LEMMA WatcherWorks ==
  ASSUME Typed, NEW p \in Pids,
         Flush(p) \/ ProcessPath(p) \/ \E f \in SourceFiles : Notice(p, f)
  PROVE  Working(p) /\ proc[p] # NoProcess /\ proc[p].kind = "watcher"
<1>1. /\ DOMAIN proc = Pids /\ Proper(proc[p]) /\ proc[p] # NoProcess
      /\ proc[p].kind = "watcher" /\ proc[p].state \in {"up", "stopping"}
  BY ProcessAt DEF Flush, ProcessPath, Notice
<1>2. \A pending, batch, cache :
        /\ Proper(WithWork(p, pending, batch, cache))
        /\ WithWork(p, pending, batch, cache) # NoProcess
        /\ WithWork(p, pending, batch, cache).kind = proc[p].kind
        /\ WithWork(p, pending, batch, cache).state = proc[p].state
  <2> TAKE pending, batch, cache
  <2> DEFINE x == WithWork(p, pending, batch, cache)
  <2>1. /\ DOMAIN x = DOMAIN NoProcess
        /\ x.kind = proc[p].kind /\ x.state = proc[p].state
    BY <1>1 DEF Proper, NoProcess, Process, WithWork
  <2>2. x # NoProcess
    BY <1>1, <2>1 DEF NoProcess, Process
  <2>3. Proper(x)
    BY <1>1, <2>1 DEF Proper
  <2> QED BY <2>1, <2>2, <2>3
<1>3. CASE Flush(p)
  <2>1. proc' = [proc EXCEPT ![p] = WithWork(p, {}, proc[p].pending, rows)]
    BY <1>1, <1>3 DEF Flush, Proper, NoProcess, Process, WithWork
  <2> DEFINE x == WithWork(p, {}, proc[p].pending, rows)
  <2>3. Proper(x) /\ x # NoProcess /\ x.kind = proc[p].kind /\ x.state = proc[p].state
    BY <1>2
  <2>4. proc' = [proc EXCEPT ![p] = x]
    BY <2>1
  <2> HIDE DEF x
  <2>5. Working(p)
    BY <2>3, <2>4 DEF Working
  <2> QED BY <1>1, <2>5
<1>4. CASE ProcessPath(p)
  <2>1. PICK d \in proc[p].batch :
          proc' = [proc EXCEPT ![p].batch = @ \ {d},
                               ![p].cache = IF proc[p].batch = {d} THEN NoRows ELSE @]
    BY <1>4 DEF ProcessPath
  <2>2. proc' = [proc EXCEPT ![p] =
                   WithWork(p, proc[p].pending, proc[p].batch \ {d},
                            IF proc[p].batch = {d} THEN NoRows ELSE proc[p].cache)]
    BY <1>1, <2>1 DEF Proper, NoProcess, Process, WithWork
  <2> DEFINE x == WithWork(p, proc[p].pending, proc[p].batch \ {d},
                           IF proc[p].batch = {d} THEN NoRows ELSE proc[p].cache)
  <2>3. Proper(x) /\ x # NoProcess /\ x.kind = proc[p].kind /\ x.state = proc[p].state
    BY <1>2
  <2>4. proc' = [proc EXCEPT ![p] = x]
    BY <2>2
  <2> HIDE DEF x
  <2>5. Working(p)
    BY <2>3, <2>4 DEF Working
  <2> QED BY <1>1, <2>5
<1>5. CASE \E f \in SourceFiles : Notice(p, f)
  <2>1. PICK d : proc' = [proc EXCEPT ![p].pending = @ \cup {d}]
    BY <1>5 DEF Notice
  <2>2. proc' = [proc EXCEPT ![p] = WithWork(p, proc[p].pending \cup {d}, proc[p].batch,
                                                proc[p].cache)]
    BY <1>1, <2>1 DEF Proper, NoProcess, Process, WithWork
  <2> DEFINE x == WithWork(p, proc[p].pending \cup {d}, proc[p].batch, proc[p].cache)
  <2>3. Proper(x) /\ x # NoProcess /\ x.kind = proc[p].kind /\ x.state = proc[p].state
    BY <1>2
  <2>4. proc' = [proc EXCEPT ![p] = x]
    BY <2>2
  <2> HIDE DEF x
  <2>5. Working(p)
    BY <2>3, <2>4 DEF Working
  <2> QED BY <1>1, <2>5
<1> QED BY <1>3, <1>4, <1>5

\* Each changes its own process.
LEMMA ProcessStepProper ==
  ASSUME Typed, NEW p \in Pids, ProcessStep(p)
  PROVE  ProcsOK'
<1>1. /\ DOMAIN proc = Pids /\ Proper(proc[p])
      /\ \A kind, state : Is(p, kind, state) <=>
           proc[p] # NoProcess /\ proc[p].kind = kind /\ proc[p].state = state
  BY ProcessAt
<1>2. CASE Bind(p)
  <2> DEFINE x == [proc[p] EXCEPT !.state = "up"]
  <2>1. Is(p, "engine", "new") /\ proc' = [proc EXCEPT ![p] = x]
    BY <1>1, <1>2 DEF Bind
  <2>2. Proper(x)
    BY <1>1, <2>1 DEF Proper, NoProcess, Process
  <2>3. \A q \in Pids : ~Is(q, "engine", "up")
    BY <1>2 DEF Bind
  <2> HIDE DEF x
  <2> QED BY <2>1, <2>2, <2>3, ProcessChanges
<1>3. CASE GiveUp(p) \/ Crash(p) \/ Exit(p)
  <2>1. proc' = [proc EXCEPT ![p] = NoProcess]
    BY <1>3 DEF GiveUp, Crash, Exit, Dies
  <2> QED BY <2>1, ProcessChanges, NoProcessProper
<1>4. CASE Reuse(p)
  <2> DEFINE x == Process("foreign", None)
  <2>1. proc' = [proc EXCEPT ![p] = x]
    BY <1>4 DEF Reuse
  <2>2. Proper(x) /\ x.kind # "engine"
    BY DEF Proper, NoProcess, Process
  <2> HIDE DEF x
  <2> QED BY <2>1, <2>2, ProcessChanges
<1>5. CASE Flush(p) \/ ProcessPath(p) \/ \E f \in SourceFiles : Notice(p, f)
  <2>1. Working(p) /\ proc[p].kind = "watcher"
    BY <1>5, WatcherWorks
  <2> QED BY <2>1, ProcessChanges DEF Working
<1> QED BY <1>2, <1>3, <1>4, <1>5 DEF ProcessStep

\* None of them changes what a command is at.
LEMMA ProcessStepTurns ==
  ASSUME Typed, NEW p \in Pids, ProcessStep(p)
  PROVE  /\ menu' = menu /\ taken' = taken /\ pidfile' = pidfile /\ DOMAIN cmd' = Commands
         /\ \A c \in Commands :
              /\ Planned(c)' /\ (Servicing(c)' <=> Servicing(c))
              /\ cmd'[c].pid = cmd[c].pid /\ (cmd'[c] # Idle => cmd[c] # Idle)
              /\ cmd'[c].since = cmd[c].since
              /\ cmd'[c].sound # cmd[c].sound => GiveUp(p) \/ Crash(p)
              /\ \A op, v : At(c, op, v)' <=> At(c, op, v)
<1>1. CommandsOK
  BY TypedParts
<1>2. CASE GiveUp(p) \/ Crash(p)
  <2>1. PICK reason : Dies(p, reason)
    BY <1>2 DEF GiveUp, Crash
  <2>2. menu' = menu /\ taken' = taken /\ pidfile' = pidfile /\ DOMAIN cmd' = Commands
    BY <2>1 DEF Dies
  <2> SUFFICES ASSUME NEW c \in Commands
               PROVE  /\ Planned(c)' /\ (Servicing(c)' <=> Servicing(c))
                      /\ cmd'[c].pid = cmd[c].pid /\ (cmd'[c] # Idle => cmd[c] # Idle)
                      /\ cmd'[c].since = cmd[c].since
                      /\ cmd'[c].sound # cmd[c].sound => GiveUp(p) \/ Crash(p)
                      /\ \A op, v : At(c, op, v)' <=> At(c, op, v)
    BY <2>2
  <2>3. cmd[c] = Idle => cmd'[c] = Idle
    BY <2>1 DEF Dies
  <2> QED BY <1>2, <2>1, <2>3, DiesTurn
<1>3. CASE ~(GiveUp(p) \/ Crash(p))
  <2>1. cmd' = cmd /\ menu' = menu /\ taken' = taken /\ pidfile' = pidfile
    BY <1>3 DEF ProcessStep, Bind, Reuse, Exit, Flush, ProcessPath, Notice, Quiet
  <2> QED BY <1>1, <2>1 DEF CommandsOK, Planned, Servicing, At
<1> QED BY <1>2, <1>3

LEMMA ProcessStepTyped ==
  ASSUME Typed, NEW p \in Pids, ProcessStep(p)
  PROVE  Typed'
<1>1. CommandsOK /\ Counted /\ FilesOK /\ GhostsOK /\ ProcsOK'
  BY TypedParts, ProcessStepProper
<1>2. /\ menu' = menu /\ taken' = taken /\ pidfile' = pidfile /\ DOMAIN cmd' = Commands
      /\ \A c \in Commands : /\ Planned(c)' /\ (cmd'[c] # Idle => cmd[c] # Idle)
                             /\ cmd'[c].since = cmd[c].since
  BY ProcessStepTurns
<1>3. stirs' \in {stirs, stirs + 1} /\ runs' = runs /\ performed' = performed /\ indexed' = indexed
  BY DEF ProcessStep, Bind, GiveUp, Crash, Dies, Reuse, Exit, Flush, ProcessPath, Notice, Quiet,
     settings, bounds, ghosts
<1>4. stirs \in Nat /\ stirs' \in Nat /\ \A n \in 0 .. stirs : n \in 0 .. stirs'
  BY <1>1, <1>3 DEF GhostsOK
<1>5. CommandsOK'
  BY <1>1, <1>2, <1>4 DEF CommandsOK
<1>6. faults' \in 0 .. menu.faults /\ notices' \in 0 .. menu.notices
  <2>1. /\ menu.faults \in Nat /\ menu.notices \in Nat
        /\ faults \in 0 .. menu.faults /\ notices \in 0 .. menu.notices
    BY <1>1, ControlAssumption DEF Counted
  <2>2. faults' = faults \/ (faults < menu.faults /\ faults' = faults + 1)
    BY DEF ProcessStep, Bind, GiveUp, Crash, Reuse, Exit, Flush, ProcessPath, Notice, Quiet, bounds
  <2>3. notices' = notices \/ (notices < menu.notices /\ notices' = notices + 1)
    BY DEF ProcessStep, Bind, GiveUp, Crash, Dies, Reuse, Exit, Flush, ProcessPath, Notice, Quiet,
       bounds
  <2> QED BY <2>1, <2>2, <2>3
<1>7. Counted'
  BY <1>1, <1>2, <1>3, <1>6 DEF Counted
<1>8. FilesOK'
  <2>1. CASE ProcessPath(p)
    <3>1. \E cache, d, source, unread : rows' = Inspected(cache, d, source, unread)
      BY <2>1 DEF ProcessPath
    <3> QED BY <1>1, <1>2, <3>1, InspectedRange DEF FilesOK
  <2>2. CASE ~ProcessPath(p)
    <3>1. rows' = rows
      BY <2>2 DEF ProcessStep, Bind, GiveUp, Crash, Dies, Reuse, Exit, Flush, Notice, Quiet
    <3> QED BY <1>1, <1>2, <3>1 DEF FilesOK
  <2> QED BY <2>1, <2>2
<1>9. GhostsOK'
  <2>1. started' \in {started, FALSE} /\ hit' = hit
    BY DEF ProcessStep, Bind, GiveUp, Crash, Dies, Reuse, Exit, Flush, ProcessPath, Notice, Quiet,
       ghosts
  <2>2. upset' \subseteq upset \cup {"refused", "crashed", "reused"}
    BY DEF ProcessStep, Bind, GiveUp, Crash, Dies, Reuse, Exit, Flush, ProcessPath, Notice, Quiet,
       ghosts
  <2>3. upset' \subseteq Reasons
    BY <1>1, <2>2 DEF GhostsOK, Reasons
  <2>4. indexed' \in 0 .. stirs' \cup {None}
    BY <1>1, <1>3, <1>4 DEF GhostsOK
  <2>5. started' \in BOOLEAN /\ hit' \in BOOLEAN
    BY <1>1, <2>1 DEF GhostsOK
  <2> QED BY <1>1, <1>2, <1>3, <1>4, <2>3, <2>4, <2>5 DEF GhostsOK
<1> QED BY <1>1, <1>5, <1>7, <1>8, <1>9, TypedFromParts

LEMMA IdlePlanned ==
  ASSUME NEW c \in Commands, cmd[c] = Idle
  PROVE  Planned(c) /\ ~Servicing(c) /\ \A op, v : ~At(c, op, v)
<1>1. Idle.steps = <<>> /\ Idle.pid = None /\ Idle.sound = TRUE /\ Idle.scan = {}
  BY DEF Idle
<1>2. <<>> \in Seq(ToSet(<<>>)) /\ IsFiniteSet({})
  BY FS_EmptySet
<1>3. ~Servicing(c) /\ \A op, v : ~At(c, op, v)
  BY <1>1 DEF Servicing, At
<1>4. \A i \in DOMAIN cmd[c].steps : FALSE
  BY <1>1
<1> QED BY <1>1, <1>2, <1>3, <1>4 DEF Planned

LEMMA TypedFromPartsNow ==
  ASSUME CommandsOK, ProcsOK, Counted, FilesOK, GhostsOK
  PROVE  Typed
<1>1. Shape
  BY DEF Shape, CommandsOK, ProcsOK, Proper
<1>2. \A c \in Commands : (cmd[c] = Idle) = (cmd[c].steps = <<>>)
  BY DEF CommandsOK, Planned, Idle
<1>3. \A c \in Commands :
        cmd[c] # Idle => cmd[c].request \in menu.requests /\ cmd[c].since \in 0 .. stirs
  BY DEF CommandsOK, Planned
<1>4. \A p \in {p \in Pids : Alive(p)} :
       /\ proc[p].kind \in Services \cup {"foreign"}
       /\ proc[p].state \in {"new", "up", "stopping"}
       /\ proc[p].state = "new" => proc[p].kind = "engine"
       /\ proc[p].pending \cup proc[p].batch # {} => proc[p].kind = "watcher"
  BY AliveIs DEF ProcsOK, Proper
<1>5. TypeOK
  BY <1>2, <1>3, <1>4 DEF TypeOK, CommandsOK, ProcsOK, OneEngine, Counted, FilesOK, GhostsOK
<1> QED BY <1>1, <1>5 DEF Typed

LEMMA TypedInit ==
  ASSUME Init
  PROVE  Typed
<1>1. CommandsOK
  BY IdlePlanned DEF Init, CommandsOK
<1>2. Counted
  BY ControlAssumption DEF Init, Counted
<1>3. PICK start \in menu.starts, e \in Pids, w \in Pids :
        /\ e # w
        /\ pidfile = IF start.running THEN [v \in Services |-> IF v = "engine" THEN e ELSE w]
                                      ELSE [v \in Services |-> None]
        /\ proc = [p \in Pids |->
                 IF ~ start.running \/ p \notin {e, w} THEN NoProcess
                 ELSE Process(IF p = e THEN "engine" ELSE "watcher",
                              Merge(start.base, start.local.roots))]
  BY DEF Init
<1>4. FilesOK
  <2>1. pidfile \in [Services -> Pids \cup {None}]
    BY <1>3
  <2>2. rows = NoRows
    BY DEF Init
  <2> QED BY <2>1, <2>2 DEF FilesOK, Range, NoRows
<1>5. ProcsOK
  <2>1. \A kind \in Services : \A roots : Proper(Process(kind, roots))
    BY DEF Proper, Process, NoProcess
  <2>2. DOMAIN proc = Pids /\ \A p \in Pids : Proper(proc[p])
    BY <1>3, <2>1, NoProcessProper DEF Services
  <2>3. \A p \in Pids : Is(p, "engine", "up") => p = e
    BY <1>3 DEF Is, Alive, Process, NoProcess
  <2> QED BY <2>2, <2>3 DEF ProcsOK, OneEngine
<1>6. GhostsOK
  <2>1. <<>> \in Seq(menu.requests)
    BY EmptySeq
  <2> QED BY <2>1 DEF Init, GhostsOK
<1> QED BY <1>1, <1>2, <1>4, <1>5, <1>6, TypedFromPartsNow

LEMMA StillTyped ==
  ASSUME Typed, UNCHANGED vars
  PROVE  Typed'
BY DEF Typed, TypeOK, Shape, Planned, Servicing, Alive, Is, vars, services, settings, bounds, ghosts

LEMMA StepSplits ==
  ASSUME Next
  PROVE  \/ \E c \in Commands : \/ \E request \in menu.requests : Run(c, request)
                                \/ ServiceStep(c) \/ OtherStep(c) \/ CutShort(c)
         \/ \E p \in Pids : ProcessStep(p)
BY DEF Next, Step, ServiceStep, OtherStep, ProcessStep

LEMMA NextTyped ==
  ASSUME Typed, [Next]_vars
  PROVE  Typed'
<1>1. ASSUME NEW c \in Commands,
             \/ \E request \in menu.requests : Run(c, request)
             \/ ServiceStep(c) \/ OtherStep(c) \/ CutShort(c)
      PROVE  Typed'
  BY <1>1, RunTyped, ServiceStepTyped, OtherStepTyped, CutTyped
<1>2. CASE UNCHANGED vars
  BY <1>2, StillTyped
<1>3. CASE Next
  BY <1>1, <1>3, StepSplits, ProcessStepTyped
<1> QED BY <1>2, <1>3

(***************************************************************************)
(* Whatever the commands, the services and the failures, every variable    *)
(* has its type; above all, no two engines of the workspace have the port  *)
(* at once.                                                                *)
(***************************************************************************)
THEOREM ControlTypes == Spec => []TypeOK
<1>1. Init => Typed
  BY TypedInit
<1>2. Typed /\ [Next]_vars => Typed'
  BY NextTyped
<1>3. Typed => TypeOK
  BY DEF Typed
<1> QED BY <1>1, <1>2, <1>3, PTL DEF Spec

-----------------------------------------------------------------------------
(***************************************************************************)
(* What is known of the services.  Steps that do not concern it first.     *)
(***************************************************************************)
\* The steps at which something is known of a service.
Telling == ({"remove", "terminate", "truncate", "write"} \X Services)
             \cup {<<"check", "watcher">>, <<"spawn", "watcher">>}

LEMMA TellingIsService ==
  ASSUME NEW step \in Telling
  PROVE  step[1] \in ServiceOps /\ step[2] \in Services
BY DEF Telling, ServiceOps, Services

LEMMA ElsewhereNotAtThen ==
  ASSUME NEW c \in Commands, Planned(c)', ~Servicing(c)', NEW op \in ServiceOps, NEW v \in Services
  PROVE  ~At(c, op, v)'
<1>1. SUFFICES ASSUME At(c, op, v)' PROVE FALSE
  OBVIOUS
<1>2. /\ cmd'[c].steps \in Seq(ToSet(cmd'[c].steps)) /\ cmd'[c].steps # <<>>
      /\ Head(cmd'[c].steps) = <<op, v>>
  BY <1>1 DEF Planned, At
<1>3. 1 \in DOMAIN cmd'[c].steps /\ cmd'[c].steps[1] = <<op, v>>
  BY <1>2
<1> QED BY <1>3 DEF Planned

LEMMA AtServiceThen ==
  ASSUME NEW c \in Commands, Planned(c)', NEW op \in ServiceOps, NEW v \in Services, At(c, op, v)'
  PROVE  Servicing(c)'
BY ElsewhereNotAtThen

\* No command gets to or away from such a step, or is at one and not by itself.
Still ==
  /\ pidfile' = pidfile /\ Single'
  /\ \A c \in Commands, step \in Telling :
       /\ At(c, step[1], step[2])' <=> At(c, step[1], step[2])
       /\ At(c, step[1], step[2]) => cmd'[c].pid = cmd[c].pid /\ cmd'[c] # Idle

LEMMA StillLaunched ==
  ASSUME Still, NEW c \in Commands, NEW v \in Services
  PROVE  /\ Launched(c, v)' <=> Launched(c, v)
         /\ At(c, "remove", v)' <=> At(c, "remove", v)
         /\ At(c, "terminate", v)' <=> At(c, "terminate", v)
         /\ At(c, "check", "watcher")' <=> At(c, "check", "watcher")
         /\ At(c, "spawn", "watcher")' <=> At(c, "spawn", "watcher")
         /\ Launched(c, v) \/ At(c, "terminate", v) => cmd'[c].pid = cmd[c].pid
         /\ \/ Launched(c, v) \/ At(c, "check", "watcher") \/ At(c, "spawn", "watcher")
            => cmd'[c] # Idle
<1>1. /\ <<"remove", v>> \in Telling /\ <<"terminate", v>> \in Telling
      /\ <<"truncate", v>> \in Telling /\ <<"write", v>> \in Telling
      /\ <<"check", "watcher">> \in Telling /\ <<"spawn", "watcher">> \in Telling
  BY DEF Telling
<1>2. \A op, u : <<op, u>> \in Telling =>
        /\ At(c, op, u)' <=> At(c, op, u)
        /\ At(c, op, u) => cmd'[c].pid = cmd[c].pid /\ cmd'[c] # Idle
  BY DEF Still
<1> QED BY <1>1, <1>2 DEF Launched

LEMMA TrackedWhenStill ==
  ASSUME Tracked, Still, \A p \in Pids, v \in Services : Serves(p, v)' => Serves(p, v)
  PROVE  Tracked'
<1>1. \A v \in Services : (\A c \in Commands : ~Launched(c, v)') =>
        \A p \in Pids : Serves(p, v)' => pidfile'[v] = p
  <2> SUFFICES ASSUME NEW v \in Services, \A c \in Commands : ~Launched(c, v)',
                      NEW p \in Pids, Serves(p, v)'
               PROVE  pidfile'[v] = p
    OBVIOUS
  <2>1. \A c \in Commands : ~Launched(c, v)
    BY StillLaunched
  <2> QED BY <2>1 DEF Tracked, Still
<1>2. ASSUME NEW c \in Commands, NEW v \in Services
      PROVE  /\ Launched(c, v)' => \A p \in Pids : Serves(p, v)' => p = cmd'[c].pid
             /\ At(c, "remove", v)' => \A p \in Pids : ~Serves(p, v)'
             /\ At(c, "terminate", v)' => cmd'[c].pid = pidfile'[v]
  BY StillLaunched DEF Tracked, Still
<1>3. Single'
  BY DEF Still
<1> QED BY <1>1, <1>2, <1>3 DEF Tracked

\* A process that was there is there, or no command and no start can tell any more.
Survives ==
  \/ \A p \in Pids : Alive(p) /\ proc[p].state # "stopping" => Alive(p)'
  \/ ~started' /\ \A c \in Commands : cmd'[c] # Idle => ~cmd'[c].sound

Uninvented ==
  \A p \in Pids : Alive(p)' =>
    /\ Alive(p) /\ proc'[p].kind = proc[p].kind
    /\ proc'[p].state = "stopping" => proc[p].state = "stopping"

\* A process serves as long as it is not stopped.
LEMMA ServesThen ==
  ASSUME Typed', NEW p \in Pids, NEW v \in Services, Alive(p)', proc'[p].kind = v,
         proc'[p].state # "stopping"
  PROVE  Serves(p, v)'
BY DEF Typed, TypeOK, Serves, Is

LEMMA ServesIs ==
  ASSUME NEW p \in Pids, NEW v \in Services, Serves(p, v)
  PROVE  Alive(p) /\ proc[p].kind = v /\ proc[p].state # "stopping"
BY DEF Serves, Is

LEMMA ServesIsThen ==
  ASSUME NEW p \in Pids, NEW v \in Services, Serves(p, v)'
  PROVE  Alive(p)' /\ proc'[p].kind = v /\ proc'[p].state # "stopping"
BY DEF Serves, Is

\* Single: that a command removes the pid file of a service tells what no other is at.
LEMMA Alone ==
  ASSUME Typed, Single, NEW c \in Commands, NEW d \in Commands,
         NEW x \in ServiceOps \X Services, NEW y \in ServiceOps \X Services,
         At(c, x[1], x[2]), At(d, y[1], y[2])
  PROVE  c = d /\ x = y
<1>1. Planned(c) /\ Planned(d)
  BY TypedCommand
<1>2. Servicing(c) /\ Servicing(d)
  BY <1>1, AtService
<1>3. c = d
  BY <1>2 DEF Single
<1> QED BY <1>3, OneAt

LEMMA NamedWhenStill ==
  ASSUME Typed, Typed', Named, Still, Uninvented, Survives,
         \A c \in Commands : Servicing(c) /\ Servicing(c)' /\ cmd'[c].sound => cmd[c].sound,
         started' => started /\ (NoneAbout("services") => NoneAbout("services")')
  PROVE  Named'
<1>1. pidfile' = pidfile /\ pidfile \in [Services -> Pids \cup {None}] /\ None \notin Pids
  BY ControlAssumption, TypedParts DEF Still, FilesOK
<1>2. \A v \in Services, p \in Pids : pidfile'[v] = p <=> pidfile[v] = p
  BY <1>1
<1>3. ASSUME NEW v \in Services, NEW p \in Pids, pidfile'[v] = p, Alive(p)'
      PROVE  /\ proc'[p].kind = v
             /\ proc'[p].state = "stopping" => \E c \in Commands : At(c, "remove", v)'
  <2>1. Alive(p) /\ proc'[p].kind = proc[p].kind
        /\ (proc'[p].state = "stopping" => proc[p].state = "stopping")
    BY <1>3 DEF Uninvented
  <2>2. /\ proc[p].kind = v
        /\ proc[p].state = "stopping" => \E c \in Commands : At(c, "remove", v)
    BY <1>2, <1>3, <2>1 DEF Named
  <2>3. \A c \in Commands : At(c, "remove", v)' <=> At(c, "remove", v)
    BY StillLaunched
  <2> QED BY <2>1, <2>2, <2>3
\* A command that knows something is sound as before.
<1>10. ASSUME NEW c \in Commands, NEW step \in Telling, At(c, step[1], step[2]), cmd'[c].sound
       PROVE  cmd[c].sound
  <2>1. At(c, step[1], step[2])' /\ step[1] \in ServiceOps /\ step[2] \in Services
    BY <1>10, TellingIsService DEF Still
  <2>2. Planned(c) /\ Planned(c)'
    BY DEF Typed, Shape
  <2> QED BY <1>10, <2>1, <2>2, AtService, AtServiceThen
<1>11. ASSUME NEW c \in Commands, NEW v \in Services, cmd'[c].sound,
              Launched(c, v) \/ At(c, "check", "watcher") \/ At(c, "spawn", "watcher")
       PROVE  cmd[c].sound
  <2>1. PICK step \in {<<"truncate", v>>, <<"write", v>>, <<"check", "watcher">>,
                       <<"spawn", "watcher">>} : At(c, step[1], step[2])
    BY <1>11 DEF Launched
  <2>2. step \in Telling
    BY DEF Telling
  <2> QED BY <1>10, <1>11, <2>1, <2>2
\* What is known to be there is not stopped.
<1>4. ASSUME NEW c \in Commands, NEW v \in Services, Launched(c, v)'
      PROVE  \E p \in Pids : /\ cmd'[c].pid = p
                             /\ Alive(p)' => Serves(p, v)'
                             /\ cmd'[c].sound => Alive(p)'
  <2>1. /\ Launched(c, v) /\ cmd'[c].pid = cmd[c].pid /\ cmd'[c] # Idle
        /\ cmd'[c].sound => cmd[c].sound
    BY <1>4, <1>11, StillLaunched
  <2>2. PICK p \in Pids : cmd[c].pid = p /\ (Alive(p) => Serves(p, v)) /\ (cmd[c].sound => Alive(p))
    BY <2>1 DEF Named
  <2>3. Alive(p)' => Serves(p, v)'
    <3>1. SUFFICES ASSUME Alive(p)' PROVE Serves(p, v)'
      OBVIOUS
    <3>2. Alive(p) /\ proc'[p].kind = proc[p].kind
          /\ (proc'[p].state = "stopping" => proc[p].state = "stopping")
      BY <3>1 DEF Uninvented
    <3>3. proc[p].kind = v /\ proc[p].state # "stopping"
      BY <2>2, <3>2, ServesIs
    <3> QED BY <3>1, <3>2, <3>3, ServesThen
  <2>4. cmd'[c].sound => Alive(p)'
    <3>1. SUFFICES ASSUME cmd'[c].sound PROVE Alive(p)'
      OBVIOUS
    <3>2. Alive(p) /\ proc[p].state # "stopping"
      BY <2>1, <2>2, <3>1, ServesIs
    <3> QED BY <2>1, <3>1, <3>2 DEF Survives
  <2> QED BY <2>1, <2>2, <2>3, <2>4
<1>5. ASSUME NEW v \in Services, There(v), \A d \in Commands : ~At(d, "remove", v),
             \A p \in Pids : Alive(p) /\ proc[p].state # "stopping" => Alive(p)'
      PROVE  There(v)'
  <2>1. PICK p \in Pids : pidfile[v] = p /\ Alive(p)
    BY <1>5 DEF There
  <2>2. proc[p].state # "stopping"
    BY <1>5, <2>1 DEF Named
  <2>3. Alive(p)' /\ pidfile'[v] = p
    BY <1>1, <1>5, <2>1, <2>2
  <2> QED BY <2>3 DEF There
<1>6. ASSUME NEW c \in Commands, cmd'[c].sound,
             At(c, "check", "watcher")' \/ At(c, "spawn", "watcher")' \/ Launched(c, "watcher")'
      PROVE  There("engine")'
  <2>1. /\ At(c, "check", "watcher") \/ At(c, "spawn", "watcher") \/ Launched(c, "watcher")
        /\ cmd'[c] # Idle /\ cmd[c].sound
    BY <1>6, <1>11, StillLaunched DEF Services
  <2>2. There("engine")
    BY <1>6, <2>1 DEF Named
  <2>3. ASSUME NEW d \in Commands, At(d, "remove", "engine")
        PROVE  FALSE
    <3>1. PICK x \in {<<"check", "watcher">>, <<"spawn", "watcher">>, <<"truncate", "watcher">>,
                      <<"write", "watcher">>} : At(c, x[1], x[2])
      BY <2>1 DEF Launched
    <3> DEFINE y == <<"remove", "engine">>
    <3>2. x \in ServiceOps \X Services /\ y \in ServiceOps \X Services /\ x # y
      BY DEF ServiceOps, Services
    <3>3. At(d, y[1], y[2]) /\ Single
      BY <2>3 DEF Named
    <3> HIDE DEF y
    <3> QED BY <3>1, <3>2, <3>3, Alone
  <2>4. \A p \in Pids : Alive(p) /\ proc[p].state # "stopping" => Alive(p)'
    BY <1>6, <2>1 DEF Survives
  <2> QED BY <1>5, <2>2, <2>3, <2>4 DEF Services
<1>9. ASSUME started'
      PROVE  NoneAbout("services")' /\ \A v \in Services : There(v)'
  <2>1. /\ NoneAbout("services") /\ NoneAbout("services")'
        /\ \A v \in Services : There(v)
    BY <1>9 DEF Named
  <2>2. \A d \in Commands, v \in Services : ~At(d, "remove", v)
    BY <2>1, AtService, TypedCommand DEF NoneAbout, Servicing, ServiceOps
  <2>3. \A p \in Pids : Alive(p) /\ proc[p].state # "stopping" => Alive(p)'
    BY <1>9 DEF Survives
  <2> QED BY <1>5, <1>9, <2>1, <2>2, <2>3
<1>7. \A c \in Commands, v \in Services : At(c, "terminate", v)' => cmd'[c].pid = pidfile'[v]
  BY <1>1, StillLaunched DEF Named
<1>8. Single'
  BY DEF Still
<1> QED BY <1>3, <1>4, <1>6, <1>7, <1>8, <1>9 DEF Named

-----------------------------------------------------------------------------
(***************************************************************************)
(* A command on the services that is the only one: what is known of them   *)
(* is what it knows.                                                       *)
(***************************************************************************)
TrackedFor(c) ==
  \A v \in Services :
    /\ ~Launched(c, v) => \A p \in Pids : Serves(p, v) => pidfile[v] = p
    /\ Launched(c, v) => \A p \in Pids : Serves(p, v) => p = cmd[c].pid
    /\ At(c, "remove", v) => \A p \in Pids : ~Serves(p, v)
    /\ At(c, "terminate", v) => cmd[c].pid = pidfile[v]

NamedFor(c) ==
  /\ \A v \in Services :
       /\ \A p \in Pids : pidfile[v] = p /\ Alive(p) =>
            /\ proc[p].kind = v
            /\ proc[p].state = "stopping" => At(c, "remove", v)
       /\ At(c, "terminate", v) => cmd[c].pid = pidfile[v]
       /\ Launched(c, v) => \E p \in Pids : /\ cmd[c].pid = p
                                            /\ Alive(p) => Serves(p, v)
                                            /\ cmd[c].sound => Alive(p)
  /\ /\ cmd[c].sound
     /\ At(c, "check", "watcher") \/ At(c, "spawn", "watcher") \/ Launched(c, "watcher")
     => There("engine")
  /\ started => ~Servicing(c) /\ \A v \in Services : There(v)

LEMMA OthersElsewhere ==
  ASSUME Typed, Single, NEW c \in Commands, Turn(c), Typed', menu' = menu
  PROVE  /\ Single'
         /\ \A d \in Commands \ {c} : /\ ~Servicing(d) /\ ~Servicing(d)'
                                      /\ \A op \in ServiceOps, v \in Services :
                                           ~At(d, op, v) /\ ~At(d, op, v)'
<1>1. /\ Servicing(c) /\ \A d \in Commands \ {c} : cmd'[d] = cmd[d]
      /\ \A d \in Commands : Planned(d)
  BY TypedCommand DEF Turn
<1>2. \A d \in Commands \ {c} : ~Servicing(d) /\ ~Servicing(d)'
  BY <1>1 DEF Single, Servicing
<1>3. Single'
  BY <1>2 DEF Single
<1>4. \A d \in Commands \ {c}, op \in ServiceOps, v \in Services : ~At(d, op, v) /\ ~At(d, op, v)'
  BY <1>1, <1>2, ElsewhereNotAt DEF At
<1> QED BY <1>2, <1>3, <1>4

LEMMA ServiceOpsAre ==
  /\ {"check", "stale", "remove", "spawn", "truncate", "write", "find", "terminate"}
       \subseteq ServiceOps
  /\ "engine" \in Services /\ "watcher" \in Services
BY DEF ServiceOps, Services

LEMMA TrackedByOne ==
  ASSUME Typed, Single, NEW c \in Commands, Turn(c), Typed', menu' = menu
  PROVE  (Tracked => TrackedFor(c)) /\ (TrackedFor(c)' => Tracked')
<1>1. /\ Single'
      /\ \A d \in Commands \ {c}, v \in Services :
           /\ ~Launched(d, v) /\ ~At(d, "remove", v) /\ ~At(d, "terminate", v)
           /\ ~Launched(d, v)' /\ ~At(d, "remove", v)' /\ ~At(d, "terminate", v)'
  BY OthersElsewhere, ServiceOpsAre DEF Launched
<1>2. Tracked => TrackedFor(c)
  BY <1>1 DEF Tracked, TrackedFor
<1>3. TrackedFor(c)' => Tracked'
  BY <1>1 DEF Tracked, TrackedFor
<1> QED BY <1>2, <1>3

LEMMA NamedByOne ==
  ASSUME Typed, Single, NEW c \in Commands, Turn(c), Typed', menu' = menu
  PROVE  (Named => NamedFor(c)) /\ (NamedFor(c)' => Named')
<1>1. /\ Single'
      /\ \A d \in Commands \ {c} :
           /\ ~Servicing(d) /\ ~Servicing(d)'
           /\ ~At(d, "check", "watcher")' /\ ~At(d, "spawn", "watcher")'
           /\ ~Launched(d, "watcher")'
           /\ \A v \in Services :
                /\ ~Launched(d, v) /\ ~At(d, "remove", v) /\ ~At(d, "terminate", v)
                /\ ~Launched(d, v)' /\ ~At(d, "remove", v)' /\ ~At(d, "terminate", v)'
  BY OthersElsewhere, ServiceOpsAre DEF Launched
<1>2. Named => NamedFor(c)
  <2>1. NoneAbout("services") => ~Servicing(c)
    BY DEF NoneAbout, Servicing
  <2> QED BY <1>1, <2>1 DEF Named, NamedFor
<1>3. NamedFor(c)' => Named'
  <2> SUFFICES ASSUME NamedFor(c)' PROVE Named'
    OBVIOUS
  <2>1. started' => NoneAbout("services")'
    <3>1. ASSUME started', NEW d \in Commands
          PROVE  ~Servicing(d)'
      BY <1>1, <3>1 DEF NamedFor
    <3> QED BY <3>1 DEF NoneAbout, Servicing
  <2>2. \A v \in Services, p \in Pids : pidfile'[v] = p /\ Alive(p)' =>
          /\ proc'[p].kind = v
          /\ proc'[p].state = "stopping" => \E d \in Commands : At(d, "remove", v)'
    BY DEF NamedFor
  <2>3. \A d \in Commands, v \in Services :
          /\ At(d, "terminate", v)' => cmd'[d].pid = pidfile'[v]
          /\ Launched(d, v)' => \E p \in Pids : /\ cmd'[d].pid = p
                                                /\ Alive(p)' => Serves(p, v)'
                                                /\ cmd'[d].sound => Alive(p)'
    BY <1>1 DEF NamedFor
  <2>4. \A d \in Commands :
       /\ cmd'[d].sound
       /\ At(d, "check", "watcher")' \/ At(d, "spawn", "watcher")' \/ Launched(d, "watcher")'
       => There("engine")'
    BY <1>1 DEF NamedFor
  <2>5. started' => \A v \in Services : There(v)'
    BY DEF NamedFor
  <2> QED BY <1>1, <2>1, <2>2, <2>3, <2>4, <2>5 DEF Named
<1> QED BY <1>2, <1>3

\* A command that is at one step is at no other; and may get to those it goes on to.
LEMMA AtOne ==
  ASSUME NEW c \in Commands, NEW op, NEW v, At(c, op, v)
  PROVE  \A o, u : At(c, o, u) <=> o = op /\ u = v
BY OneAt

LEMMA ServesTypes ==
  ASSUME Typed, NEW v \in Services
  PROVE  pidfile \in [Services -> Pids \cup {None}] /\ None \notin Pids /\ DOMAIN proc = Pids
BY ControlAssumption DEF Typed, TypeOK

\* Reading what is there changes nothing; but a command knows more.
LEMMA LookTracked ==
  ASSUME Typed, NEW c \in Commands, NEW v \in Services, Typed', TrackedFor(c), Turn(c),
         ~Launched(c, "engine"), ~Launched(c, "watcher"),
         UNCHANGED services,
         Goes(c, Rests \cup {<<"check", "watcher">>, <<"stale", "engine">>,
                             <<"terminate", v>>, <<"remove", v>>}),
         At(c, "terminate", v)' => cmd'[c].pid = pidfile[v],
         At(c, "remove", v)' => ~Alive(pidfile[v])
  PROVE  TrackedFor(c)'
<1>1. pidfile' = pidfile /\ proc' = proc /\ None \notin Pids
  BY ControlAssumption DEF services
<1>2. \A p \in Pids, u \in Services : Serves(p, u)' <=> Serves(p, u)
  BY <1>1 DEF Serves, Is, Alive
<1>3. \A p \in Pids, u \in Services : Serves(p, u) => pidfile[u] = p
  BY DEF TrackedFor, Services
<1>4. \A u \in Services :
        /\ ~Launched(c, u)'
        /\ At(c, "remove", u)' => u = v
        /\ At(c, "terminate", u)' => u = v
  BY DEF Goes, Rests, Launched
<1>5. At(c, "remove", v)' => \A p \in Pids : ~Serves(p, v)
  BY <1>3, ServesIs
<1> QED BY <1>1, <1>2, <1>3, <1>4, <1>5 DEF TrackedFor

LEMMA ServiceStepTracks ==
  ASSUME Typed, NEW c \in Commands, ServiceStep(c), Typed', TrackedFor(c),
         {"beside", "unstopped"} \cap upset' = {}
  PROVE  TrackedFor(c)'
<1>1. PICK v \in Services :
           \/ At(c, "check", v) /\ CheckService(c)
           \/ At(c, "stale", v) /\ CheckStale(c)
           \/ At(c, "remove", v) /\ RemovePid(c)
           \/ At(c, "spawn", v) /\ Spawn(c)
           \/ At(c, "truncate", v) /\ TruncatePid(c)
           \/ At(c, "write", v) /\ WritePid(c)
           \/ At(c, "find", v) /\ FindPid(c)
           \/ At(c, "terminate", v) /\ Terminate(c)
  BY ServiceStepAt
<1>2. /\ pidfile \in [Services -> Pids \cup {None}] /\ None \notin Pids /\ DOMAIN proc = Pids
      /\ DOMAIN pidfile = Services
  BY ServesTypes
<1>3. Planned(c)'
  BY DEF Typed, Shape
<1>4. CASE At(c, "check", v) /\ CheckService(c)
  <2>1. \A u : ~Launched(c, u)
    BY <1>4, AtOne DEF Launched
  <2>2. /\ Turn(c) /\ UNCHANGED services
        /\ Goes(c, {<<"check", "watcher">>, <<"stale", "engine">>})
    <3>1. CASE v = "engine"
      BY <1>4, <3>1, CheckEngineTurn DEF Goes
    <3>2. CASE v = "watcher"
      <4>1. Turn(c) /\ UNCHANGED services
        BY <1>4, <3>2, CheckWatcherTurn DEF services, Quiet
      <4>2. CASE ServiceAlive("watcher")
        BY <1>4, <3>2, <4>1, <4>2, CheckWatcherTurn DEF Goes
      <4>3. CASE ~ServiceAlive("watcher")
        BY <1>4, <3>2, <4>1, <4>3, CheckWatcherTurn DEF Goes
      <4> QED BY <4>2, <4>3
    <3> QED BY <3>1, <3>2 DEF Services
  <2>3. /\ Goes(c, Rests \cup {<<"check", "watcher">>, <<"stale", "engine">>,
                               <<"terminate", v>>, <<"remove", v>>})
        /\ ~At(c, "terminate", v)' /\ ~At(c, "remove", v)'
    BY <2>2 DEF Goes
  <2> QED BY <2>1, <2>2, <2>3, LookTracked
<1>5. CASE At(c, "stale", v) /\ CheckStale(c)
  <2>1. \A u : ~Launched(c, u)
    BY <1>5, AtOne DEF Launched
  <2>2. /\ Turn(c) /\ UNCHANGED services
        /\ ServiceAlive(v) => Goes(c, Rests)
        /\ ~ServiceAlive(v) => Goes(c, {<<"remove", v>>})
    BY <1>5, StaleTurn
  <2>3. /\ Goes(c, Rests \cup {<<"check", "watcher">>, <<"stale", "engine">>,
                               <<"terminate", v>>, <<"remove", v>>})
        /\ ~At(c, "terminate", v)' /\ (At(c, "remove", v)' => ~Alive(pidfile[v]))
    BY <2>2 DEF Goes, Rests, ServiceAlive
  <2> QED BY <2>1, <2>2, <2>3, LookTracked
<1>6. CASE At(c, "find", v) /\ FindPid(c)
  <2>1. \A u : ~Launched(c, u)
    BY <1>6, AtOne DEF Launched
  <2>2. /\ Turn(c) /\ UNCHANGED services
        /\ Servicing(c)' => cmd'[c].pid = pidfile[v]
        /\ pidfile[v] = None => Goes(c, Rests)
        /\ Alive(pidfile[v]) => Goes(c, {<<"terminate", v>>})
        /\ pidfile[v] # None /\ ~Alive(pidfile[v]) => Goes(c, {<<"remove", v>>})
    BY <1>6, FindTurn
  <2>3. /\ Goes(c, Rests \cup {<<"check", "watcher">>, <<"stale", "engine">>,
                               <<"terminate", v>>, <<"remove", v>>})
        /\ At(c, "remove", v)' => ~Alive(pidfile[v])
    BY <2>2 DEF Goes, Rests, Alive
  <2>4. At(c, "terminate", v)' => cmd'[c].pid = pidfile[v]
    BY <1>3, <2>2, AtServiceThen, ServiceOpsAre
  <2> QED BY <2>1, <2>2, <2>3, <2>4, LookTracked
<1>7. CASE At(c, "remove", v) /\ RemovePid(c)
  <2>1. \A u \in Services : ~Launched(c, u)
    BY <1>7, AtOne DEF Launched
  <2>2. Goes(c, Rests) /\ pidfile' = [pidfile EXCEPT ![v] = None] /\ proc' = proc
    BY <1>7, RemoveTurn
  <2>3. \A p \in Pids, u \in Services : Serves(p, u)' <=> Serves(p, u)
    BY <2>2 DEF Serves, Is, Alive
  <2>4. \A u \in Services : ~Launched(c, u)' /\ ~At(c, "remove", u)' /\ ~At(c, "terminate", u)'
    BY <2>2 DEF Goes, Rests, Launched
  <2>5. \A p \in Pids : ~Serves(p, v)
    BY <1>7 DEF TrackedFor
  <2>6. \A p \in Pids, u \in Services : Serves(p, u) => pidfile'[u] = p
    BY <1>2, <2>1, <2>2, <2>5 DEF TrackedFor
  <2> QED BY <2>3, <2>4, <2>6 DEF TrackedFor
<1>8. CASE At(c, "spawn", v) /\ Spawn(c)
  <2>1. \A u \in Services : ~Launched(c, u)
    BY <1>8, AtOne DEF Launched
  <2>2. /\ Goes(c, {<<"truncate", v>>}) /\ At(c, "truncate", v)' /\ pidfile' = pidfile
    BY <1>8, SpawnTurn
  <2>3. PICK p \in Pids :
          /\ proc[p] = NoProcess
          /\ proc' = [proc EXCEPT ![p] = [Process(v, Configured)
                            EXCEPT !.state = IF v = "engine" THEN "new" ELSE "up"]]
          /\ Servicing(c)' => cmd'[c].pid = p
          /\ upset' = upset \cup {"beside" : q \in {q \in {pidfile[v]} : Alive(q)}}
                            \cup {"reused" : u \in {u \in Services : pidfile[u] = p}}
    BY <1>8, SpawnTurn
  <2>4. \A q \in Pids, u \in Services : Serves(q, u)' => Serves(q, u) \/ (q = p /\ u = v)
    <3>1. proc'[p].kind = v /\ \A q \in Pids \ {p} : proc'[q] = proc[q]
      BY <1>2, <2>3 DEF Process
    <3> QED BY <3>1 DEF Serves, Is, Alive
  <2>5. \A q \in Pids, u \in Services : Serves(q, u) => pidfile[u] = q
    BY <2>1 DEF TrackedFor
  <2>6. ~Alive(pidfile[v])
    BY <2>3
  <2>7. \A q \in Pids : ~Serves(q, v)
    BY <2>5, <2>6, ServesIs
  <2>8. cmd'[c].pid = p
    BY <1>3, <2>2, <2>3, AtServiceThen, ServiceOpsAre
  <2>9. \A u \in Services : /\ Launched(c, u)' <=> u = v
                            /\ ~At(c, "remove", u)' /\ ~At(c, "terminate", u)'
    BY <2>2 DEF Goes, Launched
  <2>10. ASSUME NEW u \in Services, ~Launched(c, u)', NEW q \in Pids, Serves(q, u)'
         PROVE  pidfile'[u] = q
    BY <2>2, <2>4, <2>5, <2>9, <2>10
  <2>11. ASSUME NEW u \in Services, Launched(c, u)', NEW q \in Pids, Serves(q, u)'
         PROVE  q = cmd'[c].pid
    BY <2>4, <2>7, <2>8, <2>9, <2>11
  <2> QED BY <2>9, <2>10, <2>11 DEF TrackedFor
<1>9. CASE At(c, "truncate", v) /\ TruncatePid(c)
  <2>1. /\ Goes(c, {<<"write", v>>}) /\ At(c, "write", v)' /\ Keeps(c)
        /\ pidfile' = [pidfile EXCEPT ![v] = None] /\ proc' = proc
    BY <1>9, TruncateTurn
  <2>2. \A p \in Pids, u \in Services : Serves(p, u)' <=> Serves(p, u)
    BY <2>1 DEF Serves, Is, Alive
  <2>3. \A u \in Services : Launched(c, u) <=> u = v
    BY <1>9, AtOne DEF Launched
  <2>4. \A u \in Services : /\ Launched(c, u)' <=> u = v
                            /\ ~At(c, "remove", u)' /\ ~At(c, "terminate", u)'
    BY <2>1 DEF Goes, Launched
  <2>5. cmd'[c].pid = cmd[c].pid
    BY <1>3, <2>1, AtServiceThen, ServiceOpsAre DEF Keeps
  <2>6. \A u \in Services \ {v} : pidfile'[u] = pidfile[u]
    BY <1>2, <2>1
  <2> QED BY <2>2, <2>3, <2>4, <2>5, <2>6 DEF TrackedFor
<1>10. CASE At(c, "write", v) /\ WritePid(c)
  <2>1. pidfile' = [pidfile EXCEPT ![v] = cmd[c].pid] /\ proc' = proc
    BY <1>10, WriteTurn
  <2>2. \A u \in Services : ~Launched(c, u)' /\ ~At(c, "remove", u)' /\ ~At(c, "terminate", u)'
    <3>1. CASE v = "engine"
      BY <1>10, <3>1, WriteTurn DEF Goes, Launched
    <3>2. CASE v = "watcher"
      BY <1>10, <3>2, WriteTurn DEF Goes, Launched
    <3> QED BY <3>1, <3>2 DEF Services
  <2>3. \A p \in Pids, u \in Services : Serves(p, u)' <=> Serves(p, u)
    BY <2>1 DEF Serves, Is, Alive
  <2>4. \A u \in Services : Launched(c, u) <=> u = v
    BY <1>10, AtOne DEF Launched
  <2>5. \A u \in Services : pidfile'[u] = IF u = v THEN cmd[c].pid ELSE pidfile[u]
    BY <1>2, <2>1
  <2> QED BY <2>2, <2>3, <2>4, <2>5 DEF TrackedFor
<1>11. CASE At(c, "terminate", v) /\ Terminate(c)
  <2> DEFINE p == cmd[c].pid
  <2>1. /\ Goes(c, {<<"remove", v>>}) /\ pidfile' = pidfile
        /\ proc' = IF Alive(p) THEN [proc EXCEPT ![p].state = "stopping"] ELSE proc
    BY <1>11, TerminateTurn DEF Signals, Fails
  <2>2. \A u \in Services : ~Launched(c, u) /\ (At(c, "terminate", u) <=> u = v)
    BY <1>11, AtOne DEF Launched
  <2>3. \A u \in Services : /\ ~Launched(c, u)' /\ ~At(c, "terminate", u)'
                            /\ At(c, "remove", u)' => u = v
    BY <2>1 DEF Goes, Launched
  <2>4. \A q \in Pids, u \in Services : Serves(q, u) => pidfile[u] = q
    BY <2>2 DEF TrackedFor
  <2>5. p = pidfile[v]
    BY <2>2 DEF TrackedFor
  <2> HIDE DEF p
  <2>6. \A q \in Pids, u \in Services : Serves(q, u)' => Serves(q, u) /\ q # p
    <3> SUFFICES ASSUME NEW q \in Pids, NEW u \in Services, Serves(q, u)'
                 PROVE  Serves(q, u) /\ q # p
      OBVIOUS
    <3>1. CASE Alive(p) /\ q = p
      <4>1. proc'[q] = [proc[q] EXCEPT !.state = "stopping"]
        BY <1>2, <2>1, <3>1
      <4>2. Alive(q) /\ proc'[q].state # "stopping"
        BY <3>1, ServesIsThen
      <4>3. DOMAIN proc[q] = DOMAIN NoProcess
        BY DEF Typed, Shape
      <4>4. proc'[q].state = "stopping"
        BY <4>1, <4>3 DEF NoProcess, Process
      <4> QED BY <4>2, <4>4
    <3>2. CASE Alive(p) /\ q # p
      <4>1. proc'[q] = proc[q]
        BY <1>2, <2>1, <3>2
      <4> QED BY <3>2, <4>1 DEF Serves, Is, Alive
    <3>3. CASE ~Alive(p)
      <4>1. proc' = proc
        BY <2>1, <3>3
      <4>2. Serves(q, u)
        BY <4>1 DEF Serves, Is, Alive
      <4> QED BY <3>3, <4>2, ServesIs
    <3> QED BY <3>1, <3>2, <3>3
  <2>7. \A q \in Pids : ~Serves(q, v)'
    BY <2>4, <2>5, <2>6
  <2> QED BY <2>1, <2>3, <2>4, <2>6, <2>7 DEF TrackedFor
<1> QED BY <1>1, <1>4, <1>5, <1>6, <1>7, <1>8, <1>9, <1>10, <1>11

LEMMA ThereStays ==
  ASSUME NEW v, pidfile' = pidfile, proc' = proc
  PROVE  There(v)' <=> There(v)
BY DEF There, Alive

LEMMA LookNamed ==
  ASSUME Typed, NEW c \in Commands, NEW v \in Services, Typed', NamedFor(c), Turn(c),
         ~Launched(c, "engine"), ~Launched(c, "watcher"),
         ~At(c, "remove", "engine"), ~At(c, "remove", "watcher"),
         pidfile' = pidfile, proc' = proc,
         Goes(c, Rests \cup {<<"check", "watcher">>, <<"stale", "engine">>,
                             <<"terminate", v>>, <<"remove", v>>}),
         At(c, "terminate", v)' => cmd'[c].pid = pidfile[v],
         At(c, "check", "watcher")' => There("engine"),
         started' => ~Servicing(c)' /\ \A u \in Services : There(u)
  PROVE  NamedFor(c)'
<1>1. \A p \in Pids : Alive(p)' <=> Alive(p)
  BY DEF Alive
<1>2. \A u \in Services : ~At(c, "remove", u)
  BY DEF Services
<1>3. \A u \in Services :
        /\ ~Launched(c, u)' /\ ~At(c, "spawn", "watcher")'
        /\ At(c, "terminate", u)' => u = v
  BY DEF Goes, Rests, Launched
<1>4. \A u \in Services, p \in Pids : pidfile'[u] = p /\ Alive(p)' =>
        /\ proc'[p].kind = u
        /\ proc'[p].state # "stopping"
  BY <1>1, <1>2 DEF NamedFor
<1>5. At(c, "check", "watcher")' => There("engine")'
  BY ThereStays
<1>6. started' => ~Servicing(c)' /\ \A u \in Services : There(u)'
  BY ThereStays
<1>7. \A u \in Services : At(c, "terminate", u)' => cmd'[c].pid = pidfile'[u]
  BY <1>3
<1>8. ~Launched(c, "watcher")'
  BY <1>3 DEF Services
<1> QED BY <1>3, <1>4, <1>5, <1>6, <1>7, <1>8 DEF NamedFor

LEMMA AliveIsThere ==
  ASSUME Typed, NEW v \in Services
  PROVE  ServiceAlive(v) <=> There(v)
<1>1. pidfile[v] \in Pids \cup {None} /\ None \notin Pids
  BY ServesTypes
<1> QED BY <1>1 DEF ServiceAlive, There, Alive

LEMMA ServiceStepNames ==
  ASSUME Typed, NEW c \in Commands, ServiceStep(c), Typed', NamedFor(c), "reused" \notin upset'
  PROVE  NamedFor(c)'
<1>1. PICK v \in Services :
           \/ At(c, "check", v) /\ CheckService(c)
           \/ At(c, "stale", v) /\ CheckStale(c)
           \/ At(c, "remove", v) /\ RemovePid(c)
           \/ At(c, "spawn", v) /\ Spawn(c)
           \/ At(c, "truncate", v) /\ TruncatePid(c)
           \/ At(c, "write", v) /\ WritePid(c)
           \/ At(c, "find", v) /\ FindPid(c)
           \/ At(c, "terminate", v) /\ Terminate(c)
  BY ServiceStepAt
<1>2. /\ pidfile \in [Services -> Pids \cup {None}] /\ None \notin Pids /\ DOMAIN proc = Pids
      /\ DOMAIN pidfile = Services
  BY ServesTypes
<1>3. Planned(c)' /\ Turn(c) /\ ~started
  <2>1. Turn(c)
    BY ServiceStepTyped
  <2> QED BY <2>1 DEF Typed, Shape, Turn, NamedFor
<1>4. CASE At(c, "check", v) /\ CheckService(c)
  <2>1. \A u : ~Launched(c, u) /\ ~At(c, "remove", u)
    BY <1>4, AtOne DEF Launched
  <2>2. /\ UNCHANGED <<pidfile, proc>> /\ Goes(c, {<<"check", "watcher">>, <<"stale", "engine">>})
        /\ At(c, "check", "watcher")' => There("engine")
        /\ started' => ~Servicing(c)' /\ \A u \in Services : There(u)
    <3>1. CASE v = "engine"
      <4>1. /\ UNCHANGED <<services, ghosts>>
            /\ Goes(c, {IF ServiceAlive("engine") THEN <<"check", "watcher">>
                                                  ELSE <<"stale", "engine">>})
        BY <1>4, <3>1, CheckEngineTurn
      <4> QED BY <1>3, <4>1, AliveIsThere DEF Goes, services, ghosts, Services
    <3>2. CASE v = "watcher"
      <4>1. UNCHANGED <<pidfile, proc>>
        BY <1>4, <3>2, CheckWatcherTurn
      <4>2. CASE ServiceAlive("watcher")
        <5>1. started' = cmd[c].sound /\ ~Servicing(c)' /\ Goes(c, {})
          BY <1>4, <3>2, <4>2, CheckWatcherTurn
        <5>2. started' => There("engine") /\ There("watcher")
          BY <1>4, <3>2, <4>2, <5>1, AliveIsThere DEF NamedFor, Services
        <5> QED BY <4>1, <5>1, <5>2 DEF Goes, Services
      <4>3. CASE ~ServiceAlive("watcher")
        BY <1>3, <1>4, <3>2, <4>1, <4>3, CheckWatcherTurn DEF Goes
      <4> QED BY <4>2, <4>3
    <3> QED BY <3>1, <3>2 DEF Services
  <2>3. /\ Goes(c, Rests \cup {<<"check", "watcher">>, <<"stale", "engine">>,
                               <<"terminate", v>>, <<"remove", v>>})
        /\ ~At(c, "terminate", v)'
    BY <2>2 DEF Goes
  <2> QED BY <1>3, <2>1, <2>2, <2>3, LookNamed
<1>5. CASE At(c, "stale", v) /\ CheckStale(c)
  <2>1. \A u : ~Launched(c, u) /\ ~At(c, "remove", u)
    BY <1>5, AtOne DEF Launched
  <2>2. /\ UNCHANGED <<services, ghosts>>
        /\ ServiceAlive(v) => Goes(c, Rests)
        /\ ~ServiceAlive(v) => Goes(c, {<<"remove", v>>})
    BY <1>5, StaleTurn
  <2>3. /\ Goes(c, Rests \cup {<<"check", "watcher">>, <<"stale", "engine">>,
                               <<"terminate", v>>, <<"remove", v>>})
        /\ ~At(c, "terminate", v)' /\ ~At(c, "check", "watcher")'
        /\ UNCHANGED <<pidfile, proc>> /\ ~started'
    BY <1>3, <2>2 DEF Goes, Rests, services, ghosts
  <2> QED BY <1>3, <2>1, <2>3, LookNamed
<1>6. CASE At(c, "find", v) /\ FindPid(c)
  <2>1. \A u : ~Launched(c, u) /\ ~At(c, "remove", u)
    BY <1>6, AtOne DEF Launched
  <2>2. /\ UNCHANGED <<services, ghosts>>
        /\ Servicing(c)' => cmd'[c].pid = pidfile[v]
        /\ pidfile[v] = None => Goes(c, Rests)
        /\ Alive(pidfile[v]) => Goes(c, {<<"terminate", v>>})
        /\ pidfile[v] # None /\ ~Alive(pidfile[v]) => Goes(c, {<<"remove", v>>})
    BY <1>6, FindTurn
  <2>3. /\ Goes(c, Rests \cup {<<"check", "watcher">>, <<"stale", "engine">>,
                               <<"terminate", v>>, <<"remove", v>>})
        /\ ~At(c, "check", "watcher")' /\ UNCHANGED <<pidfile, proc>> /\ ~started'
    BY <1>3, <2>2 DEF Goes, Rests, services, ghosts
  <2>4. At(c, "terminate", v)' => cmd'[c].pid = pidfile[v]
    BY <1>3, <2>2, AtServiceThen, ServiceOpsAre
  <2> QED BY <1>3, <2>1, <2>3, <2>4, LookNamed
<1>7. CASE At(c, "remove", v) /\ RemovePid(c)
  <2>1. \A u \in Services : At(c, "remove", u) <=> u = v
    BY <1>7, AtOne
  <2>2. Goes(c, Rests) /\ pidfile' = [pidfile EXCEPT ![v] = None] /\ proc' = proc /\ ~started'
    BY <1>3, <1>7, RemoveTurn
  <2>3. \A u \in Services : ~Launched(c, u)' /\ ~At(c, "terminate", u)'
    BY <2>2 DEF Goes, Rests, Launched
  <2>4. ~At(c, "check", "watcher")' /\ ~At(c, "spawn", "watcher")' /\ ~Launched(c, "watcher")'
    BY <2>2 DEF Goes, Rests, Launched
  <2>5. \A u \in Services, p \in Pids : pidfile'[u] = p => u # v /\ pidfile[u] = p
    BY <1>2, <2>2
  <2>6. \A p \in Pids : Alive(p)' <=> Alive(p)
    BY <2>2 DEF Alive
  <2>7. \A u \in Services, p \in Pids : pidfile'[u] = p /\ Alive(p)' =>
          /\ proc'[p].kind = u
          /\ proc'[p].state # "stopping"
    BY <2>1, <2>2, <2>5, <2>6 DEF NamedFor
  <2> QED BY <2>2, <2>3, <2>4, <2>7 DEF NamedFor
<1>8. CASE At(c, "spawn", v) /\ Spawn(c)
  <2>1. \A u : ~At(c, "remove", u)
    BY <1>8, AtOne
  <2>2. /\ Goes(c, {<<"truncate", v>>}) /\ At(c, "truncate", v)' /\ pidfile' = pidfile /\ ~started'
        /\ Servicing(c)' => cmd'[c].sound = cmd[c].sound
    BY <1>3, <1>8, SpawnTurn
  <2>3. PICK p \in Pids :
          /\ proc[p] = NoProcess
          /\ proc' = [proc EXCEPT ![p] = [Process(v, Configured)
                            EXCEPT !.state = IF v = "engine" THEN "new" ELSE "up"]]
          /\ Servicing(c)' => cmd'[c].pid = p
          /\ upset' = upset \cup {"beside" : q \in {q \in {pidfile[v]} : Alive(q)}}
                            \cup {"reused" : u \in {u \in Services : pidfile[u] = p}}
    BY <1>8, SpawnTurn
  <2>4. cmd'[c].pid = p /\ cmd'[c].sound = cmd[c].sound
    BY <1>3, <2>2, <2>3, AtServiceThen, ServiceOpsAre
  <2>5. Alive(p)' /\ Serves(p, v)' /\ \A q \in Pids \ {p} : proc'[q] = proc[q]
    <3>1. /\ proc'[p] = [Process(v, Configured)
                         EXCEPT !.state = IF v = "engine" THEN "new" ELSE "up"]
          /\ \A q \in Pids \ {p} : proc'[q] = proc[q]
      BY <1>2, <2>3
    <3>2. /\ proc'[p].kind = v /\ proc'[p].state \in {"new", "up"}
          /\ proc'[p].state # NoProcess.state
      BY <3>1 DEF Process, NoProcess
    <3>3. Alive(p)'
      BY <1>2, <3>2 DEF Alive
    <3> QED BY <3>1, <3>2, <3>3 DEF Serves, Is
  <2>6. \A u \in Services : pidfile[u] # p
    BY <2>3
  <2>7. \A u \in Services, q \in Pids : pidfile'[u] = q /\ Alive(q)' =>
          /\ proc'[q].kind = u
          /\ proc'[q].state # "stopping"
    <3> SUFFICES ASSUME NEW u \in Services, NEW q \in Pids, pidfile'[u] = q, Alive(q)'
                 PROVE  proc'[q].kind = u /\ proc'[q].state # "stopping"
      OBVIOUS
    <3>1. q # p /\ pidfile[u] = q
      BY <2>2, <2>6
    <3>2. proc'[q] = proc[q] /\ Alive(q)
      BY <2>5, <3>1, AliveIs, AliveIsThen
    <3> QED BY <2>1, <3>1, <3>2 DEF NamedFor
  <2>8. \A u \in Services : (Launched(c, u)' => u = v) /\ ~At(c, "terminate", u)'
    BY <2>2 DEF Goes, Launched
  <2>9. /\ At(c, "check", "watcher")' \/ At(c, "spawn", "watcher")' \/ Launched(c, "watcher")'
        => v = "watcher"
    BY <2>2 DEF Goes, Launched
  <2>10. cmd'[c].sound /\ v = "watcher" => There("engine")'
    <3> SUFFICES ASSUME cmd'[c].sound, v = "watcher"
                 PROVE  There("engine")'
      OBVIOUS
    <3>1. There("engine")
      BY <1>8, <2>4 DEF NamedFor
    <3>2. PICK q \in Pids : pidfile["engine"] = q /\ Alive(q)
      BY <3>1 DEF There
    <3>3. q # p
      BY <2>6, <3>2 DEF Services
    <3>4. Alive(q)'
      BY <2>5, <3>2, <3>3, AliveIs, AliveIsThen
    <3> QED BY <2>2, <3>2, <3>4 DEF There
  <2> QED BY <2>2, <2>4, <2>5, <2>7, <2>8, <2>9, <2>10 DEF NamedFor
<1>9. CASE At(c, "truncate", v) /\ TruncatePid(c)
  <2>1. /\ Goes(c, {<<"write", v>>}) /\ At(c, "write", v)' /\ Keeps(c) /\ ~started'
        /\ pidfile' = [pidfile EXCEPT ![v] = None] /\ proc' = proc
    BY <1>3, <1>9, TruncateTurn
  <2>2. \A u : ~At(c, "remove", u)
    BY <1>9, AtOne
  <2>3. Launched(c, v)
    BY <1>9 DEF Launched
  <2>4. \A u \in Services : (Launched(c, u)' => u = v) /\ ~At(c, "terminate", u)'
    BY <2>1 DEF Goes, Launched
  <2>5. cmd'[c].pid = cmd[c].pid /\ cmd'[c].sound = cmd[c].sound
    BY <1>3, <2>1, AtServiceThen, ServiceOpsAre DEF Keeps
  <2>6. \A u \in Services, p \in Pids : pidfile'[u] = p <=> u # v /\ pidfile[u] = p
    BY <1>2, <2>1
  <2>7. \A p \in Pids : Alive(p)' <=> Alive(p)
    BY <2>1 DEF Alive
  <2>8. \A u \in Services, p \in Pids : pidfile'[u] = p /\ Alive(p)' =>
          /\ proc'[p].kind = u
          /\ proc'[p].state # "stopping"
    BY <2>1, <2>2, <2>6, <2>7 DEF NamedFor
  <2>9. \E p \in Pids : /\ cmd'[c].pid = p
                        /\ Alive(p)' => Serves(p, v)'
                        /\ cmd'[c].sound => Alive(p)'
    <3>1. PICK p \in Pids : /\ cmd[c].pid = p
                            /\ Alive(p) => Serves(p, v)
                            /\ cmd[c].sound => Alive(p)
      BY <2>3 DEF NamedFor
    <3>2. Serves(p, v) => Serves(p, v)'
      BY <2>1 DEF Serves, Is, Alive
    <3> QED BY <2>5, <2>7, <3>1, <3>2
  <2>10. At(c, "check", "watcher")' \/ At(c, "spawn", "watcher")' \/ Launched(c, "watcher")'
         => v = "watcher"
    BY <2>1 DEF Goes, Launched
  <2>11. cmd'[c].sound /\ v = "watcher" => There("engine")'
    <3> SUFFICES ASSUME cmd'[c].sound, v = "watcher"
                 PROVE  There("engine")'
      OBVIOUS
    <3>1. There("engine")
      BY <2>3, <2>5 DEF NamedFor
    <3> QED BY <2>6, <2>7, <3>1 DEF There, Services
  <2> QED BY <2>1, <2>4, <2>8, <2>9, <2>10, <2>11 DEF NamedFor
<1>10. CASE At(c, "write", v) /\ WritePid(c)
  <2>1. /\ Keeps(c) /\ pidfile' = [pidfile EXCEPT ![v] = cmd[c].pid] /\ proc' = proc
        /\ started' = (v = "watcher" /\ cmd[c].sound)
    BY <1>10, WriteTurn
  <2>2. /\ v = "engine" => Goes(c, {<<"spawn", "watcher">>})
        /\ v = "watcher" => ~Servicing(c)' /\ Goes(c, {})
    <3>1. v = "engine" => Goes(c, {<<"spawn", "watcher">>})
      BY <1>10, WriteTurn
    <3>2. v = "watcher" => ~Servicing(c)' /\ Goes(c, {})
      BY <1>10, WriteTurn
    <3> QED BY <3>1, <3>2
  <2>3. \A u : ~At(c, "remove", u)
    BY <1>10, AtOne
  <2>4. Launched(c, v) /\ (v = "watcher" => Launched(c, "watcher"))
    BY <1>10 DEF Launched
  <2>5. PICK p \in Pids : cmd[c].pid = p /\ (Alive(p) => Serves(p, v)) /\ (cmd[c].sound => Alive(p))
    BY <2>4 DEF NamedFor
  <2>6. \A q \in Pids : Alive(q)' <=> Alive(q)
    BY <2>1 DEF Alive
  <2>7. \A u \in Services : pidfile'[u] = IF u = v THEN p ELSE pidfile[u]
    BY <1>2, <2>1, <2>5
  <2>8. \A u \in Services : ~Launched(c, u)' /\ ~At(c, "terminate", u)'
    BY <2>2 DEF Goes, Launched, Services
  <2>9. ASSUME NEW u \in Services, NEW q \in Pids, pidfile'[u] = q, Alive(q)'
        PROVE  proc'[q].kind = u /\ proc'[q].state # "stopping"
    <3>1. CASE u = v
      BY <2>1, <2>5, <2>6, <2>7, <2>9, <3>1, ServesIs
    <3>2. CASE u # v
      BY <2>1, <2>3, <2>6, <2>7, <2>9, <3>2 DEF NamedFor
    <3> QED BY <3>1, <3>2
  <2>10. cmd[c].sound => There(v)'
    BY <2>5, <2>6, <2>7 DEF There
  <2>11. cmd[c].sound /\ v = "watcher" => There("engine")'
    <3> SUFFICES ASSUME cmd[c].sound, v = "watcher" PROVE There("engine")'
      OBVIOUS
    <3>1. There("engine")
      BY <2>4 DEF NamedFor
    <3> QED BY <2>6, <2>7, <3>1 DEF There, Services
  <2>12. started' => ~Servicing(c)' /\ \A u \in Services : There(u)'
    BY <2>1, <2>2, <2>10, <2>11 DEF Services
  <2>13. cmd'[c].sound /\ (At(c, "check", "watcher")' \/ At(c, "spawn", "watcher")')
         => There("engine")'
    <3> SUFFICES ASSUME cmd'[c].sound, At(c, "check", "watcher")' \/ At(c, "spawn", "watcher")'
                 PROVE  There("engine")'
      OBVIOUS
    <3>1. v = "engine"
      BY <2>2 DEF Goes, Services
    <3>2. Servicing(c)'
      BY <1>3, AtServiceThen, ServiceOpsAre
    <3>3. cmd[c].sound
      BY <2>1, <3>2 DEF Keeps
    <3> QED BY <2>10, <3>1, <3>3
  <2>14. ~Launched(c, "watcher")'
    BY <2>8 DEF Services
  <2> QED BY <2>8, <2>9, <2>12, <2>13, <2>14 DEF NamedFor
<1>11. CASE At(c, "terminate", v) /\ Terminate(c)
  <2>1. PICK p \in Pids \cup {None} : p = cmd[c].pid
    BY TypedCommand
  <2>2. /\ Goes(c, {<<"remove", v>>}) /\ At(c, "remove", v)' /\ pidfile' = pidfile /\ ~started'
        /\ proc' = proc \/ (Alive(p) /\ proc' = [proc EXCEPT ![p].state = "stopping"])
    BY <1>3, <1>11, <2>1, TerminateTurn DEF Signals, Fails
  <2>3. p = pidfile[v]
    BY <1>11, <2>1 DEF NamedFor
  <2>4. \A u \in Services : ~Launched(c, u)' /\ ~At(c, "terminate", u)'
    BY <2>2 DEF Goes, Launched
  <2>5. ~At(c, "check", "watcher")' /\ ~At(c, "spawn", "watcher")' /\ ~Launched(c, "watcher")'
    BY <2>2 DEF Goes, Launched
  <2>6. \A u \in Services : ~At(c, "remove", u)
    BY <1>11, AtOne
  <2>7. ASSUME NEW u \in Services, NEW q \in Pids, pidfile'[u] = q, Alive(q)'
        PROVE  proc'[q].kind = u /\ (proc'[q].state = "stopping" => At(c, "remove", u)')
    <3>1. pidfile[u] = q
      BY <2>2, <2>7
    <3>2. CASE Alive(p) /\ q = p /\ proc' = [proc EXCEPT ![p].state = "stopping"]
      <4>1. proc'[q] = [proc[q] EXCEPT !.state = "stopping"] /\ Alive(q)
        BY <1>2, <2>2, <3>2
      <4>2. DOMAIN proc[q] = DOMAIN NoProcess
        BY DEF Typed, Shape
      <4>3. proc'[q].kind = proc[q].kind
        BY <4>1, <4>2 DEF NoProcess, Process
      <4>4. proc[q].kind = u /\ proc[q].kind = v
        BY <2>3, <3>1, <3>2, <4>1 DEF NamedFor
      <4> QED BY <2>2, <4>3, <4>4
    <3>3. CASE ~(Alive(p) /\ q = p /\ proc' = [proc EXCEPT ![p].state = "stopping"])
      <4>1. proc'[q] = proc[q]
        BY <1>2, <2>2, <3>3
      <4>2. Alive(q)
        BY <2>7, <4>1, AliveIs, AliveIsThen
      <4> QED BY <2>6, <3>1, <4>1, <4>2 DEF NamedFor
    <3> QED BY <3>2, <3>3
  <2> QED BY <2>2, <2>4, <2>5, <2>7 DEF NamedFor
<1> QED BY <1>1, <1>4, <1>5, <1>6, <1>7, <1>8, <1>9, <1>10, <1>11

-----------------------------------------------------------------------------
(***************************************************************************)
(* The invariant, step by step.                                            *)
(***************************************************************************)
\* Only what had a number of a service is no service.
LEMMA ServiceStepForeign ==
  ASSUME Typed, Foreign, NEW c \in Commands, ServiceStep(c)
  PROVE  Foreign' /\ upset \subseteq upset'
<1>1. PICK v \in Services :
           \/ At(c, "check", v) /\ CheckService(c)
           \/ At(c, "stale", v) /\ CheckStale(c)
           \/ At(c, "remove", v) /\ RemovePid(c)
           \/ At(c, "spawn", v) /\ Spawn(c)
           \/ At(c, "truncate", v) /\ TruncatePid(c)
           \/ At(c, "write", v) /\ WritePid(c)
           \/ At(c, "find", v) /\ FindPid(c)
           \/ At(c, "terminate", v) /\ Terminate(c)
  BY ServiceStepAt
<1>2. DOMAIN proc = Pids /\ None \notin Pids /\ \A p \in Pids : DOMAIN proc[p] = DOMAIN NoProcess
  BY ControlAssumption DEF Typed, TypeOK, Shape
<1>3. CASE At(c, "spawn", v) /\ Spawn(c)
  <2>1. hit' = hit
    BY <1>3, SpawnTurn
  <2>2. PICK p \in Pids :
          /\ proc[p] = NoProcess
          /\ proc' = [proc EXCEPT ![p] = [Process(v, Configured)
                            EXCEPT !.state = IF v = "engine" THEN "new" ELSE "up"]]
          /\ Servicing(c)' => cmd'[c].pid = p
          /\ upset' = upset \cup {"beside" : q \in {q \in {pidfile[v]} : Alive(q)}}
                            \cup {"reused" : u \in {u \in Services : pidfile[u] = p}}
    BY <1>3, SpawnTurn
  <2>3. proc'[p].kind = v /\ v # "foreign" /\ \A q \in Pids \ {p} : proc'[q] = proc[q]
    BY <1>2, <2>2 DEF Process, Services
  <2>4. \A q \in Pids : Alive(q)' /\ proc'[q].kind = "foreign" =>
          Alive(q) /\ proc[q].kind = "foreign"
    BY <2>3, AliveIs, AliveIsThen
  <2>5. upset \subseteq upset'
    BY <2>2
  <2> QED BY <2>1, <2>4, <2>5 DEF Foreign
<1>4. CASE At(c, "terminate", v) /\ Terminate(c)
  <2>1. PICK p \in Pids \cup {None} : p = cmd[c].pid
    BY TypedCommand
  <2>2. /\ proc' = proc \/ (Alive(p) /\ proc' = [proc EXCEPT ![p].state = "stopping"])
        /\ hit' = hit \/ hit' = (hit \/ (Alive(p) /\ proc[p].kind = "foreign"))
        /\ upset \subseteq upset'
    BY <1>4, <2>1, TerminateTurn DEF Signals, Fails
  <2>3. Alive(p) => p \in Pids
    BY DEF Alive
  <2>4. hit' => "reused" \in upset'
    BY <2>2, <2>3 DEF Foreign
  <2>5. ASSUME NEW q \in Pids, Alive(q)', proc'[q].kind = "foreign"
        PROVE  "reused" \in upset'
    <3>1. CASE Alive(p) /\ q = p /\ proc' = [proc EXCEPT ![p].state = "stopping"]
      <4>1. proc'[q] = [proc[q] EXCEPT !.state = "stopping"]
        BY <1>2, <3>1
      <4>2. proc[q].kind = "foreign"
        BY <1>2, <2>5, <4>1 DEF NoProcess, Process
      <4> QED BY <2>2, <3>1, <4>2 DEF Foreign
    <3>2. CASE ~(Alive(p) /\ q = p /\ proc' = [proc EXCEPT ![p].state = "stopping"])
      <4>1. proc'[q] = proc[q]
        BY <1>2, <2>2, <3>2
      <4>2. Alive(q)
        BY <2>5, <4>1, AliveIs, AliveIsThen
      <4> QED BY <2>2, <2>5, <4>1, <4>2 DEF Foreign
    <3> QED BY <3>1, <3>2
  <2> QED BY <2>2, <2>4, <2>5 DEF Foreign
<1>5. CASE ~(Spawn(c) \/ Terminate(c))
  <2>1. UNCHANGED <<proc, hit, upset>>
    BY <1>1, <1>5 DEF CheckService, CheckStale, RemovePid, TruncatePid, WritePid, FindPid, services,
       ghosts
  <2> QED BY <2>1 DEF Foreign, Alive
<1>6. Spawn(c) => At(c, "spawn", v) /\ Spawn(c)
  <2>1. ASSUME Spawn(c)
        PROVE  \E u \in Services : At(c, "spawn", u)
    BY <2>1 DEF Spawn
  <2> QED BY <1>1, <2>1, AtOne
<1>7. Terminate(c) => At(c, "terminate", v) /\ Terminate(c)
  <2>1. ASSUME Terminate(c)
        PROVE  \E u \in Services : At(c, "terminate", u)
    BY <2>1 DEF Terminate
  <2> QED BY <1>1, <2>1, AtOne
<1> QED BY <1>3, <1>4, <1>5, <1>6, <1>7

LEMMA ServiceStepInv ==
  ASSUME Inv, NEW c \in Commands, ServiceStep(c)
  PROVE  Inv'
<1>1. Typed /\ Foreign
  BY DEF Inv, Typed
<1>2. Typed' /\ Turn(c) /\ Foreign' /\ upset \subseteq upset' /\ menu' = menu
  <2>1. menu' = menu
    BY DEF ServiceStep, CheckService, CheckStale, RemovePid, Spawn, TruncatePid, WritePid, FindPid,
       Terminate, Quiet
  <2> QED BY <1>1, <2>1, ServiceStepTyped, ServiceStepForeign
<1>3. ASSUME upset' \cap {"services", "beside", "unstopped"} = {}
      PROVE  Tracked'
  <2>1. Tracked /\ Single
    BY <1>2, <1>3 DEF Inv, Tracked
  <2>2. TrackedFor(c)
    BY <1>1, <1>2, <2>1, TrackedByOne
  <2>3. TrackedFor(c)'
    BY <1>1, <1>2, <1>3, <2>2, ServiceStepTracks
  <2> QED BY <1>1, <1>2, <2>1, <2>3, TrackedByOne
<1>4. ASSUME upset' \cap {"services", "reused"} = {}
      PROVE  Named'
  <2>1. Named /\ Single
    BY <1>2, <1>4 DEF Inv, Named
  <2>2. NamedFor(c)
    BY <1>1, <1>2, <2>1, NamedByOne
  <2>3. NamedFor(c)'
    BY <1>1, <1>2, <1>4, <2>2, ServiceStepNames
  <2> QED BY <1>1, <1>2, <2>1, <2>3, NamedByOne
<1> QED BY <1>2, <1>3, <1>4 DEF Inv, Typed

\* Steps that leave the processes alone and get no command to where it knows something.
LEMMA ProcessesAlone ==
  ASSUME Inv, Typed', UNCHANGED <<pidfile, proc, hit>>, upset \subseteq upset',
         started' => started /\ (NoneAbout("services") => NoneAbout("services")'),
         "services" \notin upset' /\ Single =>
           /\ Still
           /\ \A c \in Commands : Servicing(c) /\ Servicing(c)' /\ cmd'[c].sound => cmd[c].sound
  PROVE  Inv'
<1>1. Typed /\ Foreign'
  BY DEF Inv, Typed, Foreign, Alive
<1>2. Uninvented /\ Survives /\ \A p \in Pids, v \in Services : Serves(p, v)' => Serves(p, v)
  BY DEF Uninvented, Survives, Serves, Is, Alive
<1>3. ASSUME upset' \cap {"services", "beside", "unstopped"} = {}
      PROVE  Tracked'
  <2>1. Tracked /\ Single /\ Still
    BY <1>3 DEF Inv, Tracked
  <2> QED BY <1>2, <2>1, TrackedWhenStill
<1>4. ASSUME upset' \cap {"services", "reused"} = {}
      PROVE  Named'
  <2>1. /\ Named /\ Single /\ Still
        /\ \A c \in Commands : Servicing(c) /\ Servicing(c)' /\ cmd'[c].sound => cmd[c].sound
    BY <1>4 DEF Inv, Named
  <2> QED BY <1>1, <1>2, <2>1, NamedWhenStill
<1> QED BY <1>1, <1>3, <1>4 DEF Inv, Typed

LEMMA OtherStepInv ==
  ASSUME Inv, NEW c \in Commands, OtherStep(c)
  PROVE  Inv'
<1>1. Typed
  BY DEF Inv, Typed
<1>2. Typed' /\ OtherTurn(c) /\ UNCHANGED <<pidfile, proc, started, hit, upset>>
  BY <1>1, OtherStepTyped, OtherStepTurns DEF services
<1>3. \A d \in Commands : Servicing(d)' <=> Servicing(d)
  BY <1>2 DEF OtherTurn, Servicing
<1>4. Single => Single'
  BY <1>3 DEF Single
<1>5. ASSUME NEW d \in Commands, NEW step \in Telling
      PROVE  /\ At(d, step[1], step[2])' <=> At(d, step[1], step[2])
             /\ At(d, step[1], step[2]) => cmd'[d].pid = cmd[d].pid /\ cmd'[d] # Idle
  <2>1. step[1] \in ServiceOps /\ step[2] \in Services
    BY TellingIsService
  <2>2. CASE d = c
    <3>1. ~At(c, step[1], step[2])
      BY <1>1, <1>2, <2>1, ElsewhereNotAt, TypedCommand DEF OtherTurn
    <3>2. ~At(c, step[1], step[2])'
      BY <1>2, <2>1, ElsewhereNotAtThen DEF OtherTurn
    <3> QED BY <2>2, <3>1, <3>2
  <2>3. CASE d # c
    <3>1. cmd'[d] = cmd[d]
      BY <1>2, <2>3 DEF OtherTurn
    <3>2. At(d, step[1], step[2]) => cmd[d] # Idle
      BY <1>1, TypedCommand, IdlePlanned
    <3> QED BY <3>1, <3>2 DEF At
  <2> QED BY <2>2, <2>3
<1>6. Single => Still
  BY <1>2, <1>4, <1>5 DEF Still
<1>7. started' => started /\ (NoneAbout("services") => NoneAbout("services")')
  BY <1>2, <1>3 DEF NoneAbout, Servicing
<1>8. \A d \in Commands : Servicing(d) /\ Servicing(d)' /\ cmd'[d].sound => cmd[d].sound
  BY <1>2 DEF OtherTurn
<1> QED BY <1>2, <1>6, <1>7, <1>8, ProcessesAlone

LEMMA RunInv ==
  ASSUME Inv, NEW c \in Commands, NEW request \in menu.requests, Run(c, request)
  PROVE  Inv'
<1>1. Typed
  BY DEF Inv, Typed
<1>2. /\ Typed' /\ \A d \in Commands \ {c} : cmd'[d] = cmd[d]
      /\ Planned(c)' /\ ~Servicing(c) /\ (Servicing(c)' <=> About(request) = "services")
      /\ Servicing(c)' => Goes(c, {<<"find", "engine">>, <<"check", "engine">>})
  BY <1>1, RunTyped, RunTurn
<1>3. /\ UNCHANGED <<pidfile, proc, hit>> /\ cmd[c] = Idle
      /\ started' = (started /\ About(request) # "services")
      /\ upset' = upset \cup
           {About(request) : d \in {d \in Commands : /\ cmd[d] # Idle
                                                     /\ About(cmd[d].request) = About(request)}}
  BY DEF Run, services
<1>4. \A d \in Commands \ {c} : Servicing(d)' <=> Servicing(d)
  BY <1>2 DEF Servicing
<1>5. "services" \notin upset' /\ About(request) = "services" => \A d \in Commands : ~Servicing(d)
  BY <1>3 DEF Servicing
<1>6. "services" \notin upset' /\ Single => Single'
  BY <1>2, <1>4, <1>5 DEF Single
<1>7. ASSUME NEW d \in Commands, NEW step \in Telling
      PROVE  /\ At(d, step[1], step[2])' <=> At(d, step[1], step[2])
             /\ At(d, step[1], step[2]) => cmd'[d].pid = cmd[d].pid /\ cmd'[d] # Idle
  <2>1. step[1] \in ServiceOps /\ step[2] \in Services
    BY TellingIsService
  <2>2. CASE d = c
    <3>1. ~At(c, step[1], step[2])
      BY <1>3, IdlePlanned
    <3>2. CASE Servicing(c)'
      <4>1. <<step[1], step[2]>> \notin {<<"find", "engine">>, <<"check", "engine">>}
        BY DEF Telling
      <4> QED BY <1>2, <2>2, <3>1, <3>2, <4>1 DEF Goes
    <3>3. CASE ~Servicing(c)'
      BY <1>2, <2>1, <2>2, <3>1, <3>3, ElsewhereNotAtThen
    <3> QED BY <3>2, <3>3
  <2>3. CASE d # c
    <3>1. cmd'[d] = cmd[d]
      BY <1>2, <2>3
    <3>2. At(d, step[1], step[2]) => cmd[d] # Idle
      BY IdlePlanned
    <3> QED BY <3>1, <3>2 DEF At
  <2> QED BY <2>2, <2>3
<1>8. "services" \notin upset' /\ Single => Still
  BY <1>3, <1>6, <1>7 DEF Still
<1>9. started' => started /\ (NoneAbout("services") => NoneAbout("services")')
  <2> SUFFICES ASSUME started', \A d \in Commands : ~Servicing(d)
               PROVE  started /\ \A d \in Commands : ~Servicing(d)'
    BY <1>3 DEF NoneAbout, Servicing
  <2>1. started /\ ~Servicing(c)'
    BY <1>2, <1>3
  <2> QED BY <1>4, <2>1
<1>10. \A d \in Commands : Servicing(d) /\ Servicing(d)' /\ cmd'[d].sound => cmd[d].sound
  BY <1>2
<1>11. upset \subseteq upset'
  BY <1>3
<1> QED BY <1>2, <1>3, <1>8, <1>9, <1>10, <1>11, ProcessesAlone

LEMMA CutInv ==
  ASSUME Inv, NEW c \in Commands, CutShort(c)
  PROVE  Inv'
<1>1. Typed
  BY DEF Inv, Typed
<1>2. /\ Typed' /\ \A d \in Commands \ {c} : cmd'[d] = cmd[d]
      /\ cmd'[c] = Idle /\ \A op, v : ~At(c, op, v)'
  BY <1>1, CutTyped, CutTurn
<1>3. /\ UNCHANGED <<pidfile, proc, hit, started>> /\ cmd[c] # Idle /\ upset \subseteq upset'
      /\ About(cmd[c].request) = "services" => "services" \in upset'
  BY DEF CutShort, services
<1>4. \A d \in Commands : Servicing(d)' => Servicing(d)
  BY <1>2 DEF Servicing
<1>5. "services" \notin upset' => ~Servicing(c)
  BY <1>3 DEF Servicing
<1>6. Single => Single'
  BY <1>4 DEF Single
<1>7. ASSUME "services" \notin upset', NEW d \in Commands, NEW step \in Telling
      PROVE  /\ At(d, step[1], step[2])' <=> At(d, step[1], step[2])
             /\ At(d, step[1], step[2]) => cmd'[d].pid = cmd[d].pid /\ cmd'[d] # Idle
  <2>1. step[1] \in ServiceOps /\ step[2] \in Services
    BY TellingIsService
  <2>2. CASE d = c
    BY <1>1, <1>2, <1>5, <1>7, <2>1, <2>2, ElsewhereNotAt, TypedCommand
  <2>3. CASE d # c
    <3>1. cmd'[d] = cmd[d]
      BY <1>2, <2>3
    <3>2. At(d, step[1], step[2]) => cmd[d] # Idle
      BY IdlePlanned
    <3> QED BY <3>1, <3>2 DEF At
  <2> QED BY <2>2, <2>3
<1>8. "services" \notin upset' /\ Single => Still
  BY <1>3, <1>6, <1>7 DEF Still
<1>9. started' => started /\ (NoneAbout("services") => NoneAbout("services")')
  BY <1>3, <1>4 DEF NoneAbout, Servicing
<1>10. \A d \in Commands : Servicing(d) /\ Servicing(d)' /\ cmd'[d].sound => cmd[d].sound
  BY <1>2 DEF Servicing
<1> QED BY <1>2, <1>3, <1>8, <1>9, <1>10, ProcessesAlone

\* A process ends, goes on being what it is, or (Reuse) is none of the services.
Becomes(p, x) ==
  /\ proc' = [proc EXCEPT ![p] = x]
  /\ \/ x = NoProcess /\ (GiveUp(p) \/ Crash(p) \/ (Alive(p) /\ proc[p].state = "stopping"))
     \/ x # NoProcess /\ Reuse(p) /\ x.kind = "foreign"
     \/ /\ x # NoProcess /\ Alive(p) /\ x.kind = proc[p].kind
        /\ x.state = proc[p].state \/ (x.state = "up" /\ proc[p].state = "new")

LEMMA ProcessBecomes ==
  ASSUME Typed, NEW p \in Pids, ProcessStep(p)
  PROVE  \E x : Becomes(p, x)
<1>1. /\ DOMAIN proc = Pids /\ Proper(proc[p])
      /\ \A kind, state : Is(p, kind, state) <=>
           proc[p] # NoProcess /\ proc[p].kind = kind /\ proc[p].state = state
  BY ProcessAt
<1>2. CASE Bind(p)
  <2> DEFINE x == [proc[p] EXCEPT !.state = "up"]
  <2>1. Is(p, "engine", "new") /\ proc' = [proc EXCEPT ![p] = x]
    BY <1>1, <1>2 DEF Bind
  <2>2. /\ x.state = "up" /\ x.kind = proc[p].kind /\ x # NoProcess
        /\ proc[p].state = "new" /\ Alive(p)
    BY <1>1, <2>1, AliveIs DEF Proper, NoProcess, Process
  <2> HIDE DEF x
  <2>3. Becomes(p, x)
    BY <2>1, <2>2 DEF Becomes
  <2> QED BY <2>3
<1>3. CASE GiveUp(p) \/ Crash(p) \/ Exit(p)
  <2>1. proc' = [proc EXCEPT ![p] = NoProcess]
    BY <1>3 DEF GiveUp, Crash, Exit, Dies
  <2>2. Exit(p) => Alive(p) /\ proc[p].state = "stopping"
    BY DEF Exit, Is
  <2>3. Becomes(p, NoProcess)
    BY <1>3, <2>1, <2>2 DEF Becomes
  <2> QED BY <2>3
<1>4. CASE Reuse(p)
  <2> DEFINE x == Process("foreign", None)
  <2>1. proc' = [proc EXCEPT ![p] = x]
    BY <1>4 DEF Reuse
  <2>2. x # NoProcess /\ x.kind = "foreign"
    BY DEF NoProcess, Process
  <2> HIDE DEF x
  <2>3. Becomes(p, x)
    BY <1>4, <2>1, <2>2 DEF Becomes
  <2> QED BY <2>3
<1>5. CASE Flush(p) \/ ProcessPath(p) \/ \E f \in SourceFiles : Notice(p, f)
  <2>1. Working(p) /\ proc[p] # NoProcess
    BY <1>5, WatcherWorks
  <2>2. PICK x : /\ proc' = [proc EXCEPT ![p] = x]
                 /\ x # NoProcess /\ x.kind = proc[p].kind /\ x.state = proc[p].state
    BY <2>1 DEF Working
  <2>3. Becomes(p, x)
    BY <2>1, <2>2, AliveIs DEF Becomes
  <2> QED BY <2>3
<1> QED BY <1>2, <1>3, <1>4, <1>5 DEF ProcessStep

LEMMA ProcessStepInv ==
  ASSUME Inv, NEW p \in Pids, ProcessStep(p)
  PROVE  Inv'
<1>1. Typed /\ Typed'
  BY ProcessStepTyped DEF Inv, Typed
<1>2. PICK x : Becomes(p, x)
  BY <1>1, ProcessBecomes
<1>3. /\ DOMAIN proc = Pids /\ proc'[p] = x /\ \A q \in Pids \ {p} : proc'[q] = proc[q]
  BY <1>1, <1>2, ProcessAt DEF Becomes
<1>4. \A q \in Pids, v \in Services : Serves(q, v)' => Serves(q, v)
  <2> SUFFICES ASSUME NEW q \in Pids, NEW v \in Services, Serves(q, v)'
               PROVE  Serves(q, v)
    OBVIOUS
  <2>1. CASE q = p
    <3>1. x # NoProcess /\ x.kind = v /\ x.state \in {"new", "up"}
      BY <1>3, <2>1, AliveIsThen DEF Serves, Is
    <3>2. Alive(p) /\ proc[p].kind = v /\ proc[p].state \in {"new", "up"}
      BY <1>2, <3>1 DEF Becomes, Services
    <3> QED BY <2>1, <3>2 DEF Serves, Is
  <2>2. CASE q # p
    BY <1>3, <2>2, AliveIs, AliveIsThen DEF Serves, Is
  <2> QED BY <2>1, <2>2
<1>5. /\ pidfile' = pidfile /\ hit' = hit /\ upset \subseteq upset' /\ started' \in {started, FALSE}
      /\ Reuse(p) => "reused" \in upset'
  BY ProcessStepTurns, <1>1 DEF ProcessStep, Bind, GiveUp, Crash, Dies, Reuse, Exit, Flush,
     ProcessPath, Notice, Quiet, ghosts
<1>6. \A c \in Commands :
        /\ (Servicing(c)' <=> Servicing(c)) /\ cmd'[c].pid = cmd[c].pid
        /\ cmd'[c].sound # cmd[c].sound => GiveUp(p) \/ Crash(p)
        /\ \A op, v : At(c, op, v)' <=> At(c, op, v)
  BY <1>1, ProcessStepTurns
<1>7. Single => Still
  <2>1. Single => Single'
    BY <1>6 DEF Single
  <2>2. \A c \in Commands : \A op, v : At(c, op, v)' => cmd'[c] # Idle
    BY DEF At, Idle
  <2> QED BY <1>5, <1>6, <2>1, <2>2 DEF Still
<1>8. Foreign'
  <2>1. hit' => "reused" \in upset'
    BY <1>5 DEF Inv, Foreign
  <2>2. ASSUME NEW q \in Pids, Alive(q)', proc'[q].kind = "foreign"
        PROVE  "reused" \in upset'
    <3>1. CASE q = p
      <4>1. x # NoProcess /\ x.kind = "foreign"
        BY <1>3, <2>2, <3>1, AliveIsThen
      <4>2. Reuse(p) \/ (Alive(p) /\ proc[p].kind = "foreign")
        BY <1>2, <4>1 DEF Becomes
      <4> QED BY <1>5, <4>2 DEF Inv, Foreign
    <3>2. CASE q # p
      BY <1>3, <1>5, <2>2, <3>2, AliveIs, AliveIsThen DEF Inv, Foreign
    <3> QED BY <3>1, <3>2
  <2> QED BY <2>1, <2>2 DEF Foreign
<1>9. ASSUME upset' \cap {"services", "beside", "unstopped"} = {}
      PROVE  Tracked'
  <2>1. Tracked /\ Still
    BY <1>5, <1>7, <1>9 DEF Inv, Tracked
  <2> QED BY <1>4, <2>1, TrackedWhenStill
<1>10. ASSUME upset' \cap {"services", "reused"} = {}
       PROVE  Named'
  <2>1. Named /\ Still /\ ~Reuse(p)
    BY <1>5, <1>7, <1>10 DEF Inv, Named
  <2>2. Uninvented
    <3> SUFFICES ASSUME NEW q \in Pids, Alive(q)'
                 PROVE  /\ Alive(q) /\ proc'[q].kind = proc[q].kind
                        /\ proc'[q].state = "stopping" => proc[q].state = "stopping"
      BY DEF Uninvented
    <3>1. CASE q = p
      <4>1. x # NoProcess
        BY <1>3, <3>1, AliveIsThen
      <4> QED BY <1>2, <1>3, <2>1, <3>1, <4>1 DEF Becomes
    <3>2. CASE q # p
      BY <1>3, <3>2, AliveIs, AliveIsThen
    <3> QED BY <3>1, <3>2
  <2>3. Survives
    <3>1. CASE GiveUp(p) \/ Crash(p)
      <4>1. \E reason : Dies(p, reason)
        BY <3>1 DEF GiveUp, Crash
      <4>2. ~started'
        BY <4>1 DEF Dies
      <4>3. \A c \in Commands : cmd'[c] # Idle => ~cmd'[c].sound
        BY <1>1, <4>1, DiesTurn
      <4> QED BY <4>2, <4>3 DEF Survives
    <3>2. CASE ~(GiveUp(p) \/ Crash(p))
      <4> SUFFICES ASSUME NEW q \in Pids, Alive(q), proc[q].state # "stopping"
                   PROVE  Alive(q)'
        BY DEF Survives
      <4>1. CASE q = p
        <5>1. x # NoProcess
          BY <1>2, <3>2, <4>1 DEF Becomes
        <5> QED BY <1>3, <4>1, <5>1, AliveIsThen
      <4>2. CASE q # p
        BY <1>3, <4>2, AliveIs, AliveIsThen
      <4> QED BY <4>1, <4>2
    <3> QED BY <3>1, <3>2
  <2>4. \A c \in Commands : Servicing(c) /\ Servicing(c)' /\ cmd'[c].sound => cmd[c].sound
    <3> SUFFICES ASSUME NEW c \in Commands, Servicing(c)', cmd'[c].sound
                 PROVE  cmd[c].sound
      OBVIOUS
    <3>1. CASE GiveUp(p) \/ Crash(p)
      <4>1. \E reason : Dies(p, reason)
        BY <3>1 DEF GiveUp, Crash
      <4>2. cmd'[c] # Idle
        BY DEF Servicing
      <4> QED BY <1>1, <4>1, <4>2, DiesTurn
    <3>2. CASE ~(GiveUp(p) \/ Crash(p))
      BY <1>6, <3>2
    <3> QED BY <3>1, <3>2
  <2>5. started' => started /\ (NoneAbout("services") => NoneAbout("services")')
    <3>1. NoneAbout("services") => NoneAbout("services")'
      BY <1>6 DEF NoneAbout, Servicing
    <3> QED BY <1>5, <3>1
  <2> QED BY <1>1, <2>1, <2>2, <2>3, <2>4, <2>5, NamedWhenStill
<1> QED BY <1>1, <1>8, <1>9, <1>10 DEF Inv, Typed

\* At the start no command runs; the services run, or none does.
LEMMA InitInv ==
  ASSUME Init
  PROVE  Inv
<1>1. Typed
  BY TypedInit
<1>2. \A c \in Commands : ~Servicing(c) /\ \A op, v : ~At(c, op, v)
  BY IdlePlanned DEF Init
<1>3. Single /\ \A c \in Commands, v \in Services : ~Launched(c, v)
  BY <1>2 DEF Single, Launched
<1>4. PICK start \in menu.starts, e \in Pids, w \in Pids :
        /\ e # w
        /\ pidfile = IF start.running THEN [v \in Services |-> IF v = "engine" THEN e ELSE w]
                                      ELSE [v \in Services |-> None]
        /\ proc = [p \in Pids |->
                 IF ~ start.running \/ p \notin {e, w} THEN NoProcess
                 ELSE Process(IF p = e THEN "engine" ELSE "watcher",
                              Merge(start.base, start.local.roots))]
  BY DEF Init
<1>5. \A p \in Pids : Alive(p) =>
        /\ start.running /\ p \in {e, w} /\ proc[p].state = "up"
        /\ proc[p].kind = IF p = e THEN "engine" ELSE "watcher"
  BY <1>4, AliveIs DEF Process
<1>6. None \notin Pids
  BY ControlAssumption
<1>7. \A p \in Pids, v \in Services :
        /\ Alive(p) /\ proc[p].kind = v => pidfile[v] = p
        /\ Alive(p) /\ pidfile[v] = p => proc[p].kind = v
  BY <1>4, <1>5, <1>6 DEF Services
<1>8. Foreign
  BY <1>5 DEF Init, Foreign
<1>9. Tracked
  BY <1>2, <1>3, <1>7, ServesIs DEF Tracked
<1>10. Named
  <2>1. \A v \in Services, p \in Pids : pidfile[v] = p /\ Alive(p) =>
          proc[p].kind = v /\ proc[p].state # "stopping"
    BY <1>5, <1>7
  <2>2. ~started
    BY DEF Init
  <2>3. \A c \in Commands : ~Launched(c, "watcher")
    BY <1>3 DEF Services
  <2> QED BY <1>2, <1>3, <2>1, <2>2, <2>3 DEF Named
<1> QED BY <1>1, <1>8, <1>9, <1>10 DEF Inv, Typed

LEMMA StillInv ==
  ASSUME Inv, UNCHANGED vars
  PROVE  Inv'
<1>1. Typed'
  BY StillTyped DEF Inv, Typed
<1>2. UNCHANGED <<pidfile, proc, hit, upset, started, cmd>>
  BY DEF vars, services, ghosts
<1>3. \A c \in Commands : \A op, v : /\ At(c, op, v)' <=> At(c, op, v)
                                     /\ At(c, op, v) => cmd[c] # Idle
  BY <1>2 DEF At, Idle
<1>4. Single => Still
  BY <1>2, <1>3 DEF Still, Single, Servicing
<1>5. started' => started /\ (NoneAbout("services") => NoneAbout("services")')
  BY <1>2 DEF NoneAbout
<1> QED BY <1>1, <1>2, <1>4, <1>5, ProcessesAlone

LEMMA NextInv ==
  ASSUME Inv, [Next]_vars
  PROVE  Inv'
<1>1. ASSUME NEW c \in Commands,
             \/ \E request \in menu.requests : Run(c, request)
             \/ ServiceStep(c) \/ OtherStep(c) \/ CutShort(c)
      PROVE  Inv'
  BY <1>1, RunInv, ServiceStepInv, OtherStepInv, CutInv
<1>2. CASE UNCHANGED vars
  BY <1>2, StillInv
<1>3. CASE Next
  BY <1>1, <1>3, StepSplits, ProcessStepInv
<1> QED BY <1>2, <1>3

LEMMA InvTracks ==
  ASSUME Inv
  PROVE  ServicesAreTracked
<1>1. Typed
  BY DEF Inv, Typed
<1>2. ASSUME NoneAbout("services"), upset \cap {"services", "beside", "unstopped"} = {},
             NEW p \in Pids, NEW v \in Services, Is(p, v, "new") \/ Is(p, v, "up")
      PROVE  pidfile[v] = p
  <2>1. \A c \in Commands : ~Servicing(c) /\ Planned(c)
    BY <1>1, <1>2, TypedCommand DEF NoneAbout, Servicing
  <2>2. \A c \in Commands : ~Launched(c, v)
    BY <2>1, ElsewhereNotAt, ServiceOpsAre DEF Launched
  <2> QED BY <1>2, <2>2 DEF Inv, Tracked, Serves
<1>3. ASSUME NoneAbout("services"), started, upset \cap {"services", "reused"} = {},
             NEW v \in Services
      PROVE  Is(pidfile[v], v, "new") \/ Is(pidfile[v], v, "up")
  <2>1. Named
    BY <1>3 DEF Inv
  <2>2. PICK p \in Pids : pidfile[v] = p /\ Alive(p)
    BY <1>3, <2>1 DEF Named, There
  <2>3. \A c \in Commands : ~At(c, "remove", v)
    BY <1>1, <1>3, TypedCommand, ElsewhereNotAt, ServiceOpsAre DEF NoneAbout, Servicing
  <2>4. proc[p].kind = v /\ proc[p].state # "stopping"
    BY <2>1, <2>2, <2>3 DEF Named
  <2>5. proc[p].state \in {"new", "up", "stopping"}
    BY <1>1, <2>2 DEF Typed, TypeOK
  <2> QED BY <2>2, <2>4, <2>5 DEF Is
<1> QED BY <1>2, <1>3 DEF Inv, Foreign, ServicesAreTracked

(***************************************************************************)
(* Between the commands, stop finds every service that runs (unless        *)
(* commands overlapped or were cut short, one was launched beside another, *)
(* or an earlier stop could not signal it); after a start both run (unless *)
(* one has died or been refused the port since); and stop signals what is  *)
(* no service only by a number that was used again.  However many          *)
(* commands, services and failures.                                        *)
(***************************************************************************)
THEOREM ServicesTracked == Spec => []ServicesAreTracked
<1>1. Init => Inv
  BY InitInv
<1>2. Inv /\ [Next]_vars => Inv'
  BY NextInv
<1>3. Inv => ServicesAreTracked
  BY InvTracks
<1> QED BY <1>1, <1>2, <1>3, PTL DEF Spec

-----------------------------------------------------------------------------
(***************************************************************************)
(* Lists, and what is made of them one element after the other.            *)
(***************************************************************************)
\* Induction, with a set for the property.
LEMMA Induction ==
  ASSUME NEW I \in SUBSET Nat, 0 \in I, \A k \in I : k + 1 \in I
  PROVE  I = Nat
<1> SUFFICES ASSUME Nat \ I # {}
             PROVE  FALSE
  OBVIOUS
<1> DEFINE R == OpToRel(<, Nat)
           T == Nat \ I
<1>1. PICK x \in T : \A y \in T : ~ (<<y, x>> \in R)
  <2>1. T \subseteq Nat /\ T # {} /\ IsWellFoundedOn(R, Nat)
    BY NatLessThanWellFounded
  <2> HIDE DEF R, T
  <2> QED BY <2>1, WFMin
<1>2. x \in Nat /\ x # 0
  OBVIOUS
<1>3. x - 1 \in Nat /\ x - 1 < x /\ (x - 1) + 1 = x
  BY <1>2
<1>4. <<x - 1, x>> \in R
  BY <1>2, <1>3 DEF OpToRel
<1>5. x - 1 \in I
  BY <1>1, <1>3, <1>4
<1> QED BY <1>3, <1>5

\* No list, as a name: what starts a combination is any value to the provers.
Nothing == <<>>

Combine(how, arg, value, x) ==
  CASE how = "left"   -> IF MatchesTarget(x, arg) THEN value ELSE Append(value, x)
    [] how = "kept"   -> Keep(value, x)
    [] how = "change" -> Change(value, x)

\* f gives what there is after each of the first n elements of xs.
Combines(f, how, arg, start, xs, n) ==
  f = [i \in 0 .. n |-> IF i = 0 THEN start ELSE Combine(how, arg, f[i - 1], xs[i])]

\* There is one such function,
LEMMA CombinesExists ==
  ASSUME NEW how, NEW arg, NEW start, NEW xs, NEW n \in Nat
  PROVE  \E f : Combines(f, how, arg, start, xs, n)
<1> DEFINE I == {i \in Nat : \E f : Combines(f, how, arg, start, xs, i)}
<1>1. 0 \in I
  <2>1. Combines([i \in 0 .. 0 |-> start], how, arg, start, xs, 0)
    BY DEF Combines
  <2> QED BY <2>1
<1>2. ASSUME NEW i \in I
      PROVE  i + 1 \in I
  <2>1. PICK f : Combines(f, how, arg, start, xs, i)
    OBVIOUS
  <2> DEFINE g == [j \in 0 .. i + 1 |-> IF j = i + 1 THEN Combine(how, arg, f[i], xs[i + 1]) ELSE f[j]]
  <2>2. \A j \in 0 .. i : f[j] = IF j = 0 THEN start ELSE Combine(how, arg, f[j - 1], xs[j])
    BY <2>1 DEF Combines
  <2>3. \A j \in 0 .. i + 1 : g[j] = IF j = 0 THEN start ELSE Combine(how, arg, g[j - 1], xs[j])
    <3> SUFFICES ASSUME NEW j \in 0 .. i + 1
                 PROVE  g[j] = IF j = 0 THEN start ELSE Combine(how, arg, g[j - 1], xs[j])
      OBVIOUS
    <3>1. CASE j = i + 1
      BY <3>1
    <3>2. CASE j # i + 1
      <4>1. j \in 0 .. i /\ (j # 0 => j - 1 \in 0 .. i)
        BY <3>2
      <4>2. g[j] = f[j] /\ (j # 0 => g[j - 1] = f[j - 1])
        BY <3>2, <4>1
      <4> QED BY <2>2, <4>1, <4>2
    <3> QED BY <3>1, <3>2
  <2>4. Combines(g, how, arg, start, xs, i + 1)
    <3>1. g = [j \in 0 .. i + 1 |-> g[j]]
      OBVIOUS
    <3> HIDE DEF g
    <3> QED BY <2>3, <3>1 DEF Combines
  <2> QED BY <2>4
<1>3. I = Nat
  <2> HIDE DEF I
  <2>1. I \in SUBSET Nat
    BY DEF I
  <2> QED BY <1>1, <1>2, <2>1, Induction
<1> QED BY <1>3

\* and it depends on the elements it has met only.
LEMMA CombinesOnce ==
  ASSUME NEW how, NEW arg, NEW start, NEW xs, NEW ys, NEW j \in Nat, NEW k \in Nat, NEW f, NEW g,
         Combines(f, how, arg, start, xs, j), Combines(g, how, arg, start, ys, k),
         \A i \in Nat \ {0} : i <= j /\ i <= k => xs[i] = ys[i]
  PROVE  \A i \in Nat : i <= j /\ i <= k => f[i] = g[i]
<1> DEFINE I == {i \in Nat : i <= j /\ i <= k => f[i] = g[i]}
<1>1. /\ \A i \in 0 .. j : f[i] = IF i = 0 THEN start ELSE Combine(how, arg, f[i - 1], xs[i])
      /\ \A i \in 0 .. k : g[i] = IF i = 0 THEN start ELSE Combine(how, arg, g[i - 1], ys[i])
  BY DEF Combines
<1>2. 0 \in I
  <2>1. 0 \in 0 .. j /\ 0 \in 0 .. k
    OBVIOUS
  <2>2. f[0] = start /\ g[0] = start
    BY <1>1, <2>1
  <2> QED BY <2>2
<1>3. ASSUME NEW i \in I
      PROVE  i + 1 \in I
  <2> SUFFICES ASSUME i + 1 <= j, i + 1 <= k
               PROVE  f[i + 1] = g[i + 1]
    OBVIOUS
  <2>1. i \in Nat /\ f[i] = g[i] /\ i + 1 # 0 /\ (i + 1) - 1 = i
    OBVIOUS
  <2>2. i + 1 \in 0 .. j /\ i + 1 \in 0 .. k /\ xs[i + 1] = ys[i + 1]
    BY <2>1
  <2> QED BY <1>1, <2>1, <2>2
<1>4. I = Nat
  <2> HIDE DEF I
  <2>1. I \in SUBSET Nat
    BY DEF I
  <2> QED BY <1>2, <1>3, <2>1, Induction
<1> QED BY <1>4

\* What is combined of the first n elements.
Combined(how, arg, start, xs, n) ==
  (CHOOSE f : Combines(f, how, arg, start, xs, n))[n]

LEMMA CombinedStart ==
  ASSUME NEW how, NEW arg, NEW start, NEW xs
  PROVE  Combined(how, arg, start, xs, 0) = start
<1>1. Combines(CHOOSE f : Combines(f, how, arg, start, xs, 0), how, arg, start, xs, 0)
  BY CombinesExists
<1> QED BY <1>1 DEF Combined, Combines

LEMMA CombinedStep ==
  ASSUME NEW how, NEW arg, NEW start, NEW xs, NEW n \in Nat, NEW k \in Nat, k = n + 1
  PROVE  Combined(how, arg, start, xs, k) =
           Combine(how, arg, Combined(how, arg, start, xs, n), xs[k])
<1> DEFINE f == CHOOSE h : Combines(h, how, arg, start, xs, n)
           g == CHOOSE h : Combines(h, how, arg, start, xs, k)
<1>1. Combines(f, how, arg, start, xs, n) /\ Combines(g, how, arg, start, xs, k)
  BY CombinesExists
<1>2. Combined(how, arg, start, xs, n) = f[n] /\ Combined(how, arg, start, xs, k) = g[k]
  BY DEF Combined
<1> HIDE DEF f, g
<1>3. g[n] = f[n]
  BY <1>1, CombinesOnce
<1>4. g[k] = Combine(how, arg, g[n], xs[k])
  <2>1. k \in 0 .. k /\ k # 0 /\ k - 1 = n
    OBVIOUS
  <2> QED BY <1>1, <2>1 DEF Combines
<1> QED BY <1>2, <1>3, <1>4

\* Equal elements make equal results.
LEMMA CombinedSame ==
  ASSUME NEW how, NEW arg, NEW start, NEW xs, NEW ys, NEW n \in Nat,
         \A i \in Nat \ {0} : i <= n => xs[i] = ys[i]
  PROVE  Combined(how, arg, start, xs, n) = Combined(how, arg, start, ys, n)
<1> DEFINE f(zs) == CHOOSE h : Combines(h, how, arg, start, zs, n)
<1>1. Combines(f(xs), how, arg, start, xs, n) /\ Combines(f(ys), how, arg, start, ys, n)
  BY CombinesExists
<1>2. Combined(how, arg, start, xs, n) = f(xs)[n] /\ Combined(how, arg, start, ys, n) = f(ys)[n]
  BY DEF Combined
<1> HIDE DEF f
<1> QED BY <1>1, <1>2, CombinesOnce

\* The three functions are such combinations.
LEMMA RemoveRootIs ==
  ASSUME NEW roots, NEW target, Len(Listed(roots)) \in Nat
  PROVE  RemoveRoot(roots, target) =
           Combined("left", target, Nothing, Listed(roots), Len(Listed(roots)))
<1> DEFINE all == Listed(roots)
           n == Len(all)
           Fits(f) == f = [i \in 0 .. n |->
             IF i = 0 THEN <<>>
             ELSE IF MatchesTarget(all[i], target) THEN f[i - 1] ELSE Append(f[i - 1], all[i])]
           g == CHOOSE f : Fits(f)
           h == CHOOSE f : Combines(f, "left", target, Nothing, all, n)
<1>1. \A f : Combines(f, "left", target, Nothing, all, n) <=> Fits(f)
  BY DEF Combines, Combine, Nothing
<1>2. RemoveRoot(roots, target) = g[n]
  BY DEF RemoveRoot
<1>3. Combines(g, "left", target, Nothing, all, n) /\ Combines(h, "left", target, Nothing, all, n)
  <2> HIDE DEF Fits
  <2> QED BY <1>1, CombinesExists
<1>4. Combined("left", target, Nothing, all, n) = h[n]
  BY DEF Combined
<1> HIDE DEF g, h, all
<1>5. g[n] = h[n]
  BY <1>3, CombinesOnce
<1> QED BY <1>2, <1>4, <1>5 DEF all

LEMMA NormalizedRootsIs ==
  ASSUME NEW roots, Len(EffectiveRoots(roots)) \in Nat
  PROVE  NormalizedRoots(roots) =
           Combined("kept", Nothing, Nothing, EffectiveRoots(roots), Len(EffectiveRoots(roots)))
<1> DEFINE all == EffectiveRoots(roots)
           n == Len(all)
           Fits(f) == f = [i \in 0 .. n |-> IF i = 0 THEN <<>> ELSE Keep(f[i - 1], all[i])]
           g == CHOOSE f : Fits(f)
           h == CHOOSE f : Combines(f, "kept", Nothing, Nothing, all, n)
<1>1. \A f : Combines(f, "kept", Nothing, Nothing, all, n) <=> Fits(f)
  BY DEF Combines, Combine, Nothing
<1>2. NormalizedRoots(roots) = g[n]
  BY DEF NormalizedRoots
<1>3. Combines(g, "kept", Nothing, Nothing, all, n) /\ Combines(h, "kept", Nothing, Nothing, all, n)
  <2> HIDE DEF Fits
  <2> QED BY <1>1, CombinesExists
<1>4. Combined("kept", Nothing, Nothing, all, n) = h[n]
  BY DEF Combined
<1> HIDE DEF g, h, all
<1>5. g[n] = h[n]
  BY <1>3, CombinesOnce
<1> QED BY <1>2, <1>4, <1>5 DEF all

\* What the first n requests make of the settings.
Made(file, requests, n) == Combined("change", Nothing, file, requests, n)

LEMMA AfterIs ==
  ASSUME NEW n \in Nat
  PROVE  After(n) = Made(first, performed, n)
<1> DEFINE Fits(f) == f = [i \in 0 .. n |-> IF i = 0 THEN first ELSE Change(f[i - 1], performed[i])]
           g == CHOOSE f : Fits(f)
           h == CHOOSE f : Combines(f, "change", Nothing, first, performed, n)
<1>1. \A f : Combines(f, "change", Nothing, first, performed, n) <=> Fits(f)
  BY DEF Combines, Combine
<1>2. After(n) = g[n]
  BY DEF After
<1>3. /\ Combines(g, "change", Nothing, first, performed, n)
      /\ Combines(h, "change", Nothing, first, performed, n)
  <2> HIDE DEF Fits
  <2> QED BY <1>1, CombinesExists
<1>4. Made(first, performed, n) = h[n]
  BY DEF Combined, Made
<1> HIDE DEF g, h
<1>5. g[n] = h[n]
  BY <1>3, CombinesOnce
<1> QED BY <1>2, <1>4, <1>5

LEMMA MadeStart ==
  ASSUME NEW file, NEW requests
  PROVE  Made(file, requests, 0) = file
BY CombinedStart DEF Made

LEMMA MadeStep ==
  ASSUME NEW file, NEW requests, NEW n \in Nat, NEW k \in Nat, k = n + 1
  PROVE  Made(file, requests, k) = Change(Made(file, requests, n), requests[k])
<1>1. Combined("change", Nothing, file, requests, k) =
        Combine("change", Nothing, Combined("change", Nothing, file, requests, n), requests[k])
  BY CombinedStep
<1> QED BY <1>1 DEF Made, Combine

LEMMA MadeMore ==
  ASSUME NEW S, NEW requests \in Seq(S), NEW request \in S, NEW file
  PROVE  Made(file, Append(requests, request), Len(Append(requests, request))) =
           Change(Made(file, requests, Len(requests)), request)
<1> DEFINE more == Append(requests, request)
           n == Len(requests)
           k == Len(more)
<1>1. /\ n \in Nat /\ k \in Nat /\ k = n + 1
      /\ \A i \in 1 .. n : more[i] = requests[i]
      /\ more[k] = request
  BY AppendProperties, LenProperties
<1> HIDE DEF more, n, k
<1>2. \A i \in Nat \ {0} : i <= n => more[i] = requests[i]
  BY <1>1
<1>3. Made(file, more, n) = Made(file, requests, n)
  BY <1>1, <1>2, CombinedSame DEF Made
<1>4. Made(file, more, k) = Change(Made(file, more, n), more[k])
  BY <1>1, MadeStep
<1> QED BY <1>1, <1>3, <1>4 DEF more, n, k

-----------------------------------------------------------------------------
(***************************************************************************)
(* Paths.                                                                  *)
(***************************************************************************)
\* The first n names of a path.
LEMMA FirstNames ==
  ASSUME NEW S, NEW s \in Seq(S), NEW n \in 0 .. Len(s)
  PROVE  /\ SubSeq(s, 1, n) \in Seq(S) /\ Len(SubSeq(s, 1, n)) = n
         /\ \A i \in 1 .. n : SubSeq(s, 1, n)[i] = s[i]
<1> DEFINE part == SubSeq(s, 1, n)
<1>1. Len(s) \in Nat
  BY LenProperties
<1>2. \A i \in 1 .. n : i \in 1 .. Len(s)
  BY <1>1
<1>3. \A i \in 1 .. n : s[i] \in S
  BY <1>2, ElementOfSeq
<1>4. 1 \in Int /\ n \in Int
  OBVIOUS
<1>5. /\ part \in Seq(S) /\ Len(part) = (IF 1 <= n THEN n - 1 + 1 ELSE 0)
      /\ \A i \in 1 .. n - 1 + 1 : part[i] = s[1 + i - 1]
  BY <1>3, <1>4, SubSeqProperties
<1> HIDE DEF part
<1>6. Len(part) = n /\ \A i \in 1 .. n : part[i] = s[i]
  BY <1>5
<1> QED BY <1>5, <1>6 DEF part

LEMMA StartsWithIs ==
  ASSUME NEW S, NEW p \in Seq(S), NEW q \in Seq(S)
  PROVE  StartsWith(p, q) <=> Len(q) <= Len(p) /\ \A i \in 1 .. Len(q) : p[i] = q[i]
<1>1. Len(p) \in Nat /\ Len(q) \in Nat
  BY LenProperties
<1>2. SUFFICES ASSUME Len(q) <= Len(p)
               PROVE  SubSeq(q, 1, Len(q)) = SubSeq(p, 1, Len(q))
                        <=> \A i \in 1 .. Len(q) : p[i] = q[i]
  BY DEF StartsWith, IsPrefix
<1> DEFINE a == SubSeq(q, 1, Len(q))
           b == SubSeq(p, 1, Len(q))
<1>3. Len(q) \in 0 .. Len(q) /\ Len(q) \in 0 .. Len(p)
  BY <1>1, <1>2
<1>4. /\ a \in Seq(S) /\ Len(a) = Len(q) /\ \A i \in 1 .. Len(q) : a[i] = q[i]
      /\ b \in Seq(S) /\ Len(b) = Len(q) /\ \A i \in 1 .. Len(q) : b[i] = p[i]
  BY <1>3, FirstNames
<1> HIDE DEF a, b
<1>5. ASSUME \A i \in 1 .. Len(q) : p[i] = q[i]
      PROVE  a = b
  BY <1>4, <1>5, SeqEqual
<1>6. ASSUME a = b
      PROVE  \A i \in 1 .. Len(q) : p[i] = q[i]
  BY <1>4, <1>6
<1> QED BY <1>5, <1>6 DEF a, b

\* What is below a prefix.
LEMMA BelowIs ==
  ASSUME NEW S, NEW p \in Seq(S), NEW q \in Seq(S), StartsWith(p, q)
  PROVE  /\ Below(p, q) \in Seq(S) /\ Len(Below(p, q)) = Len(p) - Len(q)
         /\ \A i \in 1 .. Len(p) - Len(q) : Below(p, q)[i] = p[Len(q) + i]
         /\ q \o Below(p, q) = p
<1> DEFINE m == Len(q)
           n == Len(p)
           b == Below(p, q)
<1>1. m \in Nat /\ n \in Nat /\ m <= n /\ \A i \in 1 .. m : p[i] = q[i]
  BY StartsWithIs, LenProperties
<1>2. \A i \in m + 1 .. n : i \in 1 .. n
  BY <1>1
<1>3. \A i \in m + 1 .. n : p[i] \in S
  BY <1>2, ElementOfSeq
<1>4. m + 1 \in Int /\ n \in Int
  BY <1>1
<1>5. /\ b \in Seq(S) /\ Len(b) = (IF m + 1 <= n THEN n - (m + 1) + 1 ELSE 0)
      /\ \A i \in 1 .. n - (m + 1) + 1 : b[i] = p[(m + 1) + i - 1]
  BY <1>3, <1>4, SubSeqProperties DEF Below
<1> HIDE DEF m, n, b
<1>6. Len(b) = n - m
  BY <1>1, <1>5
<1>7. \A i \in 1 .. n - m : b[i] = p[m + i]
  <2> SUFFICES ASSUME NEW i \in 1 .. n - m
               PROVE  b[i] = p[m + i]
    OBVIOUS
  <2>1. i \in 1 .. n - (m + 1) + 1 /\ (m + 1) + i - 1 = m + i
    BY <1>1
  <2> QED BY <1>5, <2>1
<1>8. /\ q \o b \in Seq(S) /\ Len(q \o b) = m + Len(b)
      /\ \A i \in 1 .. m + Len(b) : (q \o b)[i] = IF i <= m THEN q[i] ELSE b[i - m]
  BY <1>5, ConcatProperties DEF m
<1>9. Len(q \o b) = n
  BY <1>1, <1>6, <1>8
<1>10. \A i \in 1 .. n : (q \o b)[i] = p[i]
  <2> SUFFICES ASSUME NEW i \in 1 .. n
               PROVE  (q \o b)[i] = p[i]
    OBVIOUS
  <2>1. (q \o b)[i] = IF i <= m THEN q[i] ELSE b[i - m]
    BY <1>8, <1>9
  <2>2. CASE i <= m
    BY <1>1, <2>1, <2>2
  <2>3. CASE ~(i <= m)
    <3>1. i - m \in 1 .. n - m /\ m + (i - m) = i
      BY <1>1, <2>3
    <3> QED BY <1>7, <2>1, <2>3, <3>1
  <2> QED BY <2>2, <2>3
<1>11. q \o b = p
  BY <1>8, <1>9, <1>10, SeqEqual DEF n
<1> QED BY <1>5, <1>6, <1>7, <1>11 DEF m, n, b

\* A path that continues another, and what it continues it by.
LEMMA JoinedPaths ==
  ASSUME NEW S, NEW q \in Seq(S), NEW r \in Seq(S)
  PROVE  /\ q \o r \in Seq(S) /\ StartsWith(q \o r, q) /\ Below(q \o r, q) = r
         /\ Len(q \o r) = Len(q) + Len(r)
<1> DEFINE p == q \o r
<1>1. /\ p \in Seq(S) /\ Len(p) = Len(q) + Len(r)
      /\ \A i \in 1 .. Len(q) + Len(r) : p[i] = IF i <= Len(q) THEN q[i] ELSE r[i - Len(q)]
  BY ConcatProperties
<1>2. Len(q) \in Nat /\ Len(r) \in Nat
  BY LenProperties
<1> HIDE DEF p
<1>3. StartsWith(p, q)
  <2>1. Len(q) <= Len(p)
    BY <1>1, <1>2
  <2>2. \A i \in 1 .. Len(q) : p[i] = q[i]
    BY <1>1, <1>2
  <2> QED BY <1>1, <2>1, <2>2, StartsWithIs
<1>4. /\ Below(p, q) \in Seq(S) /\ Len(Below(p, q)) = Len(p) - Len(q)
      /\ \A i \in 1 .. Len(p) - Len(q) : Below(p, q)[i] = p[Len(q) + i]
  BY <1>1, <1>3, BelowIs
<1>5. Len(Below(p, q)) = Len(r)
  BY <1>1, <1>2, <1>4
<1>6. \A i \in 1 .. Len(r) : Below(p, q)[i] = r[i]
  <2> SUFFICES ASSUME NEW i \in 1 .. Len(r)
               PROVE  Below(p, q)[i] = r[i]
    OBVIOUS
  <2>1. /\ i \in 1 .. Len(p) - Len(q) /\ Len(q) + i \in 1 .. Len(q) + Len(r)
        /\ ~(Len(q) + i <= Len(q)) /\ (Len(q) + i) - Len(q) = i
    BY <1>1, <1>2
  <2> QED BY <1>1, <1>4, <2>1
<1>7. Below(p, q) = r
  BY <1>4, <1>5, <1>6, SeqEqual
<1> QED BY <1>1, <1>3, <1>7 DEF p

LEMMA Together ==
  ASSUME NEW p, NEW q, PathOK(p), PathOK(q)
  PROVE  p \in Seq(ToSet(p) \cup ToSet(q)) /\ q \in Seq(ToSet(p) \cup ToSet(q))
BY SeqMonotonic DEF PathOK

\* The path of an entry or an argument: a relative one is one of the workspace.
LEMMA TargetIs ==
  ASSUME NEW path, PathOK(path)
  PROVE  /\ PathOK(Target(path))
         /\ StartsWith(path, <<Slash>>) => Target(path) = path
         /\ ~StartsWith(path, <<Slash>>) =>
              /\ Target(path) = Workspace \o path
              /\ StartsWith(Target(path), Workspace) /\ Below(Target(path), Workspace) = path
<1> DEFINE S == ToSet(Workspace) \cup ToSet(path)
<1>1. Workspace \in Seq(S) /\ path \in Seq(S)
  BY Together, RootsAssumption
<1> HIDE DEF S
<1>2. /\ Workspace \o path \in Seq(S) /\ StartsWith(Workspace \o path, Workspace)
      /\ Below(Workspace \o path, Workspace) = path
  BY <1>1, JoinedPaths
<1>3. PathOK(Workspace \o path)
  BY <1>2, OfItsElements DEF PathOK
<1> QED BY <1>2, <1>3 DEF Target

LEMMA Absolute ==
  ASSUME NEW path, PathOK(path)
  PROVE  StartsWith(path, <<Slash>>) <=> Len(path) >= 1 /\ path[1] = Slash
<1> DEFINE S == ToSet(path) \cup {Slash}
           slash == <<Slash>>
<1>1. path \in Seq(S) /\ slash \in Seq(S) /\ Len(slash) = 1 /\ slash[1] = Slash
  <2>1. slash \in Seq({Slash}) /\ Len(slash) = 1 /\ slash[1] = Slash
    BY OfOnes
  <2> HIDE DEF slash
  <2> QED BY <2>1, SeqMonotonic DEF PathOK
<1> HIDE DEF S, slash
<1>2. StartsWith(path, slash) <=> 1 <= Len(path) /\ \A i \in 1 .. 1 : path[i] = slash[i]
  BY <1>1, StartsWithIs, ZenonT(60)
<1>3. Len(path) \in Nat
  BY <1>1, LenProperties
<1> QED BY <1>1, <1>2, <1>3 DEF slash

-----------------------------------------------------------------------------
(***************************************************************************)
(* What index add and index remove make of the settings.                   *)
(***************************************************************************)
Fit(m) == {entry \in Sound(m) : Written(entry)}

\* The changes that are not refused.
Changes(m) ==
  {r \in m.requests : r.do \in {"add", "remove"}
                      /\ (r.do = "add" => RootEntry(r.path, r.alias) # None)}

LEMMA EntriesFit ==
  ASSUME NEW m \in Menus, NEW r \in Changes(m), r.do = "add"
  PROVE  RootEntry(r.path, r.alias) \in Fit(m)
<1> DEFINE path == r.path
           entry == RootEntry(path, r.alias)
           target == Target(path)
<1>1. /\ r \in m.requests /\ entry # None
      /\ PathOK(path) /\ None \notin ToSet(path)
      /\ \A i \in 2 .. Len(path) : path[i] # Slash
  BY SettingsAssumption DEF Changes
<1>2. entry \in Entries(m) \ {None}
  <2> DEFINE added == {RootEntry(request.path, request.alias) :
                          request \in {q \in m.requests : q.do = "add"}}
  <2>1. r \in {q \in m.requests : q.do = "add"}
    BY <1>1
  <2>2. entry \in added
    BY <2>1
  <2>3. added \subseteq Entries(m)
    <3> HIDE DEF entry
    <3> QED BY DEF Entries
  <2> HIDE DEF entry, added
  <2> QED BY <1>1, <2>2, <2>3
<1>3. PathOK(target)
  BY <1>1, TargetIs
<1>4. CASE StartsWith(target, Workspace)
  <2> DEFINE below == Below(target, Workspace)
             S == ToSet(target) \cup ToSet(Workspace)
  <2>1. entry = [path |-> below, external |-> FALSE, alias |-> None]
    BY <1>4 DEF RootEntry, TextEntry
  <2>2. target \in Seq(S) /\ Workspace \in Seq(S)
    BY <1>3, Together, RootsAssumption
  <2>3. /\ below \in Seq(S) /\ Len(below) = Len(target) - Len(Workspace)
        /\ \A i \in 1 .. Len(target) - Len(Workspace) : below[i] = target[Len(Workspace) + i]
    <3> HIDE DEF S
    <3> QED BY <1>4, <2>2, BelowIs
  <2>4. PathOK(below)
    <3> HIDE DEF S, below
    <3> QED BY <2>3, OfItsElements DEF PathOK
  <2>5. ~StartsWith(below, <<Slash>>)
    <3>1. CASE StartsWith(path, <<Slash>>)
      <4>1. target = path
        BY <1>1, <3>1, TargetIs
      <4>2. Len(Workspace) \in Nat \ {0} /\ Len(path) \in Nat
        BY <1>1, RootsAssumption, EmptySeq, LenProperties DEF PathOK
      <4> HIDE DEF path, target, below
      <4>3. ASSUME Len(below) >= 1
            PROVE  below[1] # Slash
        <5>1. 1 \in 1 .. Len(target) - Len(Workspace) /\ Len(Workspace) + 1 \in 2 .. Len(path)
          BY <2>3, <4>1, <4>2, <4>3
        <5>2. below[1] = path[Len(Workspace) + 1]
          BY <2>3, <4>1, <5>1
        <5> QED BY <1>1, <5>1, <5>2
      <4> QED BY <2>4, <4>3, Absolute
    <3>2. CASE ~StartsWith(path, <<Slash>>)
      <4>1. below = path
        BY <1>1, <3>2, TargetIs
      <4> QED BY <3>2, <4>1
    <3> QED BY <3>1, <3>2
  <2> HIDE DEF below
  <2>6. /\ entry.path = below /\ entry.external = FALSE
        /\ entry = [path |-> entry.path, external |-> entry.external, alias |-> entry.alias]
    BY <2>1
  <2> HIDE DEF entry
  <2> QED BY <1>2, <2>4, <2>5, <2>6 DEF Fit, Sound, EntryOK, Written, entry
<1>5. CASE ~StartsWith(target, Workspace)
  <2> DEFINE alias == AliasOf(r.alias, target)
  <2>1. alias \notin Wild /\ entry = [path |-> target, external |-> TRUE, alias |-> alias]
    BY <1>1, <1>5 DEF RootEntry
  <2>2. target = path /\ StartsWith(target, <<Slash>>)
    BY <1>1, <1>5, TargetIs
  <2>3. alias # None
    <3>1. CASE r.alias # None
      BY <3>1 DEF AliasOf
    <3>2. CASE r.alias = None
      <4>1. alias = path[Len(path)]
        BY <2>2, <3>2 DEF AliasOf, Last
      <4> HIDE DEF path, target, entry, alias
      <4>2. Len(path) \in Nat /\ Len(path) >= 1
        BY <1>1, <2>2, Absolute, LenProperties DEF PathOK
      <4>3. path[Len(path)] \in ToSet(path)
        <5>1. Len(path) \in 1 .. Len(path)
          BY <4>2
        <5> QED BY <1>1, <5>1, ElementOfSeq DEF PathOK
      <4> QED BY <1>1, <4>1, <4>3
    <3> QED BY <3>1, <3>2
  <2> HIDE DEF alias, target
  <2>4. /\ entry.path = target /\ entry.external = TRUE /\ entry.alias = alias
        /\ entry = [path |-> entry.path, external |-> entry.external, alias |-> entry.alias]
    BY <2>1
  <2> HIDE DEF entry
  <2> QED BY <1>2, <1>3, <2>1, <2>2, <2>3, <2>4 DEF Fit, Sound, EntryOK, Written, entry
<1> QED BY <1>4, <1>5

LEMMA RemovedType ==
  ASSUME NEW S, NEW roots, Listed(roots) \in Seq(S), NEW target
  PROVE  RemoveRoot(roots, target) \in Seq(S)
<1> DEFINE all == Listed(roots)
           n == Len(all)
           left(k) == Combined("left", target, Nothing, all, k)
           I == {k \in Nat : k <= n => left(k) \in Seq(S)}
<1>1. n \in Nat
  BY LenProperties
<1>2. left(0) = Nothing
  BY CombinedStart
<1>3. Nothing \in Seq(S)
  BY EmptySeq DEF Nothing
<1>4. ASSUME NEW k \in I
      PROVE  k + 1 \in I
  <2> SUFFICES ASSUME k + 1 <= n
               PROVE  left(k + 1) \in Seq(S)
    OBVIOUS
  <2> DEFINE next == k + 1
  <2>1. k \in Nat /\ next \in Nat /\ next = k + 1 /\ next \in 1 .. n /\ left(k) \in Seq(S)
    BY <1>1
  <2>2. all[next] \in S
    BY <2>1, ElementOfSeq
  <2>3. left(next) = Combine("left", target, left(k), all[next])
    <3> HIDE DEF next, all
    <3> QED BY <2>1, CombinedStep
  <2> HIDE DEF left, all, next
  <2>4. left(next) \in Seq(S)
    BY <2>1, <2>2, <2>3, AppendProperties, ZenonT(60) DEF Combine
  <2> QED BY <2>4 DEF next
<1>5. I = Nat
  <2>1. 0 \in I
    <3> HIDE DEF left
    <3> QED BY <1>2, <1>3
  <2>2. I \in SUBSET Nat
    OBVIOUS
  <2> HIDE DEF I
  <2> QED BY <1>4, <2>1, <2>2, Induction
<1>6. RemoveRoot(roots, target) = left(n)
  BY <1>1, RemoveRootIs
<1> HIDE DEF left
<1> QED BY <1>1, <1>5, <1>6

LEMMA AddedType ==
  ASSUME NEW S, NEW roots, Listed(roots) \in Seq(S), NEW entry \in S
  PROVE  AddRoot(roots, entry) \in Seq(S)
BY AppendProperties DEF AddRoot

LEMMA LocalParts ==
  ASSUME NEW m \in Menus, NEW file \in LocalSettings(m)
  PROVE  /\ file.roots \in Seq(Fit(m)) \cup {None} /\ file.rest \in BOOLEAN
         /\ Listed(file.roots) \in Seq(Fit(m))
         /\ file = [roots |-> file.roots, rest |-> file.rest]
<1>1. LocalSettings(m) = [roots : Seq(Fit(m)) \cup {None}, rest : BOOLEAN]
  BY DEF LocalSettings, Fit
<1>2. /\ file.roots \in Seq(Fit(m)) \cup {None} /\ file.rest \in BOOLEAN
      /\ file = [roots |-> file.roots, rest |-> file.rest]
  BY <1>1
<1>3. Listed(file.roots) \in Seq(Fit(m))
  BY <1>2, EmptySeq DEF Listed
<1> QED BY <1>2, <1>3

\* A change of the local settings leaves such as index add can have written, and the others.
LEMMA ChangeType ==
  ASSUME NEW m \in Menus, NEW file \in LocalSettings(m), NEW r \in Changes(m)
  PROVE  /\ Change(file, r) \in LocalSettings(m) /\ Change(file, r).rest = file.rest
         /\ Change(file, r).roots \in Seq(Fit(m))
         /\ Change(file, r).roots = IF r.do = "add"
                                    THEN AddRoot(file.roots, RootEntry(r.path, r.alias))
                                    ELSE RemoveRoot(file.roots, r.path)
<1> DEFINE roots == IF r.do = "add" THEN AddRoot(file.roots, RootEntry(r.path, r.alias))
                    ELSE RemoveRoot(file.roots, r.path)
<1>1. /\ file = [roots |-> file.roots, rest |-> file.rest] /\ file.rest \in BOOLEAN
      /\ Listed(file.roots) \in Seq(Fit(m))
  BY LocalParts
<1>2. roots \in Seq(Fit(m))
  <2>1. CASE r.do = "add"
    <3>1. RootEntry(r.path, r.alias) \in Fit(m)
      BY <2>1, EntriesFit
    <3>2. AddRoot(file.roots, RootEntry(r.path, r.alias)) \in Seq(Fit(m))
      BY <1>1, <3>1, AddedType
    <3> QED BY <2>1, <3>2
  <2>2. CASE r.do # "add"
    <3>1. RemoveRoot(file.roots, r.path) \in Seq(Fit(m))
      BY <1>1, RemovedType
    <3> QED BY <2>2, <3>1
  <2> QED BY <2>1, <2>2
<1>3. Change(file, r) = [file EXCEPT !.roots = roots]
  BY DEF Change
<1> HIDE DEF roots
<1>4. Change(file, r) = [roots |-> roots, rest |-> file.rest]
  <2> DEFINE old == file.roots
             rest == file.rest
  <2>1. [ [roots |-> old, rest |-> rest] EXCEPT !.roots = roots ] = [roots |-> roots, rest |-> rest]
    OBVIOUS
  <2>2. file = [roots |-> old, rest |-> rest]
    BY <1>1
  <2> HIDE DEF old, rest
  <2>3. Change(file, r) = [roots |-> roots, rest |-> rest]
    BY <1>3, <2>1, <2>2
  <2> QED BY <2>3 DEF rest
<1>5. Change(file, r) \in [roots : Seq(Fit(m)) \cup {None}, rest : BOOLEAN]
  BY <1>1, <1>2, <1>4
<1>6. LocalSettings(m) = [roots : Seq(Fit(m)) \cup {None}, rest : BOOLEAN]
  BY DEF LocalSettings, Fit
<1>7. Change(file, r).roots = roots /\ Change(file, r).rest = file.rest
  BY <1>4
<1> QED BY <1>2, <1>5, <1>6, <1>7 DEF roots

LEMMA MadeType ==
  ASSUME NEW m \in Menus, NEW file \in LocalSettings(m), NEW requests \in Seq(Changes(m))
  PROVE  \A n \in 0 .. Len(requests) :
           Made(file, requests, n) \in LocalSettings(m) /\ Made(file, requests, n).rest = file.rest
<1> DEFINE made(n) == Made(file, requests, n)
           I == {n \in Nat : n <= Len(requests) =>
                   made(n) \in LocalSettings(m) /\ made(n).rest = file.rest}
<1>1. Len(requests) \in Nat
  BY LenProperties
<1>2. made(0) = file
  BY MadeStart
<1>3. ASSUME NEW k \in I
      PROVE  k + 1 \in I
  <2> SUFFICES ASSUME k + 1 <= Len(requests)
               PROVE  made(k + 1) \in LocalSettings(m) /\ made(k + 1).rest = file.rest
    OBVIOUS
  <2> DEFINE next == k + 1
  <2>1. /\ k \in Nat /\ next \in Nat /\ next = k + 1 /\ next \in 1 .. Len(requests)
        /\ made(k) \in LocalSettings(m) /\ made(k).rest = file.rest
    BY <1>1
  <2>2. requests[next] \in Changes(m)
    BY <2>1, ElementOfSeq
  <2>3. made(next) = Change(made(k), requests[next])
    <3> HIDE DEF next
    <3> QED BY <2>1, MadeStep
  <2> HIDE DEF made, next
  <2>4. made(next) \in LocalSettings(m) /\ made(next).rest = made(k).rest
    <3> DEFINE before == made(k)
    <3>1. before \in LocalSettings(m)
      BY <2>1
    <3> HIDE DEF before
    <3>2. /\ Change(before, requests[next]) \in LocalSettings(m)
          /\ Change(before, requests[next]).rest = before.rest
      BY <2>2, <3>1, ChangeType
    <3> QED BY <2>3, <3>2 DEF before
  <2> QED BY <2>1, <2>4 DEF next
<1>4. I = Nat
  <2>1. 0 \in I
    <3> HIDE DEF made
    <3> QED BY <1>2
  <2>2. I \in SUBSET Nat
    OBVIOUS
  <2> HIDE DEF I
  <2> QED BY <1>3, <2>1, <2>2, Induction
<1> HIDE DEF made
<1>5. \A n \in 0 .. Len(requests) : made(n) \in LocalSettings(m) /\ made(n).rest = file.rest
  BY <1>1, <1>4
<1> QED BY <1>5 DEF made

-----------------------------------------------------------------------------
(***************************************************************************)
(* The roots that are kept of a list of entries.                           *)
(***************************************************************************)
Kept(list, n) == Combined("kept", Nothing, Nothing, list, n)

LEMMA KeptStep ==
  ASSUME NEW list, NEW n \in Nat, NEW k \in Nat, k = n + 1
  PROVE  Kept(list, k) = Keep(Kept(list, n), list[k])
<1>1. Combined("kept", Nothing, Nothing, list, k) =
        Combine("kept", Nothing, Combined("kept", Nothing, Nothing, list, n), list[k])
  BY CombinedStep
<1> QED BY <1>1 DEF Kept, Combine

\* The roots that entries of S make.
RootsOf(S) == {ParseRoot(entry) : entry \in {e \in S : Accepted(e)}}

\* No two of them have one name.
Distinct(out) == \A i, j \in DOMAIN out : out[i].db_root = out[j].db_root => i = j

LEMMA KeepIs ==
  ASSUME NEW S, NEW out \in Seq(RootsOf(S)), NEW entry \in S, Distinct(out)
  PROVE  /\ Keep(out, entry) \in Seq(RootsOf(S)) /\ Distinct(Keep(out, entry))
         /\ ToSet(out) \subseteq ToSet(Keep(out, entry))
         /\ ToSet(Keep(out, entry)) \subseteq
              ToSet(out) \cup {ParseRoot(e) : e \in {e \in {entry} : Accepted(e)}}
         /\ Accepted(entry) /\ (\A i \in DOMAIN out : out[i].db_root # ParseRoot(entry).db_root)
              => ParseRoot(entry) \in ToSet(Keep(out, entry))
<1> DEFINE root == ParseRoot(entry)
           new == Accepted(entry) /\ \A i \in DOMAIN out : out[i].db_root # root.db_root
           longer == Append(out, root)
<1>1. CASE ~ new
  <2>1. Keep(out, entry) = out
    BY <1>1 DEF Keep
  <2> HIDE DEF root
  <2> QED BY <1>1, <2>1 DEF root
<1>2. CASE new
  <2>1. Keep(out, entry) = longer
    BY <1>2 DEF Keep
  <2>2. root \in RootsOf(S) /\ root \in {ParseRoot(e) : e \in {e \in {entry} : Accepted(e)}}
    BY <1>2 DEF RootsOf
  <2> HIDE DEF root
  <2>3. /\ longer \in Seq(RootsOf(S)) /\ Len(longer) = Len(out) + 1
        /\ \A i \in 1 .. Len(out) : longer[i] = out[i]
        /\ longer[Len(out) + 1] = root
    BY <2>2, AppendProperties
  <2>4. Len(out) \in Nat /\ DOMAIN out = 1 .. Len(out) /\ DOMAIN longer = 1 .. Len(out) + 1
    BY <2>3, LenProperties
  <2>5. \A i \in DOMAIN longer : i \in DOMAIN out \/ i = Len(out) + 1
    BY <2>4
  <2> HIDE DEF longer
  <2>6. Distinct(longer)
    <3> SUFFICES ASSUME NEW i \in DOMAIN longer, NEW j \in DOMAIN longer,
                        longer[i].db_root = longer[j].db_root
                 PROVE  i = j
      BY DEF Distinct
    <3>1. CASE i \in DOMAIN out /\ j \in DOMAIN out
      <4>1. out[i].db_root = out[j].db_root
        BY <2>3, <2>4, <3>1
      <4> QED BY <3>1, <4>1 DEF Distinct
    <3>2. CASE i \in DOMAIN out /\ j = Len(out) + 1
      <4>1. out[i].db_root = root.db_root
        BY <2>3, <2>4, <3>2
      <4> QED BY <1>2, <3>2, <4>1
    <3>3. CASE i = Len(out) + 1 /\ j \in DOMAIN out
      <4>1. out[j].db_root = root.db_root
        BY <2>3, <2>4, <3>3
      <4> QED BY <1>2, <3>3, <4>1
    <3> QED BY <2>5, <3>1, <3>2, <3>3
  <2>7. ToSet(longer) = ToSet(out) \cup {root}
    <3>1. \A i \in DOMAIN longer : longer[i] \in ToSet(out) \cup {root}
      <4> SUFFICES ASSUME NEW i \in DOMAIN longer
                   PROVE  longer[i] \in ToSet(out) \cup {root}
        OBVIOUS
      <4>1. CASE i \in DOMAIN out
        <5>1. longer[i] = out[i]
          BY <2>3, <2>4, <4>1
        <5> QED BY <4>1, <5>1 DEF ToSet
      <4>2. CASE i = Len(out) + 1
        BY <2>3, <4>2
      <4> QED BY <2>5, <4>1, <4>2
    <3>2. ToSet(longer) \subseteq ToSet(out) \cup {root}
      BY <3>1 DEF ToSet
    <3>3. root \in ToSet(longer)
      <4>1. Len(out) + 1 \in DOMAIN longer
        BY <2>4
      <4> QED BY <2>3, <4>1 DEF ToSet
    <3>4. \A i \in DOMAIN out : out[i] \in ToSet(longer)
      <4> SUFFICES ASSUME NEW i \in DOMAIN out
                   PROVE  out[i] \in ToSet(longer)
        OBVIOUS
      <4>1. i \in DOMAIN longer /\ longer[i] = out[i]
        BY <2>3, <2>4
      <4> QED BY <4>1 DEF ToSet
    <3>5. ToSet(out) \subseteq ToSet(longer)
      BY <3>4 DEF ToSet
    <3> QED BY <3>2, <3>3, <3>5
  <2> QED BY <2>1, <2>2, <2>3, <2>6, <2>7 DEF root
<1> QED BY <1>1, <1>2

\* What the first n entries of a list make: entries with no name twice.
LEMMA KeptIs ==
  ASSUME NEW S, NEW list \in Seq(S)
  PROVE  \A n \in 0 .. Len(list) :
           /\ Kept(list, n) \in Seq(RootsOf(S)) /\ Distinct(Kept(list, n))
           /\ \A root \in ToSet(Kept(list, n)) :
                \E i \in 1 .. n : Accepted(list[i]) /\ root = ParseRoot(list[i])
<1> DEFINE Fine(n) ==
             /\ Kept(list, n) \in Seq(RootsOf(S)) /\ Distinct(Kept(list, n))
             /\ \A root \in ToSet(Kept(list, n)) :
                  \E i \in 1 .. n : Accepted(list[i]) /\ root = ParseRoot(list[i])
           I == {n \in Nat : n <= Len(list) => Fine(n)}
<1>1. Len(list) \in Nat
  BY LenProperties
<1>2. Fine(0)
  <2>1. Kept(list, 0) = Nothing
    BY CombinedStart DEF Kept
  <2>2. /\ Nothing \in Seq(RootsOf(S)) /\ DOMAIN Nothing = {}
    BY EmptySeq DEF Nothing
  <2>3. ToSet(Nothing) = {}
    BY <2>2 DEF ToSet
  <2> QED BY <2>1, <2>2, <2>3 DEF Distinct
<1>3. ASSUME NEW k \in I
      PROVE  k + 1 \in I
  <2> SUFFICES ASSUME k + 1 <= Len(list)
               PROVE  Fine(k + 1)
    OBVIOUS
  <2> DEFINE next == k + 1
             out == Kept(list, k)
             entry == list[next]
  <2>1. k \in Nat /\ next \in Nat /\ next = k + 1 /\ next \in 1 .. Len(list) /\ Fine(k)
    BY <1>1
  <2>2. entry \in S
    BY <2>1, ElementOfSeq
  <2>3. Kept(list, next) = Keep(out, entry)
    <3> HIDE DEF next
    <3> QED BY <2>1, KeptStep
  <2>4. out \in Seq(RootsOf(S)) /\ Distinct(out)
    BY <2>1
  <2>5. /\ Keep(out, entry) \in Seq(RootsOf(S)) /\ Distinct(Keep(out, entry))
        /\ ToSet(Keep(out, entry)) \subseteq
              ToSet(out) \cup {ParseRoot(e) : e \in {e \in {entry} : Accepted(e)}}
    <3> HIDE DEF out, entry
    <3> QED BY <2>2, <2>4, KeepIs
  <2>6. ASSUME NEW root \in ToSet(Keep(out, entry))
        PROVE  \E i \in 1 .. next : Accepted(list[i]) /\ root = ParseRoot(list[i])
    <3>1. CASE root \in ToSet(out)
      <4>1. PICK i \in 1 .. k : Accepted(list[i]) /\ root = ParseRoot(list[i])
        BY <2>1, <3>1
      <4>2. i \in 1 .. next
        BY <2>1
      <4> QED BY <4>1, <4>2
    <3>2. CASE root \notin ToSet(out)
      <4> HIDE DEF out, entry, Fine, I
      <4>1. Accepted(entry) /\ root = ParseRoot(entry)
        BY <2>5, <2>6, <3>2
      <4>2. next \in 1 .. next
        BY <2>1
      <4> QED BY <4>1, <4>2 DEF entry
    <3> QED BY <3>1, <3>2
  <2> HIDE DEF next
  <2> QED BY <2>3, <2>5, <2>6 DEF next
<1>4. I = Nat
  <2>1. 0 \in I
    <3> HIDE DEF Fine
    <3> QED BY <1>2
  <2>2. I \in SUBSET Nat
    OBVIOUS
  <2> HIDE DEF I
  <2> QED BY <1>3, <2>1, <2>2, Induction
<1> HIDE DEF Fine
<1>5. \A n \in 0 .. Len(list) : Fine(n)
  BY <1>1, <1>4
<1> QED BY <1>5 DEF Fine

\* What is kept of the first entries is kept of more of them.
LEMMA KeptGrows ==
  ASSUME NEW S, NEW list \in Seq(S), NEW n \in 0 .. Len(list)
  PROVE  \A k \in n .. Len(list) : ToSet(Kept(list, n)) \subseteq ToSet(Kept(list, k))
<1> DEFINE Fine(k) == ToSet(Kept(list, n)) \subseteq ToSet(Kept(list, k))
           I == {k \in Nat : n <= k /\ k <= Len(list) => Fine(k)}
<1>1. Len(list) \in Nat /\ n \in Nat
  BY LenProperties
<1>2. Fine(n)
  OBVIOUS
<1>3. ASSUME NEW k \in I
      PROVE  k + 1 \in I
  <2> SUFFICES ASSUME n <= k + 1, k + 1 <= Len(list)
               PROVE  Fine(k + 1)
    OBVIOUS
  <2> DEFINE next == k + 1
             out == Kept(list, k)
             entry == list[next]
  <2>1. k \in Nat /\ next \in Nat /\ next = k + 1 /\ next \in 1 .. Len(list) /\ k \in 0 .. Len(list)
    BY <1>1
  <2>2. CASE next = n
    <3> HIDE DEF Fine
    <3> QED BY <1>2, <2>2
  <2>3. CASE next # n
    <3>1. Fine(k)
      BY <1>1, <2>1, <2>3
    <3>2. entry \in S
      BY <2>1, ElementOfSeq
    <3>3. out \in Seq(RootsOf(S)) /\ Distinct(out)
      BY <2>1, KeptIs
    <3>4. Kept(list, next) = Keep(out, entry)
      <4> HIDE DEF next
      <4> QED BY <2>1, KeptStep
    <3>5. ToSet(out) \subseteq ToSet(Keep(out, entry))
      <4> HIDE DEF out, entry
      <4> QED BY <3>2, <3>3, KeepIs
    <3> QED BY <3>1, <3>4, <3>5
  <2> QED BY <2>2, <2>3
<1>4. I = Nat
  <2>1. 0 \in I
    <3> HIDE DEF Fine
    <3>1. n <= 0 => n = 0
      BY <1>1
    <3> QED BY <1>2, <3>1
  <2>2. I \in SUBSET Nat
    OBVIOUS
  <2> HIDE DEF I
  <2> QED BY <1>3, <2>1, <2>2, Induction
<1> HIDE DEF Fine
<1>5. \A k \in n .. Len(list) : Fine(k)
  BY <1>1, <1>4
<1> QED BY <1>5 DEF Fine

\* An entry that is accepted has its root, unless an earlier one has its name.
LEMMA KeptFirst ==
  ASSUME NEW S, NEW list \in Seq(S), NEW i \in 1 .. Len(list), Accepted(list[i]),
         \A j \in 1 .. i - 1 : ParseRoot(list[j]).db_root # ParseRoot(list[i]).db_root
  PROVE  ParseRoot(list[i]) \in ToSet(Kept(list, Len(list)))
<1> DEFINE n == i - 1
           out == Kept(list, n)
           entry == list[i]
<1>1. /\ Len(list) \in Nat /\ n \in Nat /\ i \in Nat /\ i = n + 1
      /\ n \in 0 .. Len(list) /\ i \in 0 .. Len(list) /\ Len(list) \in i .. Len(list)
  BY LenProperties
<1>2. entry \in S
  BY ElementOfSeq
<1>3. /\ out \in Seq(RootsOf(S)) /\ Distinct(out)
      /\ \A root \in ToSet(out) :
           \E j \in 1 .. n : Accepted(list[j]) /\ root = ParseRoot(list[j])
  BY <1>1, KeptIs
<1>4. Kept(list, i) = Keep(out, entry)
  <2> HIDE DEF n
  <2> QED BY <1>1, KeptStep
<1>5. \A j \in DOMAIN out : out[j].db_root # ParseRoot(entry).db_root
  <2> HIDE DEF out
  <2> SUFFICES ASSUME NEW j \in DOMAIN out
               PROVE  out[j].db_root # ParseRoot(entry).db_root
    OBVIOUS
  <2>1. out[j] \in ToSet(out)
    BY DEF ToSet
  <2>2. PICK k \in 1 .. n : out[j] = ParseRoot(list[k])
    BY <1>3, <2>1
  <2> QED BY <2>2
<1>6. ParseRoot(entry) \in ToSet(Keep(out, entry))
  <2> HIDE DEF out, entry
  <2>1. Accepted(entry)
    BY DEF entry
  <2> QED BY <1>2, <1>3, <1>5, <2>1, KeepIs
<1>7. ToSet(Kept(list, i)) \subseteq ToSet(Kept(list, Len(list)))
  BY <1>1, KeptGrows
<1> QED BY <1>4, <1>6, <1>7

\* An entry that index add may have written, with nothing that a root may not have, has its root.
LEMMA FitRoot ==
  ASSUME NEW m \in Menus, NEW entry \in Fit(m)
  PROVE  /\ ParseRoot(entry) = [db_root |-> NameOf(entry), source |-> Target(entry.path),
                                external |-> entry.external]
         /\ ParseRoot(entry).db_root = NameOf(entry)
         /\ ToSet(entry.path) \cap (Wild \cup Dangerous) = {} => Accepted(entry)
<1> DEFINE path == entry.path
           target == Target(path)
<1>1. PathOK(path) /\ entry.external \in BOOLEAN /\ Written(entry)
  BY DEF Fit, Sound, EntryOK
<1>2. CASE entry.external
  <2>1. StartsWith(path, <<Slash>>) /\ entry.alias \notin Wild /\ entry.alias # None
    BY <1>1, <1>2 DEF Written
  <2>2. target = path
    BY <1>1, <2>1, TargetIs
  <2>3. AliasOf(entry.alias, target) = entry.alias
    BY <2>1 DEF AliasOf
  <2>4. Last(target) \in ToSet(path)
    <3> HIDE DEF path
    <3>1. Len(path) \in Nat /\ Len(path) >= 1
      BY <1>1, <2>1, Absolute, LenProperties DEF PathOK
    <3>2. Len(path) \in 1 .. Len(path)
      BY <3>1
    <3>3. path[Len(path)] \in ToSet(path)
      BY <1>1, <3>2, ElementOfSeq DEF PathOK
    <3> QED BY <2>2, <3>3 DEF Last
  <2>5. ParseRoot(entry) = [db_root |-> NameOf(entry), source |-> target, external |-> entry.external]
    BY <1>2, <2>3 DEF ParseRoot, NameOf
  <2>6. ToSet(path) \cap (Wild \cup Dangerous) = {} => Accepted(entry)
    <3> SUFFICES ASSUME ToSet(path) \cap (Wild \cup Dangerous) = {}
                 PROVE  Accepted(entry)
      OBVIOUS
    <3>1. ToSet(path) \cap Wild = {} /\ Last(target) \notin Dangerous
      BY <2>4
    <3> QED BY <1>2, <2>1, <2>3, <3>1 DEF Accepted
  <2> QED BY <2>5, <2>6
<1>3. CASE ~ entry.external
  <2>1. ~ StartsWith(path, <<Slash>>)
    BY <1>1, <1>3 DEF Written
  <2>2. StartsWith(target, Workspace) /\ Below(target, Workspace) = path
    BY <1>1, <2>1, TargetIs
  <2>3. ParseRoot(entry) = [db_root |-> NameOf(entry), source |-> target, external |-> entry.external]
    BY <1>3, <2>2 DEF ParseRoot, NameOf
  <2>4. ToSet(path) \cap (Wild \cup Dangerous) = {} => Accepted(entry)
    BY <1>3, <2>2 DEF Accepted
  <2> QED BY <2>3, <2>4
<1> QED BY <1>1, <1>2, <1>3

\* None is no list of entries.
LEMMA FitEntries ==
  ASSUME NEW m \in Menus
  PROVE  Fit(m) \subseteq Entries(m) /\ None \notin Seq(Fit(m))
<1>1. Fit(m) \subseteq Entries(m)
  BY DEF Fit, Sound
<1>2. None \notin Seq(Entries(m))
  BY SettingsAssumption
<1> QED BY <1>1, <1>2, SeqMonotonic

LEMMA NormalizedIs ==
  ASSUME NEW S, NEW list \in Seq(S), list # <<>>, list # None
  PROVE  NormalizedRoots(list) = Kept(list, Len(list))
<1>1. EffectiveRoots(list) = list
  BY DEF EffectiveRoots
<1>2. Len(list) \in Nat
  BY LenProperties
<1> QED BY <1>1, <1>2, NormalizedRootsIs DEF Kept

\* A root that is added takes none away.
LEMMA AddKeeps ==
  ASSUME NEW m \in Menus, NEW roots \in Seq(Fit(m)), roots # <<>>, NEW entry \in Fit(m)
  PROVE  ToSet(NormalizedRoots(roots)) \subseteq ToSet(NormalizedRoots(AddRoot(roots, entry)))
<1> DEFINE more == Append(roots, entry)
           n == Len(roots)
<1>1. None \notin Seq(Fit(m))
  BY FitEntries
<1>2. Listed(roots) = roots
  BY <1>1 DEF Listed
<1>3. AddRoot(roots, entry) = roots \/ AddRoot(roots, entry) = more
  BY <1>2 DEF AddRoot
<1>4. /\ more \in Seq(Fit(m)) /\ Len(more) = n + 1 /\ n \in Nat
      /\ \A i \in 1 .. n : more[i] = roots[i]
  BY AppendProperties, LenProperties
<1> HIDE DEF more
<1>5. more # <<>> /\ more # None /\ roots # None
  BY <1>1, <1>4, EmptySeq
<1>6. NormalizedRoots(roots) = Kept(roots, n) /\ NormalizedRoots(more) = Kept(more, Len(more))
  BY <1>4, <1>5, NormalizedIs
<1>7. Kept(more, n) = Kept(roots, n)
  <2>1. \A i \in Nat \ {0} : i <= n => more[i] = roots[i]
    BY <1>4
  <2> QED BY <1>4, <2>1, CombinedSame DEF Kept
<1>8. ToSet(Kept(more, n)) \subseteq ToSet(Kept(more, Len(more)))
  <2>1. n \in 0 .. Len(more) /\ Len(more) \in n .. Len(more)
    BY <1>4
  <2> HIDE DEF n
  <2> QED BY <1>4, <2>1, KeptGrows
<1> QED BY <1>3, <1>6, <1>7, <1>8

\* Every listed root that may be one is effective, unless an earlier one has its name.
LEMMA ListedEffective ==
  ASSUME NEW m \in Menus, NEW roots \in Seq(Fit(m)), NEW i \in 1 .. Len(roots)
  PROVE  \/ ToSet(roots[i].path) \cap (Wild \cup Dangerous) # {}
         \/ \E j \in 1 .. i - 1 : NameOf(roots[j]) = NameOf(roots[i])
         \/ [db_root |-> NameOf(roots[i]), source |-> Target(roots[i].path),
             external |-> roots[i].external] \in ToSet(NormalizedRoots(roots))
<1> SUFFICES ASSUME ToSet(roots[i].path) \cap (Wild \cup Dangerous) = {},
                    \A j \in 1 .. i - 1 : NameOf(roots[j]) # NameOf(roots[i])
             PROVE  [db_root |-> NameOf(roots[i]), source |-> Target(roots[i].path),
                     external |-> roots[i].external] \in ToSet(NormalizedRoots(roots))
  OBVIOUS
<1> DEFINE entry == roots[i]
<1>1. Len(roots) \in Nat /\ \A j \in 1 .. Len(roots) : roots[j] \in Fit(m)
  BY LenProperties, ElementOfSeq
<1>2. entry \in Fit(m)
  BY <1>1
<1>3. /\ ParseRoot(entry) = [db_root |-> NameOf(entry), source |-> Target(entry.path),
                             external |-> entry.external]
      /\ ParseRoot(entry).db_root = NameOf(entry)
      /\ Accepted(entry)
  <2>1. ToSet(entry.path) \cap (Wild \cup Dangerous) = {}
    OBVIOUS
  <2> HIDE DEF entry
  <2> QED BY <1>2, <2>1, FitRoot
<1>4. \A j \in 1 .. i - 1 : ParseRoot(roots[j]).db_root # ParseRoot(roots[i]).db_root
  <2> SUFFICES ASSUME NEW j \in 1 .. i - 1
               PROVE  ParseRoot(roots[j]).db_root # ParseRoot(roots[i]).db_root
    OBVIOUS
  <2>1. j \in 1 .. Len(roots)
    BY <1>1
  <2> DEFINE other == roots[j]
  <2>2. other \in Fit(m)
    BY <1>1, <2>1
  <2>3. ParseRoot(other).db_root = NameOf(other)
    <3> HIDE DEF other
    <3> QED BY <2>2, FitRoot
  <2>4. NameOf(other) # NameOf(entry)
    OBVIOUS
  <2> QED BY <1>3, <2>3, <2>4
<1>5. ParseRoot(roots[i]) \in ToSet(Kept(roots, Len(roots)))
  <2>1. Accepted(roots[i])
    BY <1>3
  <2> HIDE DEF entry
  <2> QED BY <1>4, <2>1, KeptFirst
<1>6. NormalizedRoots(roots) = Kept(roots, Len(roots))
  <2>1. roots # <<>> /\ roots # None
    BY <1>1, EmptySeq, FitEntries
  <2> QED BY <2>1, NormalizedIs
<1> QED BY <1>3, <1>5, <1>6

-----------------------------------------------------------------------------
(***************************************************************************)
(* What is known of the settings, and of the commands on them.             *)
(***************************************************************************)
\* Command c is an index add or index remove that runs.
Setting(c) == cmd[c] # Idle /\ About(cmd[c].request) = "settings"

\* Its steps, when it has read, and when it has truncated.
ToRead == << <<"read", "local">>, <<"truncate", "local">>, <<"write", "local">> >>
ToTruncate == << <<"truncate", "local">>, <<"write", "local">> >>
ToWrite == << <<"write", "local">> >>

SettingSteps == {<<"read", "local">>, <<"truncate", "local">>, <<"write", "local">>}

HasRead(c) == Setting(c) /\ cmd[c].steps \in {ToTruncate, ToWrite}
Truncated(c) == Setting(c) /\ cmd[c].steps = ToWrite

\* What the commands make of the settings.
Wanted == Made(first, performed, Len(performed))

\* Command c is at one of its steps; no other command is at one of these.
SettingOK(c) ==
  /\ Setting(c) => cmd[c].steps \in {ToRead, ToTruncate, ToWrite}
  /\ HasRead(c) => cmd[c].request \in Changes(menu) /\ cmd[c].copy \in LocalSettings(menu)
  /\ cmd[c] # Idle /\ ~ Setting(c) => \A i \in DOMAIN cmd[c].steps : cmd[c].steps[i] \notin SettingSteps

OneSetting == \A c, d \in Commands : Setting(c) /\ Setting(d) => c = d

SettingsInv ==
  /\ first \in LocalSettings(menu) /\ local \in LocalSettings(menu)
  /\ performed \in Seq(Changes(menu))
  /\ \A c \in Commands : SettingOK(c)
  /\ "settings" \notin upset =>
       /\ OneSetting
       /\ \A c \in Commands : HasRead(c) => cmd[c].copy = Change(Wanted, cmd[c].request)
       /\ (\A c \in Commands : ~ Truncated(c)) => local = Wanted

LEMMA InitSettings ==
  ASSUME Init
  PROVE  SettingsInv
<1>1. PICK start \in menu.starts : local = start.local /\ first = start.local
  BY DEF Init
<1>2. menu \in Menus /\ performed = <<>> /\ \A c \in Commands : cmd[c] = Idle
  BY DEF Init
<1>3. first \in LocalSettings(menu) /\ local = first
  BY <1>1, <1>2, SettingsAssumption
<1>4. performed \in Seq(Changes(menu)) /\ Len(performed) = 0
  BY <1>2, EmptySeq
<1>5. Wanted = first
  BY <1>4, MadeStart DEF Wanted
<1>6. \A c \in Commands : ~Setting(c) /\ ~HasRead(c) /\ SettingOK(c)
  BY <1>2 DEF Setting, HasRead, SettingOK
<1> QED BY <1>3, <1>4, <1>5, <1>6 DEF SettingsInv, OneSetting

\* RootsAsCommanded follows.
LEMMA SettingsAsCommanded ==
  ASSUME Typed, SettingsInv
  PROVE  RootsAsCommanded
<1> SUFFICES ASSUME NoneAbout("settings"), "settings" \notin upset
             PROVE  /\ local = After(Len(performed))
                    /\ local.rest = first.rest
                    /\ \A i \in DOMAIN performed :
                         LET before == After(i - 1).roots IN
                         performed[i].do = "add" /\ before \notin {None, <<>>} =>
                           ToSet(NormalizedRoots(before)) \subseteq
                             ToSet(NormalizedRoots(After(i).roots))
                    /\ \A i \in DOMAIN Listed(local.roots) :
                         LET entry == local.roots[i] IN
                         \/ ToSet(entry.path) \cap (Wild \cup Dangerous) # {}
                         \/ \E j \in 1 .. i - 1 : NameOf(local.roots[j]) = NameOf(entry)
                         \/ [db_root |-> NameOf(entry), source |-> Target(entry.path),
                             external |-> entry.external] \in ToSet(NormalizedRoots(Configured))
  BY DEF RootsAsCommanded
<1>1. menu \in Menus
  BY DEF Typed, TypeOK
<1>2. /\ first \in LocalSettings(menu) /\ local \in LocalSettings(menu)
      /\ performed \in Seq(Changes(menu))
  BY DEF SettingsInv
<1>3. Len(performed) \in Nat /\ DOMAIN performed = 1 .. Len(performed)
  BY <1>2, LenProperties
<1>4. local = Made(first, performed, Len(performed))
  <2>1. \A c \in Commands : ~Truncated(c)
    BY DEF NoneAbout, Truncated, Setting
  <2> QED BY <2>1 DEF SettingsInv, Wanted
<1>5. \A n \in Nat : After(n) = Made(first, performed, n)
  BY AfterIs
<1>6. local = After(Len(performed))
  BY <1>3, <1>4, <1>5
<1>7. local.rest = first.rest
  <2>1. Len(performed) \in 0 .. Len(performed)
    BY <1>3
  <2>2. Made(first, performed, Len(performed)).rest = first.rest
    BY <1>1, <1>2, <2>1, MadeType
  <2> QED BY <1>4, <2>2
<1>8. ASSUME NEW i \in DOMAIN performed, performed[i].do = "add",
             After(i - 1).roots \notin {None, <<>>}
      PROVE  ToSet(NormalizedRoots(After(i - 1).roots)) \subseteq
               ToSet(NormalizedRoots(After(i).roots))
  <2> DEFINE k == i - 1
             r == performed[i]
             before == Made(first, performed, k)
             entry == RootEntry(r.path, r.alias)
  <2>1. i \in 1 .. Len(performed) /\ i \in Nat /\ k \in Nat /\ i = k + 1 /\ k \in 0 .. Len(performed)
    BY <1>3
  <2>2. After(k) = before /\ After(i) = Made(first, performed, i)
    BY <1>5, <2>1
  <2>3. Made(first, performed, i) = Change(before, r)
    <3> HIDE DEF k
    <3> QED BY <2>1, MadeStep
  <2>4. before \in LocalSettings(menu)
    <3> HIDE DEF k
    <3> QED BY <1>1, <1>2, <2>1, MadeType
  <2>5. r \in Changes(menu) /\ r.do = "add"
    BY <1>2, <1>8, <2>1, ElementOfSeq
  <2>6. before.roots \notin {None, <<>>}
    BY <1>8, <2>2
  <2> HIDE DEF k, r, before
  <2>7. Change(before, r).roots = AddRoot(before.roots, entry)
    BY <1>1, <2>4, <2>5, ChangeType
  <2>8. before.roots \in Seq(Fit(menu)) /\ entry \in Fit(menu)
    BY <1>1, <2>4, <2>5, <2>6, LocalParts, EntriesFit
  <2> DEFINE old == before.roots
  <2>9. ToSet(NormalizedRoots(old)) \subseteq ToSet(NormalizedRoots(AddRoot(old, entry)))
    <3>1. old \in Seq(Fit(menu)) /\ old # <<>>
      BY <2>6, <2>8
    <3> HIDE DEF old, entry
    <3> QED BY <1>1, <2>8, <3>1, AddKeeps
  <2> QED BY <2>2, <2>3, <2>7, <2>9 DEF k
<1>9. ASSUME NEW i \in DOMAIN Listed(local.roots)
      PROVE  \/ ToSet(local.roots[i].path) \cap (Wild \cup Dangerous) # {}
             \/ \E j \in 1 .. i - 1 : NameOf(local.roots[j]) = NameOf(local.roots[i])
             \/ [db_root |-> NameOf(local.roots[i]), source |-> Target(local.roots[i].path),
                 external |-> local.roots[i].external] \in ToSet(NormalizedRoots(Configured))
  <2> DEFINE roots == local.roots
  <2>1. roots # None
    BY <1>9 DEF Listed
  <2>2. roots \in Seq(Fit(menu)) /\ Listed(roots) = roots /\ Configured = roots
    BY <1>1, <1>2, <2>1, LocalParts DEF Listed, Configured, Merge
  <2>3. i \in 1 .. Len(roots)
    BY <1>9, <2>2, LenProperties
  <2> HIDE DEF roots
  <2>4. \/ ToSet(roots[i].path) \cap (Wild \cup Dangerous) # {}
        \/ \E j \in 1 .. i - 1 : NameOf(roots[j]) = NameOf(roots[i])
        \/ [db_root |-> NameOf(roots[i]), source |-> Target(roots[i].path),
            external |-> roots[i].external] \in ToSet(NormalizedRoots(roots))
    BY <1>1, <2>2, <2>3, ListedEffective
  <2> QED BY <2>2, <2>4 DEF roots
<1> QED BY <1>6, <1>7, <1>8, <1>9

\* A command that goes on or ends does not change what it is asked.
LEMMA SkipOn ==
  ASSUME DOMAIN cmd = Commands, NEW c \in Commands, NEW now, DOMAIN now = DOMAIN Idle, NEW n,
         Skip(c, now, n)
  PROVE  cmd'[c] = Idle \/ cmd'[c].request = now.request
BY DEF Skip, Idle

\* A command that goes on knows what it knew.
LEMMA GoOn ==
  ASSUME DOMAIN cmd = Commands, NEW c \in Commands, NEW now, DOMAIN now = DOMAIN Idle,
         Go(c, now)
  PROVE  /\ DOMAIN cmd' = Commands /\ \A d \in Commands \ {c} : cmd'[d] = cmd[d]
         /\ Len(now.steps) = 1 => cmd'[c] = Idle
         /\ Len(now.steps) # 1 =>
              /\ cmd'[c].steps = SubSeq(now.steps, 1 + 1, Len(now.steps))
              /\ cmd'[c].request = now.request /\ cmd'[c].copy = now.copy
              /\ cmd'[c].roots = now.roots /\ cmd'[c].scan = now.scan
              /\ cmd'[c].cache = now.cache /\ cmd'[c].since = now.since
<1> DEFINE rest == SubSeq(now.steps, 1 + 1, Len(now.steps))
<1>1. cmd' = [cmd EXCEPT ![c] = IF Len(now.steps) = 1 THEN Idle ELSE [now EXCEPT !.steps = rest]]
  BY DEF Go, Skip
<1> HIDE DEF rest
<1>2. /\ DOMAIN cmd' = Commands /\ \A d \in Commands \ {c} : cmd'[d] = cmd[d]
      /\ cmd'[c] = IF Len(now.steps) = 1 THEN Idle ELSE [now EXCEPT !.steps = rest]
  BY <1>1
<1>3. Len(now.steps) # 1 => cmd'[c] = [now EXCEPT !.steps = rest]
  BY <1>2
<1>4. Len(now.steps) # 1 => cmd'[c].steps = rest
  BY <1>3 DEF Idle
<1>5. Len(now.steps) # 1 =>
        /\ cmd'[c].request = now.request /\ cmd'[c].copy = now.copy
        /\ cmd'[c].roots = now.roots /\ cmd'[c].scan = now.scan
        /\ cmd'[c].cache = now.cache /\ cmd'[c].since = now.since
  BY <1>3 DEF Idle
<1> QED BY <1>2, <1>4, <1>5 DEF rest

\* The steps of a command on the roots, one after the other.
LEMMA StepsOfSetting ==
  /\ Len(ToRead) = 3 /\ ToRead # <<>> /\ Head(ToRead) = <<"read", "local">>
  /\ Len(ToTruncate) = 2 /\ ToTruncate # <<>> /\ Head(ToTruncate) = <<"truncate", "local">>
  /\ Len(ToWrite) = 1 /\ ToWrite # <<>> /\ Head(ToWrite) = <<"write", "local">>
  /\ ToRead # ToTruncate /\ ToRead # ToWrite /\ ToTruncate # ToWrite
  /\ SubSeq(ToRead, 1 + 1, Len(ToRead)) = ToTruncate
  /\ SubSeq(ToTruncate, 1 + 1, Len(ToTruncate)) = ToWrite
<1>1. /\ Len(ToRead) = 3 /\ ToRead[1] = <<"read", "local">>
      /\ ToRead[2] = <<"truncate", "local">> /\ ToRead[3] = <<"write", "local">>
  BY DEF ToRead
<1>2. /\ Len(ToTruncate) = 2 /\ ToTruncate[1] = <<"truncate", "local">>
      /\ ToTruncate[2] = <<"write", "local">>
  BY DEF ToTruncate
<1>3. Len(ToWrite) = 1 /\ ToWrite[1] = <<"write", "local">>
  BY DEF ToWrite
<1>4. ToRead \in Seq(SettingSteps) /\ ToTruncate \in Seq(SettingSteps) /\ ToWrite \in Seq(SettingSteps)
  <2> DEFINE S == SettingSteps
  <2>1. <<"read", "local">> \in S /\ <<"truncate", "local">> \in S /\ <<"write", "local">> \in S
    BY DEF SettingSteps
  <2>2. \A x, y, z \in S : <<x, y, z>> \in Seq(S)
    OBVIOUS
  <2>3. \A y, z \in S : <<y, z>> \in Seq(S)
    OBVIOUS
  <2>4. \A z \in S : <<z>> \in Seq(S)
    OBVIOUS
  <2> HIDE DEF S
  <2>5. ToRead \in Seq(S) /\ ToTruncate \in Seq(S) /\ ToWrite \in Seq(S)
    BY <2>1, <2>2, <2>3, <2>4 DEF ToRead, ToTruncate, ToWrite
  <2> QED BY <2>5 DEF S
<1>5. SubSeq(ToRead, 1 + 1, Len(ToRead)) = ToTruncate
  <2> DEFINE rest == SubSeq(ToRead, 1 + 1, Len(ToRead))
  <2>1. 1 \in 1 .. Len(ToRead) /\ 1 # Len(ToRead)
    BY <1>1
  <2>2. rest \in Seq(SettingSteps) /\ Len(rest) = Len(ToRead) - 1
        /\ \A i \in 1 .. Len(rest) : rest[i] = ToRead[1 + i]
    BY <1>4, <2>1, RestOfSteps
  <2> HIDE DEF rest
  <2>3. Len(rest) = 2 /\ rest[1] = ToRead[2] /\ rest[2] = ToRead[3]
    BY <1>1, <2>2
  <2>4. \A i \in 1 .. Len(rest) : rest[i] = ToTruncate[i]
    <3>1. \A i \in 1 .. Len(rest) : i = 1 \/ i = 2
      BY <2>3
    <3> QED BY <1>1, <1>2, <2>3, <3>1
  <2>5. rest = ToTruncate
    BY <1>2, <1>4, <2>2, <2>3, <2>4, SeqEqual
  <2> QED BY <2>5 DEF rest
<1>6. SubSeq(ToTruncate, 1 + 1, Len(ToTruncate)) = ToWrite
  <2> DEFINE rest == SubSeq(ToTruncate, 1 + 1, Len(ToTruncate))
  <2>1. 1 \in 1 .. Len(ToTruncate) /\ 1 # Len(ToTruncate)
    BY <1>2
  <2>2. rest \in Seq(SettingSteps) /\ Len(rest) = Len(ToTruncate) - 1
        /\ \A i \in 1 .. Len(rest) : rest[i] = ToTruncate[1 + i]
    BY <1>4, <2>1, RestOfSteps
  <2> HIDE DEF rest
  <2>3. Len(rest) = 1 /\ rest[1] = ToTruncate[2]
    BY <1>2, <2>2
  <2>4. \A i \in 1 .. Len(rest) : rest[i] = ToWrite[i]
    <3>1. \A i \in 1 .. Len(rest) : i = 1
      BY <2>3
    <3> QED BY <1>2, <1>3, <2>3, <3>1
  <2>5. rest = ToWrite
    BY <1>3, <1>4, <2>2, <2>3, <2>4, SeqEqual
  <2> QED BY <2>5 DEF rest
<1>7. /\ ToRead # <<>> /\ ToTruncate # <<>> /\ ToWrite # <<>>
      /\ Head(ToRead) = ToRead[1] /\ Head(ToTruncate) = ToTruncate[1] /\ Head(ToWrite) = ToWrite[1]
      /\ ToRead # ToTruncate /\ ToRead # ToWrite /\ ToTruncate # ToWrite
  <2>1. Head(ToRead) = ToRead[1] /\ Head(ToTruncate) = ToTruncate[1] /\ Head(ToWrite) = ToWrite[1]
    BY DEF ToRead, ToTruncate, ToWrite
  <2>2. ToRead # ToTruncate /\ ToRead # ToWrite /\ ToTruncate # ToWrite
    BY <1>1, <1>2, <1>3
  <2>3. ToRead # <<>> /\ ToTruncate # <<>> /\ ToWrite # <<>>
    BY <1>1, <1>2, <1>3, EmptySeq
  <2> QED BY <2>1, <2>2, <2>3
<1> QED BY <1>1, <1>2, <1>3, <1>5, <1>6, <1>7

\* A step of what is not a command on the roots.
LEMMA Undisturbed ==
  ASSUME SettingsInv, menu' = menu, first' = first, local' = local, performed' = performed,
         "settings" \notin upset' => "settings" \notin upset,
         \A c \in Commands :
           /\ Setting(c)' => /\ Setting(c) /\ cmd'[c].request = cmd[c].request
                             /\ cmd'[c].steps = cmd[c].steps /\ cmd'[c].copy = cmd[c].copy
           /\ Truncated(c) => Setting(c)' \/ "settings" \in upset'
           /\ cmd'[c] # Idle /\ ~Setting(c)' =>
                \A i \in DOMAIN cmd'[c].steps : cmd'[c].steps[i] \notin SettingSteps
  PROVE  SettingsInv'
<1>1. Wanted' = Wanted
  BY DEF Wanted
<1>2. \A c \in Commands : HasRead(c)' => HasRead(c)
  BY DEF HasRead
<1>3. \A c \in Commands : SettingOK(c)'
  BY <1>2 DEF SettingsInv, SettingOK, HasRead
<1>4. ASSUME "settings" \notin upset'
      PROVE  /\ OneSetting'
             /\ \A c \in Commands : HasRead(c)' => cmd'[c].copy = Change(Wanted', cmd'[c].request)
             /\ (\A c \in Commands : ~Truncated(c)') => local' = Wanted'
  <2>1. OneSetting'
    BY <1>4 DEF SettingsInv, OneSetting
  <2>2. \A c \in Commands : HasRead(c)' => cmd'[c].copy = Change(Wanted', cmd'[c].request)
    <3> SUFFICES ASSUME NEW c \in Commands, HasRead(c)'
                 PROVE  cmd'[c].copy = Change(Wanted', cmd'[c].request)
      OBVIOUS
    <3>1. /\ HasRead(c) /\ cmd'[c].copy = cmd[c].copy /\ cmd'[c].request = cmd[c].request
      BY <1>2 DEF HasRead
    <3>2. cmd[c].copy = Change(Wanted, cmd[c].request)
      BY <1>4, <3>1 DEF SettingsInv
    <3> QED BY <1>1, <3>1, <3>2
  <2>3. \A c \in Commands : Truncated(c) => Truncated(c)'
    BY <1>4 DEF Truncated
  <2> QED BY <1>1, <1>4, <2>1, <2>2, <2>3 DEF SettingsInv
<1>5. /\ first' \in LocalSettings(menu') /\ local' \in LocalSettings(menu')
      /\ performed' \in Seq(Changes(menu'))
  BY DEF SettingsInv
<1> QED BY <1>3, <1>4, <1>5 DEF SettingsInv, SettingOK, OneSetting, HasRead, Truncated, Setting

\* A service step goes on or ends the command.
LEMMA ServiceStepGoes ==
  ASSUME Typed, NEW c \in Commands, ServiceStep(c)
  PROVE  cmd'[c] = Idle \/ cmd'[c].request = cmd[c].request
<1>1. DOMAIN cmd = Commands /\ DOMAIN cmd[c] = DOMAIN Idle
  BY TypedCommand
<1>2. CASE Finish(c)
  BY <1>1, <1>2 DEF Finish
<1>3. ASSUME NEW n, Skip(c, cmd[c], n)
      PROVE  cmd'[c] = Idle \/ cmd'[c].request = cmd[c].request
  BY <1>1, <1>3, SkipOn
<1>4. ASSUME NEW p, NEW n, Skip(c, [cmd[c] EXCEPT !.pid = p], n)
      PROVE  cmd'[c] = Idle \/ cmd'[c].request = cmd[c].request
  <2> DEFINE now == [cmd[c] EXCEPT !.pid = p]
  <2>1. DOMAIN now = DOMAIN Idle /\ now.request = cmd[c].request /\ Skip(c, now, n)
    BY <1>1, <1>4 DEF Idle
  <2> HIDE DEF now
  <2> QED BY <1>1, <2>1, SkipOn
<1>5. \/ Finish(c)
      \/ \E n : Skip(c, cmd[c], n)
      \/ \E p, n : Skip(c, [cmd[c] EXCEPT !.pid = p], n)
  BY DEF ServiceStep, CheckService, CheckStale, RemovePid, Spawn, TruncatePid, WritePid, FindPid,
     Terminate, Go
<1> QED BY <1>2, <1>3, <1>4, <1>5

LEMMA ServiceStepSettings ==
  ASSUME Typed, SettingsInv, NEW c \in Commands, ServiceStep(c)
  PROVE  SettingsInv'
<1>1. Turn(c) /\ (cmd'[c] = Idle \/ cmd'[c].request = cmd[c].request)
  BY ServiceStepTyped, ServiceStepGoes
<1>2. UNCHANGED <<menu, settings>> /\ upset \subseteq upset'
  BY DEF ServiceStep, CheckService, CheckStale, RemovePid, Spawn, TruncatePid, WritePid, FindPid,
     Terminate, Quiet, ghosts
<1>3. ~Setting(c) /\ ~Setting(c)'
  BY <1>1 DEF Turn, Servicing, Setting
<1>4. cmd'[c] # Idle => \A i \in DOMAIN cmd'[c].steps : cmd'[c].steps[i] \notin SettingSteps
  <2> SUFFICES ASSUME cmd'[c] # Idle, NEW i \in DOMAIN cmd'[c].steps
               PROVE  cmd'[c].steps[i] \notin SettingSteps
    OBVIOUS
  <2>1. Servicing(c)'
    BY <1>1 DEF Turn, Servicing
  <2>2. cmd'[c].steps \in Seq(ServiceOps \X Services)
    BY <1>1, <2>1 DEF Turn, Planned
  <2>3. cmd'[c].steps[i] \in ServiceOps \X Services
    BY <2>2, ElementOfSeq, LenProperties
  <2> QED BY <2>3 DEF SettingSteps, Services
<1>5. \A d \in Commands :
        /\ Setting(d)' => /\ Setting(d) /\ cmd'[d].request = cmd[d].request
                          /\ cmd'[d].steps = cmd[d].steps /\ cmd'[d].copy = cmd[d].copy
        /\ Truncated(d) => Setting(d)' \/ "settings" \in upset'
        /\ cmd'[d] # Idle /\ ~Setting(d)' =>
             \A i \in DOMAIN cmd'[d].steps : cmd'[d].steps[i] \notin SettingSteps
  <2> SUFFICES ASSUME NEW d \in Commands
               PROVE  /\ Setting(d)' => /\ Setting(d) /\ cmd'[d].request = cmd[d].request
                                        /\ cmd'[d].steps = cmd[d].steps /\ cmd'[d].copy = cmd[d].copy
                      /\ Truncated(d) => Setting(d)' \/ "settings" \in upset'
                      /\ cmd'[d] # Idle /\ ~Setting(d)' =>
                           \A i \in DOMAIN cmd'[d].steps : cmd'[d].steps[i] \notin SettingSteps
    OBVIOUS
  <2>1. CASE d = c
    BY <1>3, <1>4, <2>1 DEF Truncated
  <2>2. CASE d # c
    <3>1. cmd'[d] = cmd[d] /\ SettingOK(d)
      BY <1>1, <2>2 DEF Turn, SettingsInv
    <3> QED BY <3>1 DEF Setting, Truncated, SettingOK
  <2> QED BY <2>1, <2>2
<1> QED BY <1>2, <1>5, Undisturbed DEF settings

LEMMA ProcessStepSettings ==
  ASSUME Typed, SettingsInv, NEW p \in Pids, ProcessStep(p)
  PROVE  SettingsInv'
<1>1. UNCHANGED <<menu, settings>> /\ upset \subseteq upset'
  BY DEF ProcessStep, Bind, GiveUp, Crash, Dies, Reuse, Exit, Flush, ProcessPath, Notice, Quiet, ghosts
<1>2. \A d \in Commands : /\ cmd[d] = Idle <=> cmd'[d] = Idle
                          /\ cmd'[d].request = cmd[d].request /\ cmd'[d].steps = cmd[d].steps
                          /\ cmd'[d].copy = cmd[d].copy
  <2>1. CASE GiveUp(p) \/ Crash(p)
    <3> SUFFICES ASSUME NEW d \in Commands
                 PROVE  /\ cmd[d] = Idle <=> cmd'[d] = Idle
                        /\ cmd'[d].request = cmd[d].request /\ cmd'[d].steps = cmd[d].steps
                        /\ cmd'[d].copy = cmd[d].copy
      OBVIOUS
    <3>1. cmd'[d] = IF cmd[d] = Idle THEN Idle ELSE [cmd[d] EXCEPT !.sound = FALSE]
      BY <2>1 DEF GiveUp, Crash, Dies
    <3>2. Planned(d) /\ DOMAIN cmd[d] = DOMAIN Idle
      BY TypedCommand
    <3>3. CASE cmd[d] = Idle
      BY <3>1, <3>3
    <3>4. CASE cmd[d] # Idle
      <4>1. /\ cmd'[d].request = cmd[d].request /\ cmd'[d].steps = cmd[d].steps
            /\ cmd'[d].copy = cmd[d].copy
        BY <3>1, <3>2, <3>4 DEF Idle
      <4>2. cmd[d].steps # <<>>
        BY <3>2, <3>4 DEF Planned
      <4> QED BY <3>4, <4>1, <4>2 DEF Idle
    <3> QED BY <3>3, <3>4
  <2>2. CASE ~(GiveUp(p) \/ Crash(p))
    <3>1. cmd' = cmd
      BY <2>2 DEF ProcessStep, Bind, Reuse, Exit, Flush, ProcessPath, Notice, Quiet
    <3> QED BY <3>1
  <2> QED BY <2>1, <2>2
<1>3. \A d \in Commands :
        /\ Setting(d)' => /\ Setting(d) /\ cmd'[d].request = cmd[d].request
                          /\ cmd'[d].steps = cmd[d].steps /\ cmd'[d].copy = cmd[d].copy
        /\ Truncated(d) => Setting(d)' \/ "settings" \in upset'
        /\ cmd'[d] # Idle /\ ~Setting(d)' =>
             \A i \in DOMAIN cmd'[d].steps : cmd'[d].steps[i] \notin SettingSteps
  <2> SUFFICES ASSUME NEW d \in Commands
               PROVE  /\ Setting(d)' => /\ Setting(d) /\ cmd'[d].request = cmd[d].request
                                        /\ cmd'[d].steps = cmd[d].steps /\ cmd'[d].copy = cmd[d].copy
                      /\ Truncated(d) => Setting(d)' \/ "settings" \in upset'
                      /\ cmd'[d] # Idle /\ ~Setting(d)' =>
                           \A i \in DOMAIN cmd'[d].steps : cmd'[d].steps[i] \notin SettingSteps
    OBVIOUS
  <2>1. SettingOK(d)
    BY DEF SettingsInv
  <2> QED BY <1>2, <2>1 DEF Setting, Truncated, SettingOK
<1> QED BY <1>1, <1>3, Undisturbed DEF settings

LEMMA CutSettings ==
  ASSUME Typed, SettingsInv, NEW c \in Commands, CutShort(c)
  PROVE  SettingsInv'
<1>1. /\ cmd'[c] = Idle /\ \A d \in Commands \ {c} : cmd'[d] = cmd[d]
  BY CutTurn
<1>2. /\ UNCHANGED <<menu, settings>> /\ upset \subseteq upset'
      /\ About(cmd[c].request) = "settings" /\ At(c, "write", "local") => "settings" \in upset'
  BY DEF CutShort
<1>3. Truncated(c) => "settings" \in upset'
  BY <1>2, StepsOfSetting DEF Truncated, Setting, At
<1>4. \A d \in Commands :
        /\ Setting(d)' => /\ Setting(d) /\ cmd'[d].request = cmd[d].request
                          /\ cmd'[d].steps = cmd[d].steps /\ cmd'[d].copy = cmd[d].copy
        /\ Truncated(d) => Setting(d)' \/ "settings" \in upset'
        /\ cmd'[d] # Idle /\ ~Setting(d)' =>
             \A i \in DOMAIN cmd'[d].steps : cmd'[d].steps[i] \notin SettingSteps
  <2> SUFFICES ASSUME NEW d \in Commands
               PROVE  /\ Setting(d)' => /\ Setting(d) /\ cmd'[d].request = cmd[d].request
                                        /\ cmd'[d].steps = cmd[d].steps /\ cmd'[d].copy = cmd[d].copy
                      /\ Truncated(d) => Setting(d)' \/ "settings" \in upset'
                      /\ cmd'[d] # Idle /\ ~Setting(d)' =>
                           \A i \in DOMAIN cmd'[d].steps : cmd'[d].steps[i] \notin SettingSteps
    OBVIOUS
  <2>1. CASE d = c
    BY <1>1, <1>3, <2>1 DEF Setting
  <2>2. CASE d # c
    <3>1. cmd'[d] = cmd[d] /\ SettingOK(d)
      BY <1>1, <2>2 DEF SettingsInv
    <3> QED BY <3>1 DEF Setting, Truncated, SettingOK
  <2> QED BY <2>1, <2>2
<1> QED BY <1>2, <1>4, Undisturbed DEF settings

\* Command c is at a step of the settings: it is an index add or index remove.
LEMMA AtSetting ==
  ASSUME Typed, SettingsInv, NEW c \in Commands, NEW step \in SettingSteps,
         cmd[c].steps # <<>>, Head(cmd[c].steps) = step
  PROVE  /\ Setting(c) /\ SettingOK(c) /\ DOMAIN cmd = Commands /\ DOMAIN cmd[c] = DOMAIN Idle
         /\ step = <<"read", "local">> => cmd[c].steps = ToRead
         /\ step = <<"truncate", "local">> => cmd[c].steps = ToTruncate
         /\ step = <<"write", "local">> => cmd[c].steps = ToWrite
<1>1. DOMAIN cmd = Commands /\ Planned(c) /\ DOMAIN cmd[c] = DOMAIN Idle /\ SettingOK(c)
  BY TypedCommand DEF SettingsInv
<1>2. cmd[c] # Idle
  BY DEF Idle
<1>3. cmd[c].steps \in Seq(ToSet(cmd[c].steps)) /\ Len(cmd[c].steps) \in Nat \ {0}
  BY <1>1, EmptySeq, LenProperties DEF Planned
<1>4. Head(cmd[c].steps) = cmd[c].steps[1] /\ 1 \in DOMAIN cmd[c].steps
  BY <1>3, EmptySeq, LenProperties
<1>5. Setting(c)
  BY <1>1, <1>2, <1>4 DEF SettingOK
<1>6. cmd[c].steps \in {ToRead, ToTruncate, ToWrite}
  BY <1>1, <1>5 DEF SettingOK
<1> QED BY <1>1, <1>5, <1>6, StepsOfSetting

LEMMA SettingRequest ==
  ASSUME Typed, NEW c \in Commands, Setting(c)
  PROVE  cmd[c].request \in menu.requests /\ cmd[c].request.do \in {"add", "remove"}
<1>1. cmd[c].request \in menu.requests
  BY TypedCommand DEF Planned, Setting
<1>2. cmd[c].request.do \in {"start", "stop", "restart", "add", "remove", "index", "file"}
  BY <1>1, Requested
<1> QED BY <1>1, <1>2 DEF Setting, About

LEMMA ReadGoes ==
  ASSUME Typed, SettingsInv, NEW c \in Commands, ReadSettings(c)
  PROVE  SettingsInv'
<1>1. At(c, "read", "local") /\ UNCHANGED <<menu, settings, upset>>
  BY DEF ReadSettings, ghosts
<1>2. /\ Setting(c) /\ SettingOK(c) /\ DOMAIN cmd = Commands /\ DOMAIN cmd[c] = DOMAIN Idle
      /\ cmd[c].steps = ToRead
  BY <1>1, AtSetting DEF At, SettingSteps
<1>3. menu \in Menus /\ cmd[c].request \in menu.requests /\ cmd[c].request.do \in {"add", "remove"}
  BY <1>2, SettingRequest DEF Typed, TypeOK
<1>4. CASE Finish(c)
  <2>1. cmd'[c] = Idle /\ \A d \in Commands \ {c} : cmd'[d] = cmd[d]
    BY <1>2, <1>4 DEF Finish
  <2>2. ~Truncated(c)
    BY <1>2, StepsOfSetting DEF Truncated
  <2>3. ASSUME NEW d \in Commands
        PROVE  /\ Setting(d)' => /\ Setting(d) /\ cmd'[d].request = cmd[d].request
                                 /\ cmd'[d].steps = cmd[d].steps /\ cmd'[d].copy = cmd[d].copy
               /\ Truncated(d) => Setting(d)' \/ "settings" \in upset'
               /\ cmd'[d] # Idle /\ ~Setting(d)' =>
                    \A i \in DOMAIN cmd'[d].steps : cmd'[d].steps[i] \notin SettingSteps
    <3>1. CASE d = c
      BY <2>1, <2>2, <3>1 DEF Setting
    <3>2. CASE d # c
      <4>1. cmd'[d] = cmd[d] /\ SettingOK(d)
        BY <2>1, <3>2 DEF SettingsInv
      <4> QED BY <4>1 DEF Setting, Truncated, SettingOK
    <3> QED BY <3>1, <3>2
  <2> QED BY <1>1, <2>3, Undisturbed DEF settings
<1>5. CASE ~Refuses(cmd[c].request) /\ Go(c, [cmd[c] EXCEPT !.copy = Change(local, cmd[c].request)])
  <2> DEFINE copy == Change(local, cmd[c].request)
             now == [cmd[c] EXCEPT !.copy = copy]
  <2>1. /\ DOMAIN now = DOMAIN Idle /\ now.steps = ToRead /\ now.request = cmd[c].request
        /\ now.copy = copy
    BY <1>2 DEF Idle
  <2>2. Go(c, now)
    BY <1>5
  <2> HIDE DEF now
  <2>3. /\ \A d \in Commands \ {c} : cmd'[d] = cmd[d]
        /\ cmd'[c].steps = ToTruncate /\ cmd'[c].request = cmd[c].request /\ cmd'[c].copy = copy
    <3>1. Len(now.steps) # 1
      BY <2>1, StepsOfSetting
    <3>2. /\ \A d \in Commands \ {c} : cmd'[d] = cmd[d]
          /\ cmd'[c].steps = SubSeq(now.steps, 1 + 1, Len(now.steps))
          /\ cmd'[c].request = now.request /\ cmd'[c].copy = now.copy
      <4> HIDE DEF copy
      <4> QED BY <1>2, <2>1, <2>2, <3>1, GoOn
    <3>3. SubSeq(now.steps, 1 + 1, Len(now.steps)) = ToTruncate
      BY <2>1, StepsOfSetting
    <3> HIDE DEF copy
    <3> QED BY <2>1, <3>2, <3>3
  <2>4. cmd'[c] # Idle
    BY <2>3, StepsOfSetting DEF Idle
  <2>5. Setting(c)' /\ ~Truncated(c)' /\ HasRead(c)' /\ ~HasRead(c) /\ ~Truncated(c)
    BY <1>2, <2>3, <2>4, StepsOfSetting DEF Setting, Truncated, HasRead
  <2>6. cmd[c].request \in Changes(menu)
    BY <1>3, <1>5 DEF Changes, Refuses
  <2>7. copy \in LocalSettings(menu)
    BY <1>3, <2>6, ChangeType DEF SettingsInv
  <2> HIDE DEF copy
  <2>8. \A d \in Commands : SettingOK(d)'
    <3> SUFFICES ASSUME NEW d \in Commands
                 PROVE  SettingOK(d)'
      OBVIOUS
    <3>1. CASE d = c
      BY <1>1, <2>3, <2>5, <2>6, <2>7, <3>1 DEF SettingOK
    <3>2. CASE d # c
      <4>1. cmd'[d] = cmd[d] /\ SettingOK(d)
        BY <2>3, <3>2 DEF SettingsInv
      <4> QED BY <1>1, <4>1 DEF SettingOK, Setting, HasRead
    <3> QED BY <3>1, <3>2
  <2>9. Wanted' = Wanted
    BY <1>1 DEF Wanted, settings
  <2>10. \A d \in Commands \ {c} : /\ Setting(d)' <=> Setting(d)
                                   /\ HasRead(d)' <=> HasRead(d)
                                   /\ Truncated(d)' <=> Truncated(d)
    BY <2>3 DEF Setting, HasRead, Truncated
  <2>11. ASSUME "settings" \notin upset
         PROVE  /\ OneSetting'
                /\ \A d \in Commands : HasRead(d)' => cmd'[d].copy = Change(Wanted, cmd'[d].request)
                /\ local = Wanted
    <3>1. OneSetting /\ \A d \in Commands \ {c} : ~Setting(d) /\ ~Truncated(d) /\ ~HasRead(d)
      BY <1>2, <2>11 DEF SettingsInv, OneSetting, Truncated, HasRead
    <3>2. OneSetting'
      BY <2>10, <3>1 DEF OneSetting
    <3>3. local = Wanted
      BY <2>5, <2>11, <3>1 DEF SettingsInv
    <3>4. \A d \in Commands : HasRead(d)' => d = c
      BY <2>10, <3>1
    <3>5. copy = Change(Wanted, cmd[c].request)
      BY <3>3 DEF copy
    <3> QED BY <2>3, <3>2, <3>3, <3>4, <3>5
  <2> QED BY <1>1, <2>8, <2>9, <2>11 DEF SettingsInv, settings
<1> QED BY <1>4, <1>5 DEF ReadSettings

LEMMA TruncateGoes ==
  ASSUME Typed, SettingsInv, NEW c \in Commands, TruncateSettings(c)
  PROVE  SettingsInv'
<1>1. /\ At(c, "truncate", "local") /\ local' = NoSettings /\ Go(c, cmd[c])
      /\ UNCHANGED <<menu, first, performed, upset>>
  BY DEF TruncateSettings
<1>2. /\ Setting(c) /\ SettingOK(c) /\ DOMAIN cmd = Commands /\ DOMAIN cmd[c] = DOMAIN Idle
      /\ cmd[c].steps = ToTruncate
  BY <1>1, AtSetting DEF At, SettingSteps
<1>3. local' \in LocalSettings(menu)
  <2>1. [roots |-> None, rest |-> FALSE] \in [roots : Seq(Fit(menu)) \cup {None}, rest : BOOLEAN]
    OBVIOUS
  <2> QED BY <1>1, <2>1 DEF NoSettings, LocalSettings, Fit
<1>4. /\ \A d \in Commands \ {c} : cmd'[d] = cmd[d]
      /\ cmd'[c].steps = ToWrite /\ cmd'[c].request = cmd[c].request /\ cmd'[c].copy = cmd[c].copy
  <2> DEFINE now == cmd[c]
  <2>1. Go(c, now) /\ DOMAIN now = DOMAIN Idle /\ now.steps = ToTruncate
    BY <1>1, <1>2
  <2>2. Len(now.steps) # 1 /\ SubSeq(now.steps, 1 + 1, Len(now.steps)) = ToWrite
    BY <2>1, StepsOfSetting
  <2> HIDE DEF now
  <2>3. /\ \A d \in Commands \ {c} : cmd'[d] = cmd[d]
        /\ cmd'[c].steps = SubSeq(now.steps, 1 + 1, Len(now.steps))
        /\ cmd'[c].request = now.request /\ cmd'[c].copy = now.copy
    BY <1>2, <2>1, <2>2, GoOn
  <2> QED BY <2>2, <2>3 DEF now
<1>5. cmd'[c] # Idle
  BY <1>4, StepsOfSetting DEF Idle
<1>6. Setting(c)' /\ Truncated(c)' /\ HasRead(c)' /\ HasRead(c)
  BY <1>2, <1>4, <1>5, StepsOfSetting DEF Setting, Truncated, HasRead
<1>7. \A d \in Commands \ {c} : /\ Setting(d)' <=> Setting(d)
                                /\ HasRead(d)' <=> HasRead(d)
  BY <1>4 DEF Setting, HasRead
<1>8. \A d \in Commands : SettingOK(d)'
  <2> SUFFICES ASSUME NEW d \in Commands
               PROVE  SettingOK(d)'
    OBVIOUS
  <2>1. CASE d = c
    BY <1>1, <1>2, <1>4, <1>6, <2>1 DEF SettingOK
  <2>2. CASE d # c
    <3>1. cmd'[d] = cmd[d] /\ SettingOK(d)
      BY <1>4, <2>2 DEF SettingsInv
    <3> QED BY <1>1, <3>1 DEF SettingOK, Setting, HasRead
  <2> QED BY <2>1, <2>2
<1>9. Wanted' = Wanted
  BY <1>1 DEF Wanted
<1>10. ASSUME "settings" \notin upset
       PROVE  /\ OneSetting'
              /\ \A d \in Commands : HasRead(d)' => cmd'[d].copy = Change(Wanted, cmd'[d].request)
  <2>1. /\ OneSetting
        /\ \A d \in Commands : HasRead(d) => cmd[d].copy = Change(Wanted, cmd[d].request)
    BY <1>10 DEF SettingsInv
  <2>2. OneSetting'
    BY <1>2, <1>6, <1>7, <2>1 DEF OneSetting
  <2>3. \A d \in Commands : /\ HasRead(d)' => HasRead(d)
                            /\ cmd'[d].copy = cmd[d].copy /\ cmd'[d].request = cmd[d].request
    BY <1>4, <1>6, <1>7
  <2> QED BY <2>1, <2>2, <2>3
<1> QED BY <1>1, <1>3, <1>6, <1>8, <1>9, <1>10 DEF SettingsInv

LEMMA WriteGoes ==
  ASSUME Typed, SettingsInv, NEW c \in Commands, WriteSettings(c)
  PROVE  SettingsInv'
<1>1. /\ At(c, "write", "local") /\ local' = cmd[c].copy /\ Go(c, cmd[c])
      /\ performed' = Append(performed, cmd[c].request)
      /\ UNCHANGED <<menu, first, upset>>
  BY DEF WriteSettings
<1>2. /\ Setting(c) /\ SettingOK(c) /\ DOMAIN cmd = Commands /\ DOMAIN cmd[c] = DOMAIN Idle
      /\ cmd[c].steps = ToWrite
  BY <1>1, AtSetting DEF At, SettingSteps
<1>3. HasRead(c) /\ cmd[c].request \in Changes(menu) /\ cmd[c].copy \in LocalSettings(menu)
  BY <1>2 DEF SettingOK, HasRead
<1>4. cmd'[c] = Idle /\ \A d \in Commands \ {c} : cmd'[d] = cmd[d]
  <2>1. Len(cmd[c].steps) = 1
    BY <1>2, StepsOfSetting
  <2> QED BY <1>1, <1>2, <2>1, GoOn
<1>5. ~Setting(c)' /\ ~HasRead(c)'
  BY <1>4 DEF Setting, HasRead
<1>6. \A d \in Commands \ {c} : /\ Setting(d)' <=> Setting(d)
                                /\ HasRead(d)' <=> HasRead(d)
  BY <1>4 DEF Setting, HasRead
<1>7. \A d \in Commands : SettingOK(d)'
  <2> SUFFICES ASSUME NEW d \in Commands
               PROVE  SettingOK(d)'
    OBVIOUS
  <2>1. CASE d = c
    BY <1>4, <1>5, <2>1 DEF SettingOK
  <2>2. CASE d # c
    <3>1. cmd'[d] = cmd[d] /\ SettingOK(d)
      BY <1>4, <2>2 DEF SettingsInv
    <3> QED BY <1>1, <3>1 DEF SettingOK, Setting, HasRead
  <2> QED BY <2>1, <2>2
<1>8. performed \in Seq(Changes(menu)) /\ first \in LocalSettings(menu)
  BY DEF SettingsInv
<1>9. performed' \in Seq(Changes(menu))
  BY <1>1, <1>3, <1>8, AppendProperties
<1>10. Wanted' = Change(Wanted, cmd[c].request)
  <2> DEFINE request == cmd[c].request
  <2>1. request \in Changes(menu)
    BY <1>3
  <2> HIDE DEF request
  <2>2. Made(first, Append(performed, request), Len(Append(performed, request))) =
          Change(Made(first, performed, Len(performed)), request)
    BY <1>8, <2>1, MadeMore
  <2> QED BY <1>1, <2>2 DEF Wanted, request
<1>11. ASSUME "settings" \notin upset
       PROVE  OneSetting' /\ (\A d \in Commands : ~HasRead(d)') /\ local' = Wanted'
  <2>1. OneSetting /\ cmd[c].copy = Change(Wanted, cmd[c].request)
    BY <1>3, <1>11 DEF SettingsInv
  <2>2. \A d \in Commands : ~Setting(d)'
    BY <1>2, <1>5, <1>6, <2>1 DEF OneSetting
  <2> QED BY <1>1, <1>10, <2>1, <2>2 DEF OneSetting, HasRead
<1> QED BY <1>1, <1>3, <1>7, <1>8, <1>9, <1>11 DEF SettingsInv

\* What another command does, as long as it does not come to a step of the settings.
LEMMA OthersSettings ==
  ASSUME Typed, SettingsInv, UNCHANGED <<menu, settings, upset>>, NEW c \in Commands, ~Setting(c),
         \A d \in Commands \ {c} : cmd'[d] = cmd[d],
         cmd'[c] # Idle => /\ cmd[c] # Idle /\ cmd'[c].request = cmd[c].request
                           /\ \A i \in DOMAIN cmd'[c].steps : cmd'[c].steps[i] \notin SettingSteps
  PROVE  SettingsInv'
<1>1. ~Setting(c)'
  BY DEF Setting
<1>2. ASSUME NEW d \in Commands
      PROVE  /\ Setting(d)' => /\ Setting(d) /\ cmd'[d].request = cmd[d].request
                               /\ cmd'[d].steps = cmd[d].steps /\ cmd'[d].copy = cmd[d].copy
             /\ Truncated(d) => Setting(d)' \/ "settings" \in upset'
             /\ cmd'[d] # Idle /\ ~Setting(d)' =>
                  \A i \in DOMAIN cmd'[d].steps : cmd'[d].steps[i] \notin SettingSteps
  <2>1. CASE d = c
    BY <1>1, <2>1 DEF Truncated
  <2>2. CASE d # c
    <3>1. cmd'[d] = cmd[d] /\ SettingOK(d)
      BY <2>2 DEF SettingsInv
    <3> QED BY <3>1 DEF Setting, Truncated, SettingOK
  <2> QED BY <2>1, <2>2
<1> QED BY <1>2, Undisturbed DEF settings

\* What follows the steps it has left.
LEMMA RestNoSetting ==
  ASSUME DOMAIN cmd = Commands, NEW c \in Commands, NEW now, DOMAIN now = DOMAIN Idle,
         NEW S, \A x \in S : x \notin SettingSteps, now.steps \in Seq(S), now.steps # <<>>,
         Go(c, now)
  PROVE  /\ \A d \in Commands \ {c} : cmd'[d] = cmd[d]
         /\ cmd'[c] # Idle => /\ cmd'[c].request = now.request
                              /\ \A i \in DOMAIN cmd'[c].steps : cmd'[c].steps[i] \notin SettingSteps
<1>1. /\ \A d \in Commands \ {c} : cmd'[d] = cmd[d]
      /\ Len(now.steps) = 1 => cmd'[c] = Idle
      /\ Len(now.steps) # 1 => /\ cmd'[c].steps = SubSeq(now.steps, 1 + 1, Len(now.steps))
                               /\ cmd'[c].request = now.request
  BY GoOn
<1>2. CASE Len(now.steps) = 1
  BY <1>1, <1>2
<1>3. CASE Len(now.steps) # 1
  <2> DEFINE rest == SubSeq(now.steps, 1 + 1, Len(now.steps))
  <2>1. 1 \in 1 .. Len(now.steps)
    BY EmptySeq
  <2>2. rest \in Seq(S)
    BY <1>3, <2>1, RestOfSteps
  <2>3. cmd'[c].steps = rest
    BY <1>1, <1>3
  <2> HIDE DEF rest
  <2>4. \A i \in DOMAIN rest : rest[i] \in S
    BY <2>2, ElementOfSeq, LenProperties
  <2> QED BY <1>1, <1>3, <2>3, <2>4
<1> QED BY <1>2, <1>3

RowsStep(c) ==
  LoadSettings(c) \/ Scan(c) \/ Sweep(c) \/ ReadCached(c) \/ IndexRow(c) \/ Report(c)

LEMMA RowsStepSettings ==
  ASSUME Typed, SettingsInv, NEW c \in Commands, RowsStep(c)
  PROVE  SettingsInv'
<1>1. /\ cmd[c].steps # <<>> /\ Head(cmd[c].steps) \notin SettingSteps
      /\ UNCHANGED <<menu, settings, upset>>
  BY DEF RowsStep, LoadSettings, Scan, Sweep, ReadCached, IndexRow, Report, At, SettingSteps, ghosts
<1>2. /\ DOMAIN cmd = Commands /\ Planned(c) /\ DOMAIN cmd[c] = DOMAIN Idle /\ SettingOK(c)
      /\ IsFiniteSet(cmd[c].scan)
  BY TypedCommand DEF Planned, SettingsInv
<1>3. cmd[c] # Idle
  BY <1>1 DEF Idle
<1>4. ~Setting(c)
  BY <1>1, <1>2, StepsOfSetting DEF SettingOK, SettingSteps
<1> DEFINE S == ToSet(cmd[c].steps)
<1>5. cmd[c].steps \in Seq(S) /\ \A x \in S : x \notin SettingSteps
  <2>1. cmd[c].steps \in Seq(S)
    BY <1>2 DEF Planned
  <2>2. \A i \in DOMAIN cmd[c].steps : cmd[c].steps[i] \notin SettingSteps
    BY <1>2, <1>3, <1>4 DEF SettingOK
  <2> QED BY <2>1, <2>2 DEF ToSet
<1> HIDE DEF S
<1>6. ASSUME NEW now, DOMAIN now = DOMAIN Idle, now.request = cmd[c].request, Go(c, now),
             NEW T, \A x \in T : x \notin SettingSteps, now.steps \in Seq(T), now.steps # <<>>
      PROVE  SettingsInv'
  <2>1. /\ \A d \in Commands \ {c} : cmd'[d] = cmd[d]
        /\ cmd'[c] # Idle => /\ cmd'[c].request = cmd[c].request
                             /\ \A i \in DOMAIN cmd'[c].steps : cmd'[c].steps[i] \notin SettingSteps
    BY <1>2, <1>6, RestNoSetting
  <2> QED BY <1>1, <1>3, <1>4, <2>1, OthersSettings
<1>7. CASE Report(c)
  <2>1. cmd'[c] = Idle /\ \A d \in Commands \ {c} : cmd'[d] = cmd[d]
    BY <1>2, <1>7 DEF Report, Finish
  <2> QED BY <1>1, <1>4, <2>1, OthersSettings
<1>8. CASE LoadSettings(c)
  <2> DEFINE now == [cmd[c] EXCEPT !.roots = Configured]
  <2>1. Go(c, now)
    BY <1>8 DEF LoadSettings
  <2>2. DOMAIN now = DOMAIN Idle /\ now.steps = cmd[c].steps /\ now.request = cmd[c].request
    BY <1>2 DEF Idle
  <2> HIDE DEF now
  <2> QED BY <1>1, <1>5, <1>6, <2>1, <2>2
<1>9. CASE Scan(c)
  <2> DEFINE now == [cmd[c] EXCEPT !.scan = ScanFiles(Configured)]
  <2>1. Go(c, now)
    BY <1>9 DEF Scan
  <2>2. DOMAIN now = DOMAIN Idle /\ now.steps = cmd[c].steps /\ now.request = cmd[c].request
    BY <1>2 DEF Idle
  <2> HIDE DEF now
  <2> QED BY <1>1, <1>5, <1>6, <2>1, <2>2
<1>10. CASE Sweep(c)
  <2> DEFINE report == << <<"report", "rows">> >>
             paths == cmd[c].scan
             kept == [d \in DOMAIN rows \cap cmd[c].scan |-> rows[d]]
             steps == cmd[c].steps \o RowSteps(paths) \o report
             now == [cmd[c] EXCEPT !.cache = kept, !.steps = steps]
             T == S \cup ({"row"} \X paths) \cup {<<"report", "rows">>}
  <2>1. Go(c, now)
    BY <1>10 DEF Sweep
  <2>2. DOMAIN now = DOMAIN Idle /\ now.steps = steps /\ now.request = cmd[c].request
    BY <1>2 DEF Idle
  <2>3. \A step \in T : step \notin SettingSteps
    BY <1>5 DEF SettingSteps
  <2>4. cmd[c].steps \in Seq(T) /\ RowSteps(paths) \in Seq(T) /\ report \in Seq(T)
    <3>1. RowSteps(paths) \in Seq({"row"} \X paths)
      BY <1>2, RowStepsType
    <3>2. report \in Seq({<<"report", "rows">>})
      BY OfOnes
    <3> QED BY <1>5, <3>1, <3>2, SeqMonotonic
  <2> HIDE DEF T, report, now
  <2>5. cmd[c].steps \o RowSteps(paths) \in Seq(T)
    BY <2>4, ConcatProperties
  <2>6. steps \in Seq(T) /\ Len(report) = 1 /\ Len(steps) = Len(cmd[c].steps \o RowSteps(paths)) + 1
    BY <2>4, <2>5, ConcatProperties, OfOnes DEF report
  <2>7. steps # <<>>
    <3>1. Len(cmd[c].steps \o RowSteps(paths)) \in Nat
      BY <2>5, LenProperties
    <3> DEFINE m == Len(cmd[c].steps \o RowSteps(paths))
               n == Len(steps)
    <3>2. m \in Nat /\ n = m + 1
      BY <2>6, <3>1
    <3> HIDE DEF m, n
    <3>3. n # 0
      BY <3>2
    <3>4. Len(steps) # 0
      BY <3>3 DEF n
    <3> HIDE DEF steps
    <3> QED BY <2>6, <3>4, EmptySeq
  <2> HIDE DEF steps
  <2> QED BY <1>6, <2>1, <2>2, <2>3, <2>6, <2>7
<1>11. CASE ReadCached(c)
  <2> DEFINE row == <<"row", cmd[c].request.path>>
             steps == Append(cmd[c].steps, row)
             now == [cmd[c] EXCEPT !.cache = rows, !.steps = steps]
             T == S \cup {row}
  <2>1. Go(c, now)
    BY <1>11 DEF ReadCached
  <2>2. DOMAIN now = DOMAIN Idle /\ now.steps = steps /\ now.request = cmd[c].request
    BY <1>2 DEF Idle
  <2>3. \A step \in T : step \notin SettingSteps
    BY <1>5 DEF SettingSteps
  <2>4. cmd[c].steps \in Seq(T) /\ row \in T
    BY <1>5, SeqMonotonic
  <2> HIDE DEF T, row, now
  <2>5. steps \in Seq(T) /\ steps # <<>>
    BY <2>4, AppendProperties
  <2> HIDE DEF steps
  <2> QED BY <1>6, <2>1, <2>2, <2>3, <2>5
<1>12. CASE IndexRow(c)
  <2> DEFINE now == cmd[c]
  <2>1. Go(c, now)
    BY <1>12 DEF IndexRow
  <2> QED BY <1>1, <1>2, <1>5, <1>6, <2>1
<1> QED BY <1>7, <1>8, <1>9, <1>10, <1>11, <1>12 DEF RowsStep

LEMMA RunSettings ==
  ASSUME Typed, SettingsInv, NEW c \in Commands, NEW request \in menu.requests, Run(c, request)
  PROVE  SettingsInv'
<1>1. /\ cmd' = [cmd EXCEPT ![c] = [Idle EXCEPT !.request = request, !.steps = Program(request),
                                                !.since = stirs]]
      /\ cmd[c] = Idle /\ UNCHANGED <<menu, settings>>
      /\ upset' = upset \cup
           {About(request) : d \in {d \in Commands : /\ cmd[d] # Idle
                                                     /\ About(cmd[d].request) = About(request)}}
  BY DEF Run
<1> DEFINE steps == Program(request)
<1>2. /\ \A d \in Commands \ {c} : cmd'[d] = cmd[d]
      /\ cmd'[c].request = request /\ cmd'[c].steps = steps
  BY <1>1, TypedCommand DEF Idle
<1>3. request.do \in {"start", "stop", "restart", "add", "remove", "index", "file"}
  BY Requested
<1>4. /\ request.do \in {"add", "remove"} => steps = ToRead /\ About(request) = "settings"
      /\ request.do \notin {"add", "remove"} =>
           /\ About(request) # "settings"
           /\ \A i \in DOMAIN steps : steps[i] \notin SettingSteps
  <2>1. CASE request.do \in {"start", "stop", "restart"}
    <3>1. steps \in Seq(ServiceSteps)
      BY <2>1, ProgramShaped
    <3> HIDE DEF steps
    <3>2. \A i \in DOMAIN steps : steps[i] \in ServiceSteps
      BY <3>1, ElementOfSeq, LenProperties
    <3>3. About(request) = "services"
      BY <2>1 DEF About
    <3> QED BY <2>1, <3>2, <3>3 DEF ServiceSteps, SettingSteps, Services
  <2>2. CASE request.do \in {"add", "remove"}
    BY <2>2 DEF Program, About, ToRead
  <2>3. CASE request.do \in {"index", "file"}
    <3>1. \/ steps = << <<"load", "rows">>, <<"scan", "rows">>, <<"sweep", "rows">> >>
          \/ steps = << <<"load", "rows">>, <<"cached", "rows">> >>
      BY <2>3 DEF Program
    <3> HIDE DEF steps
    <3>2. \A i \in DOMAIN steps : steps[i][2] = "rows"
      BY <3>1
    <3>3. About(request) = "rows"
      BY <2>3 DEF About
    <3> QED BY <2>3, <3>2, <3>3 DEF SettingSteps
  <2> QED BY <1>3, <2>1, <2>2, <2>3
<1> HIDE DEF steps
<1>5. steps # <<>> /\ cmd'[c] # Idle
  <2>1. steps # <<>>
    BY <1>3, ProgramShaped, OtherProgramShaped DEF steps
  <2> QED BY <1>2, <2>1 DEF Idle
<1>6. Setting(c)' <=> request.do \in {"add", "remove"}
  BY <1>2, <1>4, <1>5 DEF Setting
<1>7. ~Setting(c) /\ ~HasRead(c)' /\ ~Truncated(c) /\ ~Truncated(c)'
  BY <1>1, <1>2, <1>4, <1>6, StepsOfSetting DEF Setting, HasRead, Truncated
<1>8. \A d \in Commands \ {c} : /\ Setting(d)' <=> Setting(d)
                                /\ HasRead(d)' <=> HasRead(d)
                                /\ Truncated(d)' <=> Truncated(d)
  BY <1>2 DEF Setting, HasRead, Truncated
<1>9. \A d \in Commands : SettingOK(d)'
  <2> SUFFICES ASSUME NEW d \in Commands
               PROVE  SettingOK(d)'
    OBVIOUS
  <2>1. CASE d = c
    BY <1>2, <1>4, <1>6, <1>7, <2>1 DEF SettingOK
  <2>2. CASE d # c
    <3>1. cmd'[d] = cmd[d] /\ SettingOK(d)
      BY <1>2, <2>2 DEF SettingsInv
    <3> QED BY <1>1, <3>1 DEF SettingOK, Setting, HasRead
  <2> QED BY <2>1, <2>2
<1>10. Wanted' = Wanted
  BY <1>1 DEF Wanted, settings
<1>11. ASSUME "settings" \notin upset'
       PROVE  /\ OneSetting'
              /\ \A d \in Commands : HasRead(d)' => cmd'[d].copy = Change(Wanted, cmd'[d].request)
              /\ (\A d \in Commands : ~Truncated(d)') => local = Wanted
  <2>1. "settings" \notin upset
    BY <1>1, <1>11
  <2>2. Setting(c)' => \A d \in Commands : ~Setting(d)
    BY <1>1, <1>4, <1>6, <1>11 DEF Setting
  <2>3. OneSetting'
    BY <1>8, <2>1, <2>2 DEF SettingsInv, OneSetting
  <2>4. \A d \in Commands : HasRead(d)' => cmd'[d].copy = Change(Wanted, cmd'[d].request)
    <3> SUFFICES ASSUME NEW d \in Commands, HasRead(d)'
                 PROVE  cmd'[d].copy = Change(Wanted, cmd'[d].request)
      OBVIOUS
    <3>1. cmd'[d] = cmd[d] /\ HasRead(d)
      BY <1>2, <1>7, <1>8
    <3>2. cmd[d].copy = Change(Wanted, cmd[d].request)
      BY <2>1, <3>1 DEF SettingsInv
    <3> QED BY <3>1, <3>2
  <2>5. (\A d \in Commands : ~Truncated(d)') => local = Wanted
    BY <1>7, <1>8, <2>1 DEF SettingsInv
  <2> QED BY <2>3, <2>4, <2>5
<1> QED BY <1>1, <1>9, <1>10, <1>11 DEF SettingsInv, settings

LEMMA NextSettings ==
  ASSUME Typed, SettingsInv, [Next]_vars
  PROVE  SettingsInv'
<1>1. ASSUME NEW c \in Commands,
             \/ \E request \in menu.requests : Run(c, request)
             \/ ServiceStep(c) \/ OtherStep(c) \/ CutShort(c)
      PROVE  SettingsInv'
  <2>1. OtherStep(c) =>
          ReadSettings(c) \/ TruncateSettings(c) \/ WriteSettings(c) \/ RowsStep(c)
    BY DEF OtherStep, RowsStep
  <2> QED BY <1>1, <2>1, RunSettings, ServiceStepSettings, ReadGoes, TruncateGoes, WriteGoes,
             RowsStepSettings, CutSettings
<1>2. CASE UNCHANGED vars
  <2>1. \A c \in Commands : SettingOK(c)
    BY DEF SettingsInv
  <2>2. ASSUME NEW c \in Commands
        PROVE  /\ Setting(c)' => /\ Setting(c) /\ cmd'[c].request = cmd[c].request
                                 /\ cmd'[c].steps = cmd[c].steps /\ cmd'[c].copy = cmd[c].copy
               /\ Truncated(c) => Setting(c)' \/ "settings" \in upset'
               /\ cmd'[c] # Idle /\ ~Setting(c)' =>
                    \A i \in DOMAIN cmd'[c].steps : cmd'[c].steps[i] \notin SettingSteps
    BY <1>2, <2>1 DEF vars, Setting, Truncated, SettingOK
  <2> QED BY <1>2, <2>2, Undisturbed DEF vars, settings, ghosts
<1>3. CASE Next
  BY <1>1, <1>3, StepSplits, ProcessStepSettings
<1> QED BY <1>2, <1>3

(***************************************************************************)
(* Unless two of them overlapped or one was cut short, the local settings  *)
(* are what index add and index remove make of them one after the other,   *)
(* whatever else runs or fails meanwhile: each of their roots that may be  *)
(* one is effective unless an earlier one has its name, none is taken away *)
(* by another that is added, and the other settings stay as they were.     *)
(***************************************************************************)
THEOREM RootsCommanded == Spec => []RootsAsCommanded
<1>1. Init => Typed /\ SettingsInv
  BY TypedInit, InitSettings
<1>2. Typed /\ SettingsInv /\ [Next]_vars => (Typed /\ SettingsInv)'
  BY NextTyped, NextSettings
<1>3. Typed /\ SettingsInv => RootsAsCommanded
  BY SettingsAsCommanded
<1> QED BY <1>1, <1>2, <1>3, PTL DEF Spec

-----------------------------------------------------------------------------
(***************************************************************************)
(* The database paths of source files, and the files these stand for.      *)
(***************************************************************************)
\* What every effective root is.
RootOK(root) ==
  /\ PathOK(root.source) /\ PathOK(root.db_root) /\ root.external \in BOOLEAN
  /\ root.external => Len(root.db_root) = 2 /\ root.db_root[1] = External
  /\ ~ root.external => root.source = Workspace \o root.db_root

LEMMA RootFits ==
  ASSUME NEW entry, EntryOK(entry), Accepted(entry)
  PROVE  RootOK(ParseRoot(entry))
<1> DEFINE path == entry.path
           target == Target(path)
           name == IF entry.external THEN <<External, AliasOf(entry.alias, target)>>
                   ELSE Below(target, Workspace)
<1>1. PathOK(path) /\ entry.external \in BOOLEAN
  BY DEF EntryOK
<1>2. PathOK(target)
  BY <1>1, TargetIs
<1>3. ParseRoot(entry) = [db_root |-> name, source |-> target, external |-> entry.external]
  BY DEF ParseRoot
<1>4. CASE entry.external
  <2> DEFINE a == AliasOf(entry.alias, target)
             pair == <<External, a>>
  <2>1. name = pair
    BY <1>4
  <2> HIDE DEF a
  <2>2. pair \in Seq({External, a}) /\ Len(pair) = 2 /\ pair[1] = External
    OBVIOUS
  <2> HIDE DEF pair
  <2>3. PathOK(pair)
    BY <2>2, OfItsElements DEF PathOK
  <2> HIDE DEF name, target
  <2> QED BY <1>1, <1>2, <1>3, <1>4, <2>1, <2>2, <2>3 DEF RootOK
<1>5. CASE ~ entry.external
  <2> DEFINE S == ToSet(target) \cup ToSet(Workspace)
  <2>1. name = Below(target, Workspace) /\ StartsWith(target, Workspace)
    BY <1>5 DEF Accepted
  <2> HIDE DEF name, target
  <2>2. target \in Seq(S) /\ Workspace \in Seq(S)
    BY <1>2, Together, RootsAssumption
  <2> HIDE DEF S
  <2>3. name \in Seq(S) /\ Workspace \o name = target
    BY <2>1, <2>2, BelowIs
  <2>4. PathOK(name)
    BY <2>3, OfItsElements DEF PathOK
  <2> QED BY <1>1, <1>2, <1>3, <1>5, <2>3, <2>4 DEF RootOK
<1> QED BY <1>1, <1>4, <1>5

LEMMA RootsFit ==
  ASSUME NEW m \in Menus, NEW roots \in Seq(Sound(m)) \cup {None}
  PROVE  LET all == NormalizedRoots(roots)
         IN  /\ Len(all) \in Nat /\ DOMAIN all = 1 .. Len(all) /\ Distinct(all)
             /\ \A i \in DOMAIN all : RootOK(all[i])
<1> DEFINE whole == TextEntry(Nothing)
           E == Sound(m) \cup {whole}
           list == EffectiveRoots(roots)
           all == NormalizedRoots(roots)
<1>1. EntryOK(whole)
  <2>1. PathOK(Nothing)
    BY EmptySeq DEF PathOK, Nothing
  <2> QED BY <2>1 DEF TextEntry, EntryOK
<1>2. \A entry \in E : EntryOK(entry)
  BY <1>1 DEF Sound
<1>3. list \in Seq(E)
  <2>1. CASE roots \in {None, <<>>}
    <3>1. list = <<whole>>
      BY <2>1 DEF EffectiveRoots, Nothing
    <3> HIDE DEF whole, list
    <3>2. <<whole>> \in Seq({whole})
      BY OfOnes
    <3> QED BY <3>1, <3>2, SeqMonotonic
  <2>2. CASE ~ (roots \in {None, <<>>})
    <3>1. list = roots /\ roots \in Seq(Sound(m))
      BY <2>2 DEF EffectiveRoots
    <3> HIDE DEF whole, list
    <3> QED BY <3>1, SeqMonotonic
  <2> QED BY <2>1, <2>2
<1> HIDE DEF E, whole
<1>4. Len(list) \in Nat
  BY <1>3, LenProperties
<1>5. all = Kept(list, Len(list))
  BY <1>4, NormalizedRootsIs DEF Kept
<1> HIDE DEF list, all
<1>6. all \in Seq(RootsOf(E)) /\ Distinct(all)
  BY <1>3, <1>4, <1>5, KeptIs
<1>7. /\ Len(all) \in Nat /\ DOMAIN all = 1 .. Len(all)
      /\ \A i \in DOMAIN all : all[i] \in RootsOf(E)
  BY <1>6, ElementOfSeq, LenProperties
<1>8. \A root \in RootsOf(E) : RootOK(root)
  BY <1>2, RootFits DEF RootsOf
<1> QED BY <1>6, <1>7, <1>8 DEF all

LEMMA MinIs ==
  ASSUME NEW S \in SUBSET Nat, S # {}
  PROVE  Min(S) \in S /\ \A y \in S : Min(S) <= y
<1> DEFINE R == OpToRel(<, Nat)
<1>1. PICK x \in S : \A y \in S : ~ (<<y, x>> \in R)
  <2>1. IsWellFoundedOn(R, Nat)
    BY NatLessThanWellFounded
  <2> HIDE DEF R
  <2> QED BY <2>1, WFMin
<1>2. \A y \in S : ~ (y < x)
  BY <1>1 DEF OpToRel
<1>3. \A y \in S : x <= y
  BY <1>2
<1> QED BY <1>3 DEF Min

\* The least is the only one.
LEMMA MinOnce ==
  ASSUME NEW S \in SUBSET Nat, NEW x \in S, \A y \in S : x <= y
  PROVE  Min(S) = x
<1>1. Min(S) \in S /\ Min(S) <= x
  BY MinIs
<1>2. x \in Nat /\ Min(S) \in Nat /\ x <= Min(S)
  BY <1>1
<1> QED BY <1>1, <1>2

\* Root k is the first that contains f.
FirstAround(roots, f, k) ==
  LET all == NormalizedRoots(roots)
  IN  /\ k \in DOMAIN all /\ StartsWith(f, all[k].source)
      /\ \A j \in DOMAIN all : StartsWith(f, all[j].source) => k <= j

LEMMA AroundExists ==
  ASSUME NEW m \in Menus, NEW roots \in Seq(Sound(m)) \cup {None}, NEW f,
         NEW i \in DOMAIN NormalizedRoots(roots), StartsWith(f, NormalizedRoots(roots)[i].source)
  PROVE  \E k \in DOMAIN NormalizedRoots(roots) : FirstAround(roots, f, k)
<1> DEFINE all == NormalizedRoots(roots)
           around == {j \in DOMAIN all : StartsWith(f, all[j].source)}
<1>1. Len(all) \in Nat /\ DOMAIN all = 1 .. Len(all)
  BY RootsFit
<1>2. around \in SUBSET Nat /\ around # {}
  BY <1>1
<1>3. Min(around) \in around /\ \A j \in around : Min(around) <= j
  <2> HIDE DEF around
  <2> QED BY <1>2, MinIs
<1>4. FirstAround(roots, f, Min(around))
  BY <1>3 DEF FirstAround
<1> QED BY <1>3, <1>4

LEMMA DbPathIs ==
  ASSUME NEW m \in Menus, NEW roots \in Seq(Sound(m)) \cup {None}, NEW f,
         NEW k, FirstAround(roots, f, k)
  PROVE  LET root == NormalizedRoots(roots)[k]
         IN  DbPath(roots, f) = root.db_root \o Below(f, root.source)
<1> DEFINE all == NormalizedRoots(roots)
           around == {j \in DOMAIN all : StartsWith(f, all[j].source)}
<1>1. Len(all) \in Nat /\ DOMAIN all = 1 .. Len(all)
  BY RootsFit
<1>2. around \in SUBSET Nat /\ k \in around /\ \A j \in around : k <= j
  BY <1>1 DEF FirstAround
<1>3. DbPath(roots, f) =
        IF around = {} THEN None
        ELSE FirstOf(all, around).db_root \o Below(f, FirstOf(all, around).source)
  BY DEF DbPath
<1>4. Min(around) = k /\ around # {}
  <2> HIDE DEF around
  <2> QED BY <1>2, MinOnce
<1> HIDE DEF around
<1> QED BY <1>3, <1>4 DEF FirstOf

\* A database path that is not None is by a root.
LEMMA DbPathRooted ==
  ASSUME NEW m \in Menus, NEW roots \in Seq(Sound(m)) \cup {None}, NEW f,
         DbPath(roots, f) # None
  PROVE  \E k \in DOMAIN NormalizedRoots(roots) : FirstAround(roots, f, k)
<1> DEFINE all == NormalizedRoots(roots)
           around == {j \in DOMAIN all : StartsWith(f, all[j].source)}
<1>1. around # {}
  BY DEF DbPath
<1>2. PICK i \in DOMAIN all : StartsWith(f, all[i].source)
  BY <1>1
<1> QED BY <1>2, AroundExists

\* Three paths of the same names.
LEMMA AllTogether ==
  ASSUME NEW p, NEW q, NEW r, PathOK(p), PathOK(q), PathOK(r)
  PROVE  \E S : /\ p \in Seq(S) /\ q \in Seq(S) /\ r \in Seq(S)
                /\ Workspace \in Seq(S) /\ <<External>> \in Seq(S)
<1> DEFINE S == ToSet(p) \cup ToSet(q) \cup ToSet(r) \cup ToSet(Workspace) \cup {External}
<1>1. <<External>> \in Seq({External})
  BY OfOnes
<1>2. /\ p \in Seq(ToSet(p)) /\ q \in Seq(ToSet(q)) /\ r \in Seq(ToSet(r))
      /\ Workspace \in Seq(ToSet(Workspace))
  BY RootsAssumption DEF PathOK
<1>3. /\ p \in Seq(S) /\ q \in Seq(S) /\ r \in Seq(S)
      /\ Workspace \in Seq(S) /\ <<External>> \in Seq(S)
  BY <1>1, <1>2, SeqMonotonic
<1> QED BY <1>3

LEMMA Externally ==
  ASSUME NEW S, NEW p \in Seq(S), <<External>> \in Seq(S)
  PROVE  StartsWith(p, <<External>>) <=> Len(p) >= 1 /\ p[1] = External
<1> DEFINE q == <<External>>
<1>1. Len(q) = 1 /\ q[1] = External
  BY OfOnes
<1> HIDE DEF q
<1>2. StartsWith(p, q) <=> 1 <= Len(p) /\ \A i \in 1 .. 1 : p[i] = q[i]
  BY <1>1, StartsWithIs DEF q
<1>3. Len(p) \in Nat
  BY LenProperties
<1> QED BY <1>1, <1>2, <1>3 DEF q

LEMMA Regrouped ==
  ASSUME NEW S, NEW p \in Seq(S), NEW q \in Seq(S), NEW r \in Seq(S)
  PROVE  (p \o q) \o r = p \o (q \o r)
BY ConcatAssociative

\* The path a file has in the database stands for the file, unless it is a path of the
\* workspace that looks like one of another root.
LEMMA SourceOf ==
  ASSUME NEW m \in Menus, NEW roots \in Seq(Sound(m)) \cup {None}, NEW f, PathOK(f),
         NEW k, FirstAround(roots, f, k)
  PROVE  LET d == DbPath(roots, f)
         IN  /\ PathOK(d)
             /\ SourcePath(roots, d) = f \/ (StartsWith(d, <<External>>) /\ Workspace \o d = f)
<1> DEFINE all == NormalizedRoots(roots)
           root == all[k]
           name == root.db_root
           source == root.source
           below == Below(f, source)
           d == DbPath(roots, f)
<1>1. /\ k \in DOMAIN all /\ StartsWith(f, source) /\ Distinct(all)
      /\ Len(all) \in Nat /\ DOMAIN all = 1 .. Len(all) /\ \A i \in DOMAIN all : RootOK(all[i])
  BY RootsFit DEF FirstAround
<1>2. /\ PathOK(source) /\ PathOK(name) /\ root.external \in BOOLEAN
      /\ root.external => Len(name) = 2 /\ name[1] = External
      /\ ~ root.external => source = Workspace \o name
  BY <1>1 DEF RootOK
<1>3. d = name \o below
  BY DbPathIs
<1>4. SourcePath(roots, d) =
        IF ~ StartsWith(d, <<External>>) THEN Workspace \o d
        ELSE LET named == {i \in DOMAIN all : all[i].external /\ StartsWith(d, all[i].db_root)}
             IN IF named = {} THEN None
                ELSE FirstOf(all, named).source \o Below(d, FirstOf(all, named).db_root)
  BY DEF SourcePath
<1> HIDE DEF d
<1>5. PICK S : /\ f \in Seq(S) /\ source \in Seq(S) /\ name \in Seq(S)
               /\ Workspace \in Seq(S) /\ <<External>> \in Seq(S)
  <2> HIDE DEF source, name
  <2> QED BY <1>2, AllTogether
<1>6. below \in Seq(S) /\ source \o below = f
  <2> HIDE DEF source
  <2> QED BY <1>1, <1>5, BelowIs
<1>7. /\ d \in Seq(S) /\ StartsWith(d, name) /\ Below(d, name) = below
      /\ Len(d) = Len(name) + Len(below)
  <2> HIDE DEF source, name, below
  <2> QED BY <1>3, <1>5, <1>6, JoinedPaths
<1>8. PathOK(d)
  BY <1>7, OfItsElements DEF PathOK
<1>9. CASE root.external
  <2> DEFINE named == {i \in DOMAIN all : all[i].external /\ StartsWith(d, all[i].db_root)}
  <2>1. StartsWith(d, <<External>>)
    <3> HIDE DEF root, source, name, below
    <3>1. Len(d) >= 1 /\ d[1] = External
      <4>1. Len(name) = 2 /\ name[1] = External
        BY <1>2, <1>9 DEF name
      <4>2. Len(d) \in Nat /\ 2 <= Len(d) /\ \A i \in 1 .. 2 : d[i] = name[i]
        <5>1. name \in Seq(S) /\ d \in Seq(S) /\ StartsWith(d, name)
          BY <1>5, <1>7
        <5>2. Len(name) <= Len(d) /\ \A i \in 1 .. Len(name) : d[i] = name[i]
          BY <5>1, StartsWithIs
        <5>3. Len(d) \in Nat
          BY <5>1, LenProperties
        <5> QED BY <4>1, <5>2, <5>3
      <4> QED BY <4>1, <4>2
    <3> QED BY <1>5, <1>7, <3>1, Externally
  <2>2. named \in SUBSET Nat /\ k \in named
    BY <1>1, <1>7, <1>9
  <2>3. ASSUME NEW i \in named
        PROVE  i = k
    <3> DEFINE other == all[i].db_root
    <3>1. i \in DOMAIN all /\ PathOK(other) /\ Len(other) = 2 /\ StartsWith(d, other)
      BY <1>1 DEF RootOK
    <3>2. Len(name) = 2
      BY <1>2, <1>9
    <3> HIDE DEF other, name, root, named
    <3>3. PICK T : d \in Seq(T) /\ other \in Seq(T) /\ name \in Seq(T)
      BY <1>2, <1>8, <3>1, AllTogether DEF name
    <3>4. /\ \A j \in 1 .. 2 : d[j] = other[j]
          /\ \A j \in 1 .. 2 : d[j] = name[j]
      <4>1. \A j \in 1 .. Len(other) : d[j] = other[j]
        BY <3>1, <3>3, StartsWithIs
      <4>2. \A j \in 1 .. Len(name) : d[j] = name[j]
        BY <1>7, <3>3, StartsWithIs
      <4> QED BY <3>1, <3>2, <4>1, <4>2
    <3>5. \A j \in 1 .. Len(other) : other[j] = name[j]
      BY <3>1, <3>4
    <3>6. other = name
      BY <3>1, <3>2, <3>3, <3>5, SeqEqual
    <3> QED BY <1>1, <3>1, <3>6 DEF other, name, root, Distinct
  <2>4. Min(named) = k
    <3>1. \A y \in named : k <= y
      BY <1>1, <2>2, <2>3
    <3> HIDE DEF named
    <3> QED BY <2>2, <3>1, MinOnce
  <2>5. SourcePath(roots, d) = source \o Below(d, name)
    <3>1. SourcePath(roots, d) =
            IF named = {} THEN None
            ELSE FirstOf(all, named).source \o Below(d, FirstOf(all, named).db_root)
      BY <1>4, <2>1
    <3> HIDE DEF named
    <3> QED BY <2>2, <2>4, <3>1 DEF FirstOf
  <2> QED BY <1>6, <1>7, <1>8, <2>5 DEF d
<1>10. CASE ~ root.external
  <2>1. Workspace \o d = f
    <3> HIDE DEF name, below
    <3>1. (Workspace \o name) \o below = Workspace \o (name \o below)
      BY <1>5, <1>6, Regrouped, SMTT(60)
    <3>2. source = Workspace \o name
      BY <1>2, <1>10 DEF name
    <3> QED BY <1>3, <1>6, <3>1, <3>2
  <2> QED BY <1>4, <1>8, <2>1 DEF d
<1> QED BY <1>2, <1>9, <1>10

\* A path of the workspace that looks like one of another root is below its directory @external.
LEMMA BesideWorkspace ==
  ASSUME NEW d, PathOK(d), StartsWith(d, <<External>>)
  PROVE  StartsWith(Workspace \o d, Append(Workspace, External))
<1> DEFINE w == Workspace
           n == Len(Workspace)
           x == Append(Workspace, External)
           j == Workspace \o d
<1>1. PICK S : d \in Seq(S) /\ w \in Seq(S) /\ <<External>> \in Seq(S)
  BY AllTogether
<1>2. <<External>>[1] = External /\ Len(<<External>>) = 1
  BY OfOnes
<1>3. External \in S
  <2> DEFINE one == <<External>>
  <2>1. one \in Seq(S) /\ Len(one) = 1 /\ one[1] = External
    BY <1>1, <1>2
  <2> HIDE DEF one
  <2> QED BY <2>1, ElementOfSeq
<1>4. /\ x \in Seq(S) /\ Len(x) = n + 1 /\ (\A i \in 1 .. n : x[i] = w[i]) /\ x[n + 1] = External
  BY <1>1, <1>3, AppendProperties
<1>5. Len(d) \in Nat /\ Len(d) >= 1 /\ d[1] = External /\ n \in Nat
  BY <1>1, Externally, LenProperties
<1>6. /\ j \in Seq(S) /\ Len(j) = n + Len(d)
      /\ \A i \in 1 .. n + Len(d) : j[i] = IF i <= n THEN w[i] ELSE d[i - n]
  BY <1>1, ConcatProperties
<1> HIDE DEF x, j, n
<1>7. n + 1 \in 1 .. n + Len(d) /\ ~ (n + 1 <= n) /\ (n + 1) - n = 1
  BY <1>5
<1>8. j[n + 1] = External /\ \A i \in 1 .. n : j[i] = w[i]
  BY <1>5, <1>6, <1>7
<1>9. Len(x) <= Len(j) /\ \A i \in 1 .. Len(x) : j[i] = x[i]
  <2>1. \A i \in 1 .. n + 1 : i \in 1 .. n \/ i = n + 1
    BY <1>5
  <2> QED BY <1>4, <1>5, <1>6, <1>8, <2>1
<1>10. StartsWith(j, x)
  BY <1>4, <1>6, <1>9, StartsWithIs
<1> QED BY <1>10 DEF j, x

\* What is joined to a shorter path is shorter, and the same as far as it goes.
LEMMA ShorterJoined ==
  ASSUME NEW S, NEW p \in Seq(S), NEW q \in Seq(S), NEW r \in Seq(S), Len(q) <= Len(r),
         \A i \in 1 .. Len(q) : q[i] = r[i]
  PROVE  ToSet(p \o q) \subseteq ToSet(p \o r)
<1> DEFINE a == p \o q
           b == p \o r
           n == Len(p)
<1>1. /\ a \in Seq(S) /\ Len(a) = n + Len(q)
      /\ \A i \in 1 .. n + Len(q) : a[i] = IF i <= n THEN p[i] ELSE q[i - n]
      /\ b \in Seq(S) /\ Len(b) = n + Len(r)
      /\ \A i \in 1 .. n + Len(r) : b[i] = IF i <= n THEN p[i] ELSE r[i - n]
  BY ConcatProperties
<1>2. n \in Nat /\ Len(q) \in Nat /\ Len(r) \in Nat
  BY LenProperties
<1>3. DOMAIN a = 1 .. n + Len(q) /\ DOMAIN b = 1 .. n + Len(r)
  <2> HIDE DEF a, b, n
  <2> QED BY <1>1, LenProperties
<1> HIDE DEF a, b, n
<1>4. ASSUME NEW i \in DOMAIN a
      PROVE  i \in DOMAIN b /\ a[i] = b[i]
  <2>1. i \in DOMAIN b
    BY <1>2, <1>3
  <2>2. CASE i <= n
    BY <1>1, <1>3, <2>1, <2>2
  <2>3. CASE ~ (i <= n)
    <3>1. i - n \in 1 .. Len(q)
      BY <1>2, <1>3, <2>3
    <3> QED BY <1>1, <1>3, <2>1, <2>3, <3>1
  <2> QED BY <2>2, <2>3
<1>5. ToSet(a) \subseteq ToSet(b)
  BY <1>4 DEF ToSet
<1> QED BY <1>5 DEF a, b

\* A directory between a file and its root: it has the same root, and its database path has
\* no other names.
LEMMA OnTheWay ==
  ASSUME NEW m \in Menus, NEW roots \in Seq(Sound(m)) \cup {None}, NEW f, PathOK(f),
         NEW k, FirstAround(roots, f, k),
         NEW n \in Len(NormalizedRoots(roots)[k].source) .. Len(f)
  PROVE  ToSet(DbPath(roots, SubSeq(f, 1, n))) \subseteq ToSet(DbPath(roots, f))
<1> DEFINE all == NormalizedRoots(roots)
           source == all[k].source
           name == all[k].db_root
           g == SubSeq(f, 1, n)
           l == Len(source)
<1>1. /\ k \in DOMAIN all /\ StartsWith(f, source) /\ \A i \in DOMAIN all : RootOK(all[i])
      /\ \A j \in DOMAIN all : StartsWith(f, all[j].source) => k <= j
  BY RootsFit DEF FirstAround
<1>2. PathOK(source) /\ PathOK(name)
  BY <1>1 DEF RootOK
<1>3. Len(f) \in Nat /\ l \in Nat
  <2> HIDE DEF source
  <2> QED BY <1>2, LenProperties DEF PathOK
<1>4. n \in 0 .. Len(f) /\ l <= n /\ n <= Len(f) /\ n \in Nat
  BY <1>3
<1>5. PICK S : f \in Seq(S) /\ source \in Seq(S) /\ name \in Seq(S)
  <2> HIDE DEF source, name
  <2> QED BY <1>2, AllTogether
<1>6. g \in Seq(S) /\ Len(g) = n /\ \A i \in 1 .. n : g[i] = f[i]
  <2> HIDE DEF l, source, name
  <2> QED BY <1>4, <1>5, FirstNames
<1> HIDE DEF g
<1>7. ASSUME NEW p, PathOK(p), StartsWith(g, p)
      PROVE  StartsWith(f, p)
  <2> HIDE DEF l, source, name
  <2>1. PathOK(g)
    BY <1>6, OfItsElements DEF PathOK
  <2>2. PICK T : f \in Seq(T) /\ g \in Seq(T) /\ p \in Seq(T)
    BY <1>7, <2>1, AllTogether
  <2>3. Len(p) <= n /\ \A i \in 1 .. Len(p) : g[i] = p[i]
    BY <1>6, <1>7, <2>2, StartsWithIs
  <2>4. Len(p) \in Nat
    BY <2>2, LenProperties
  <2>5. Len(p) <= Len(f)
    BY <1>3, <1>4, <2>3, <2>4
  <2>6. \A i \in 1 .. Len(p) : f[i] = p[i]
    BY <1>4, <1>6, <2>3, <2>4
  <2> QED BY <2>2, <2>5, <2>6, StartsWithIs
<1>8. \A i \in 1 .. l : f[i] = source[i]
  <2> HIDE DEF source
  <2> QED BY <1>1, <1>5, StartsWithIs DEF l
<1>9. StartsWith(g, source)
  <2> HIDE DEF source
  <2>1. \A i \in 1 .. l : g[i] = source[i]
    BY <1>3, <1>4, <1>6, <1>8
  <2>2. l <= Len(g)
    BY <1>4, <1>6
  <2> QED BY <1>5, <1>6, <2>1, <2>2, StartsWithIs DEF l
<1>10. FirstAround(roots, g, k)
  <2>1. \A j \in DOMAIN all : StartsWith(g, all[j].source) => k <= j
    BY <1>1, <1>7 DEF RootOK
  <2> QED BY <1>1, <1>9, <2>1 DEF FirstAround
<1>11. DbPath(roots, f) = name \o Below(f, source) /\ DbPath(roots, g) = name \o Below(g, source)
  BY <1>10, DbPathIs
<1> DEFINE a == Below(g, source)
           b == Below(f, source)
<1>12. /\ a \in Seq(S) /\ Len(a) = n - l /\ \A i \in 1 .. n - l : a[i] = g[l + i]
       /\ b \in Seq(S) /\ Len(b) = Len(f) - l /\ \A i \in 1 .. Len(f) - l : b[i] = f[l + i]
  <2> HIDE DEF source
  <2>1. /\ a \in Seq(S) /\ Len(a) = Len(g) - Len(source)
        /\ \A i \in 1 .. Len(g) - Len(source) : a[i] = g[Len(source) + i]
    BY <1>5, <1>6, <1>9, BelowIs
  <2>2. /\ b \in Seq(S) /\ Len(b) = Len(f) - Len(source)
        /\ \A i \in 1 .. Len(f) - Len(source) : b[i] = f[Len(source) + i]
    BY <1>1, <1>5, BelowIs
  <2> QED BY <1>6, <2>1, <2>2 DEF l
<1> HIDE DEF a, b, source, name, l
<1>13. Len(a) <= Len(b) /\ \A i \in 1 .. Len(a) : a[i] = b[i]
  <2>1. Len(a) <= Len(b)
    BY <1>3, <1>4, <1>12
  <2>2. ASSUME NEW i \in 1 .. Len(a)
        PROVE  a[i] = b[i]
    <3>1. i \in 1 .. n - l /\ i \in 1 .. Len(f) - l /\ l + i \in 1 .. n
      BY <1>3, <1>4, <1>12
    <3> QED BY <1>6, <1>12, <3>1
  <2> QED BY <2>1, <2>2
<1>14. ToSet(name \o a) \subseteq ToSet(name \o b)
  BY <1>5, <1>12, <1>13, ShorterJoined
<1> QED BY <1>11, <1>14 DEF a, b, g

\* A file with nothing to ignore from the first root around it on is scanned.
LEMMA Scanned ==
  ASSUME NEW m \in Menus, NEW roots \in Seq(Sound(m)) \cup {None}, NEW f \in SourceFiles,
         NEW k, FirstAround(roots, f, k),
         ~ ShouldIgnore(DbPath(roots, f)), ShouldInclude(DbPath(roots, f))
  PROVE  DbPath(roots, f) \in ScanFiles(roots)
<1> DEFINE all == NormalizedRoots(roots)
           root == all[k]
<1>1. k \in DOMAIN all /\ StartsWith(f, root.source) /\ PathOK(f)
  BY RootsAssumption DEF FirstAround
<1>2. ASSUME NEW n \in Len(root.source) .. Len(f)
      PROVE  ~ ShouldIgnore(DbPath(roots, SubSeq(f, 1, n)))
  <2>1. ToSet(DbPath(roots, SubSeq(f, 1, n))) \subseteq ToSet(DbPath(roots, f))
    BY <1>1, <1>2, OnTheWay
  <2> QED BY <2>1 DEF ShouldIgnore
<1>3. f \in Collected(roots, root)
  BY <1>1, <1>2 DEF Collected
<1>4. root \in ToSet(all)
  BY <1>1 DEF ToSet
<1> QED BY <1>3, <1>4 DEF ScanFiles

\* And what is scanned is under a root.
LEMMA ScannedRooted ==
  ASSUME NEW m \in Menus, NEW roots \in Seq(Sound(m)) \cup {None}, NEW d \in ScanFiles(roots)
  PROVE  \E f \in SourceFiles, k \in DOMAIN NormalizedRoots(roots) :
           FirstAround(roots, f, k) /\ d = DbPath(roots, f)
<1> DEFINE all == NormalizedRoots(roots)
<1>1. PICK root \in ToSet(all) : \E f \in Collected(roots, root) : d = DbPath(roots, f)
  BY DEF ScanFiles
<1> PICK f \in Collected(roots, root) : d = DbPath(roots, f)
  BY <1>1
<1>2. PICK i \in DOMAIN all : root = all[i]
  BY <1>1 DEF ToSet
<1>3. f \in SourceFiles /\ StartsWith(f, all[i].source)
  BY <1>1, <1>2 DEF Collected
<1> QED BY <1>1, <1>3, AroundExists

-----------------------------------------------------------------------------
(***************************************************************************)
(* What is known of the rows, and of the commands and watchers that write  *)
(* them.                                                                   *)
(***************************************************************************)
\* The settings as they are.
SettingsFit ==
  menu \in Menus /\ base \in Seq(Sound(menu)) \cup {None} /\ local \in LocalSettings(menu)

\* A database path that a source file has by the settings.
Pathed(d) ==
  \E f \in SourceFiles : \E k \in DOMAIN NormalizedRoots(Configured) :
    FirstAround(Configured, f, k) /\ d = DbPath(Configured, f)

\* A path that stands for the source file it is the path of.
Sure(d) ==
  /\ SourcePath(Configured, d) \in SourceFiles
  /\ DbPath(Configured, SourcePath(Configured, d)) = d

\* Its row is of that file, if index can read it.
Right(d) ==
  SourcePath(Configured, d) \notin Unread => d \in DOMAIN rows /\ rows[d] = SourcePath(Configured, d)

\* But for the paths of todo, the rows are as RowsAsConfigured says.
Settled(todo) ==
  /\ \A d \in DOMAIN rows \ todo : Mistaken(d) \/ (Sure(d) /\ Right(d))
  /\ \A d \in ScanFiles(Configured) \ todo : Sure(d) => Right(d)

LEMMA ConfiguredFits ==
  ASSUME SettingsFit
  PROVE  Configured \in Seq(Sound(menu)) \cup {None}
<1>1. local.roots \in Seq(Fit(menu)) \cup {None}
  BY LocalParts DEF SettingsFit
<1>2. Fit(menu) \subseteq Sound(menu)
  BY DEF Fit
<1>3. local.roots \in Seq(Sound(menu)) \cup {None}
  BY <1>1, <1>2, SeqMonotonic
<1> QED BY <1>3 DEF Configured, Merge, SettingsFit

LEMMA PathedSure ==
  ASSUME SettingsFit, NEW d, Pathed(d)
  PROVE  Sure(d) \/ Mistaken(d)
<1>1. PICK f \in SourceFiles : \E k \in DOMAIN NormalizedRoots(Configured) :
        FirstAround(Configured, f, k) /\ d = DbPath(Configured, f)
  BY DEF Pathed
<1>2. PICK k \in DOMAIN NormalizedRoots(Configured) :
        FirstAround(Configured, f, k) /\ d = DbPath(Configured, f)
  BY <1>1
<1>3. menu \in Menus /\ Configured \in Seq(Sound(menu)) \cup {None} /\ PathOK(f)
  BY ConfiguredFits, RootsAssumption DEF SettingsFit
<1>4. SourcePath(Configured, d) = f \/ (StartsWith(d, <<External>>) /\ Workspace \o d = f)
  BY <1>2, <1>3, SourceOf
<1> QED BY <1>2, <1>4 DEF Sure, Mistaken

\* A path that is scanned, or that a watcher by the same settings looks at.
LEMMA ScannedPathed ==
  ASSUME SettingsFit, NEW d \in ScanFiles(Configured)
  PROVE  Pathed(d)
<1>1. \E f \in SourceFiles, k \in DOMAIN NormalizedRoots(Configured) :
        FirstAround(Configured, f, k) /\ d = DbPath(Configured, f)
  BY ConfiguredFits, ScannedRooted DEF SettingsFit
<1> QED BY <1>1 DEF Pathed

LEMMA NoticedPathed ==
  ASSUME SettingsFit, NEW f \in SourceFiles, DbPath(Configured, f) # None
  PROVE  Pathed(DbPath(Configured, f))
<1>1. \E k \in DOMAIN NormalizedRoots(Configured) : FirstAround(Configured, f, k)
  BY ConfiguredFits, DbPathRooted DEF SettingsFit
<1> QED BY <1>1 DEF Pathed

LEMMA PlainSure ==
  ASSUME SettingsFit, NEW f \in SourceFiles, Plain(Configured, f)
  PROVE  LET d == DbPath(Configured, f)
         IN  d \in ScanFiles(Configured) /\ Sure(d) /\ SourcePath(Configured, d) = f
<1> DEFINE d == DbPath(Configured, f)
           all == NormalizedRoots(Configured)
<1>1. menu \in Menus /\ Configured \in Seq(Sound(menu)) \cup {None} /\ PathOK(f)
  BY ConfiguredFits, RootsAssumption DEF SettingsFit
<1>2. PICK root \in ToSet(all) : StartsWith(f, root.source)
  BY DEF Plain
<1>3. PICK i \in DOMAIN all : StartsWith(f, all[i].source)
  BY <1>2 DEF ToSet
<1>4. PICK k \in DOMAIN all : FirstAround(Configured, f, k)
  BY <1>1, <1>3, AroundExists
<1>5. d \in ScanFiles(Configured)
  BY <1>1, <1>4, Scanned DEF Plain
<1>6. PathOK(d) /\ (SourcePath(Configured, d) = f
                    \/ (StartsWith(d, <<External>>) /\ Workspace \o d = f))
  BY <1>1, <1>4, SourceOf
<1> HIDE DEF d
<1>7. SourcePath(Configured, d) = f
  <2>1. ~ StartsWith(f, Append(Workspace, External))
    BY DEF Plain
  <2> QED BY <1>6, <2>1, BesideWorkspace
<1>8. Sure(d)
  BY <1>7 DEF Sure, d
<1> QED BY <1>5, <1>7, <1>8 DEF d

\* RowsAsConfigured follows, when nothing is left to do.
LEMMA SettledRows ==
  ASSUME SettingsFit, Settled({})
  PROVE  /\ \A d \in DOMAIN rows : \/ DbPath(Configured, rows[d]) = d
                                   \/ Mistaken(d) \/ SourcePath(Configured, d) \in Unread
         /\ \A f \in SourceFiles \ Unread : Plain(Configured, f) => f \in Range(rows)
<1>1. ASSUME NEW d \in DOMAIN rows
      PROVE  DbPath(Configured, rows[d]) = d \/ Mistaken(d) \/ SourcePath(Configured, d) \in Unread
  BY DEF Settled, Sure, Right
<1>2. ASSUME NEW f \in SourceFiles \ Unread, Plain(Configured, f)
      PROVE  f \in Range(rows)
  <2> DEFINE d == DbPath(Configured, f)
  <2>1. d \in ScanFiles(Configured) /\ Sure(d) /\ SourcePath(Configured, d) = f
    BY <1>2, PlainSure
  <2> HIDE DEF d
  <2>2. d \in DOMAIN rows /\ rows[d] = f
    BY <2>1 DEF Settled, Right
  <2> QED BY <2>2 DEF Range
<1> QED BY <1>1, <1>2

-----------------------------------------------------------------------------
\* The settings stay, what has been read is not out of date, and no row that is right is lost.
Calm ==
  /\ UNCHANGED <<menu, base, local, stirs>>
  /\ \A todo : Settled(todo) => Settled(todo)'
  /\ \A d \in ScanFiles(Configured) : Sure(d) /\ Right(d) => Right(d)'

LEMMA CalmWhenStill ==
  ASSUME UNCHANGED <<menu, base, local, stirs, rows>>
  PROVE  Calm
<1>1. Configured' = Configured
  BY DEF Configured
<1> QED BY <1>1 DEF Calm, Settled, Sure, Right

\* A row by the settings as they are.
LEMMA LookSettles ==
  ASSUME SettingsFit, UNCHANGED <<menu, base, local, stirs>>, NEW cache, NEW d, NEW source,
         NEW unread \in {Sealed, Unread}, rows' = Inspected(cache, d, source, unread), Pathed(d),
         Sure(d) => source = SourcePath(Configured, d)
  PROVE  /\ Calm
         /\ (Sure(d) /\ d \in DOMAIN cache /\ cache[d] = source => Right(d)) =>
              \A todo : Settled(todo) => Settled(todo \ {d})'
<1>1. Configured' = Configured
  BY DEF Configured
<1>2. \A e : Sure(e)' <=> Sure(e)
  BY <1>1 DEF Sure
<1>3. Sure(d) => source \in SourceFiles
  BY DEF Sure
<1>4. Sure(d) \/ Mistaken(d)
  BY PathedSure
<1>5. /\ \A e : e # d => (e \in DOMAIN rows' <=> e \in DOMAIN rows)
      /\ \A e \in DOMAIN rows : e # d => rows'[e] = rows[e]
      /\ \/ rows' = rows
         \/ d \notin DOMAIN rows'
         \/ d \in DOMAIN rows' /\ rows'[d] = source
      /\ source \in SourceFiles =>
           \/ d \in DOMAIN rows' /\ rows'[d] = source
           \/ rows' = rows /\ d \in DOMAIN cache /\ cache[d] = source
           \/ rows' = rows /\ source \in Unread
  <2> DEFINE passed == source \in unread \/ (d \in DOMAIN cache /\ cache[d] = source)
  <2>1. CASE source \notin SourceFiles
    <3>1. rows' = [e \in DOMAIN rows \ {d} |-> rows[e]]
      BY <2>1 DEF Inspected
    <3> QED BY <2>1, <3>1
  <2>2. CASE source \in SourceFiles /\ passed
    <3>1. rows' = rows
      BY <2>2 DEF Inspected
    <3>2. unread \subseteq Unread
      BY DEF Unread
    <3> QED BY <2>2, <3>1, <3>2
  <2>3. CASE source \in SourceFiles /\ ~ passed
    <3>1. rows' = [e \in DOMAIN rows \cup {d} |-> IF e = d THEN source ELSE rows[e]]
      BY <2>3 DEF Inspected
    <3> QED BY <3>1
  <2> QED BY <2>1, <2>2, <2>3
<1>6. \A e : Right(e)' <=> (SourcePath(Configured, e) \notin Unread =>
                              e \in DOMAIN rows' /\ rows'[e] = SourcePath(Configured, e))
  BY <1>1 DEF Right
<1>7. ASSUME NEW e, Sure(e), Right(e)
      PROVE  Right(e)'
  <2>1. CASE e # d
    BY <1>5, <1>6, <1>7, <2>1 DEF Right
  <2>2. CASE e = d
    BY <1>3, <1>5, <1>6, <1>7, <2>2 DEF Right
  <2> QED BY <2>1, <2>2
<1>8. ASSUME NEW e \in DOMAIN rows', e # d \/ rows' # rows,
             Mistaken(e) \/ (Sure(e) /\ Right(e)) \/ e = d
      PROVE  Mistaken(e) \/ (Sure(e) /\ Right(e)')
  <2>1. CASE e # d
    BY <1>7, <1>8, <2>1
  <2>2. CASE e = d
    BY <1>4, <1>5, <1>6, <1>8, <2>2
  <2> QED BY <2>1, <2>2
<1>9. \A e : Mistaken(e)' <=> Mistaken(e)
  BY DEF Mistaken
<1>10. ASSUME NEW todo, Settled(todo)
       PROVE  Settled(todo)'
  <2>1. ASSUME NEW e \in DOMAIN rows' \ todo
        PROVE  Mistaken(e) \/ (Sure(e) /\ Right(e)')
    <3>1. CASE e = d /\ rows' = rows
      BY <1>7, <1>10, <2>1, <3>1 DEF Settled
    <3>2. CASE ~ (e = d /\ rows' = rows)
      <4>1. e # d => e \in DOMAIN rows
        BY <1>5, <2>1
      <4>2. Mistaken(e) \/ (Sure(e) /\ Right(e)) \/ e = d
        BY <1>10, <2>1, <4>1 DEF Settled
      <4> QED BY <1>8, <2>1, <3>2, <4>2
    <3> QED BY <3>1, <3>2
  <2>2. ASSUME NEW e \in ScanFiles(Configured) \ todo, Sure(e)
        PROVE  Right(e)'
    BY <1>7, <1>10, <2>2 DEF Settled
  <2> QED BY <1>1, <1>2, <1>9, <2>1, <2>2 DEF Settled
<1>11. Calm
  BY <1>7, <1>10 DEF Calm
<1>12. ASSUME Sure(d) /\ d \in DOMAIN cache /\ cache[d] = source => Right(d),
              NEW todo, Settled(todo)
       PROVE  Settled(todo \ {d})'
  <2>1. Sure(d) => Right(d)'
    <3>1. CASE d \in DOMAIN rows' /\ rows'[d] = source
      BY <1>6, <3>1
    <3>2. CASE ~ (d \in DOMAIN rows' /\ rows'[d] = source)
      <4>1. ASSUME Sure(d), SourcePath(Configured, d) \notin Unread
            PROVE  Right(d)
        BY <1>3, <1>5, <1>12, <3>2, <4>1
      <4>2. ASSUME Sure(d), SourcePath(Configured, d) \notin Unread
            PROVE  Right(d)'
        BY <1>7, <4>1, <4>2
      <4> QED BY <1>6, <4>2
    <3> QED BY <3>1, <3>2
  <2>2. Mistaken(d) \/ (Sure(d) /\ Right(d)')
    BY <1>4, <2>1
  <2>3. Settled(todo)'
    BY <1>10, <1>12
  <2>4. ASSUME NEW e \in DOMAIN rows' \ (todo \ {d})
        PROVE  Mistaken(e) \/ (Sure(e) /\ Right(e)')
    <3>1. CASE e = d
      BY <2>2, <3>1
    <3>2. CASE e # d
      BY <1>2, <1>9, <2>3, <2>4, <3>2 DEF Settled
    <3> QED BY <3>1, <3>2
  <2>5. ASSUME NEW e \in ScanFiles(Configured) \ (todo \ {d}), Sure(e)
        PROVE  Right(e)'
    <3>1. CASE e = d
      BY <2>1, <2>5, <3>1
    <3>2. CASE e # d
      BY <1>1, <1>2, <2>3, <2>5, <3>2 DEF Settled
    <3> QED BY <3>1, <3>2
  <2> QED BY <1>1, <1>2, <1>9, <2>4, <2>5 DEF Settled
<1> QED BY <1>11, <1>12

\* An index by the settings as they are, when it removes the rows of what it has not found.
LEMMA SweepSettles ==
  ASSUME UNCHANGED <<menu, base, local, stirs>>,
         rows' = [d \in DOMAIN rows \cap ScanFiles(Configured) |-> rows[d]]
  PROVE  /\ Calm /\ Settled(ScanFiles(Configured))'
         /\ \A d \in ScanFiles(Configured) : Right(d) => Right(d)'
<1>1. Configured' = Configured
  BY DEF Configured
<1>2. \A e : (Sure(e)' <=> Sure(e)) /\ (Mistaken(e)' <=> Mistaken(e))
  BY <1>1 DEF Sure, Mistaken
<1>3. /\ DOMAIN rows' = DOMAIN rows \cap ScanFiles(Configured)
      /\ \A d \in DOMAIN rows' : rows'[d] = rows[d]
  OBVIOUS
<1>4. \A e : Right(e)' <=> (SourcePath(Configured, e) \notin Unread =>
                              e \in DOMAIN rows' /\ rows'[e] = SourcePath(Configured, e))
  BY <1>1 DEF Right
<1>5. \A d \in ScanFiles(Configured) : Right(d) => Right(d)'
  BY <1>3, <1>4 DEF Right
<1>6. Settled(ScanFiles(Configured))'
  BY <1>1, <1>3 DEF Settled
<1>7. ASSUME NEW todo, Settled(todo)
      PROVE  Settled(todo)'
  <2>1. ASSUME NEW e \in DOMAIN rows' \ todo
        PROVE  Mistaken(e) \/ (Sure(e) /\ Right(e)')
    BY <1>3, <1>5, <1>7, <2>1 DEF Settled
  <2>2. ASSUME NEW e \in ScanFiles(Configured) \ todo, Sure(e)
        PROVE  Right(e)'
    BY <1>5, <1>7, <2>2 DEF Settled
  <2> QED BY <1>1, <1>2, <2>1, <2>2 DEF Settled
<1> QED BY <1>5, <1>6, <1>7 DEF Calm

-----------------------------------------------------------------------------
\* Command c is an index or index file that runs; it began after the last change.
Rowing(c) == cmd[c] # Idle /\ About(cmd[c].request) = "rows"
Current(c) == Rowing(c) /\ cmd[c].since = stirs

\* The steps of index and of index file, as they are when it has loaded, and so on.
ToLoad == << <<"load", "rows">>, <<"scan", "rows">>, <<"sweep", "rows">> >>
ToScan == << <<"scan", "rows">>, <<"sweep", "rows">> >>
ToSweep == << <<"sweep", "rows">> >>
Reporting == <<"report", "rows">>
ToLoadOne == << <<"load", "rows">>, <<"cached", "rows">> >>
ToCache == << <<"cached", "rows">> >>
ToRow(d) == << <<"row", d>> >>

\* An index that has swept has the rows of some of what it has scanned to look at, then to report.
AfterSweep(steps, scan) ==
  /\ steps \in Seq(({"row"} \X scan) \cup {Reporting}) /\ steps # <<>>
  /\ \A i \in DOMAIN steps : steps[i] = Reporting <=> i = Len(steps)

Swept(c) == AfterSweep(cmd[c].steps, cmd[c].scan)

Todo(c) == {d \in cmd[c].scan : \E i \in DOMAIN cmd[c].steps : cmd[c].steps[i] = <<"row", d>>}

RowsShape(c) == Rowing(c) =>
  \/ /\ cmd[c].request.do = "index"
     /\ cmd[c].steps \in {ToLoad, ToScan, ToSweep} \/ Swept(c)
  \/ /\ cmd[c].request.do = "file"
     /\ cmd[c].steps \in {ToLoadOne, ToCache, ToRow(cmd[c].request.path)}

\* What an index or index file that is not out of date knows, and what it has done.
CurrentOK(c) == Current(c) =>
  /\ cmd[c].steps \notin {ToLoad, ToLoadOne} => cmd[c].roots = Configured
  /\ cmd[c].steps = ToSweep \/ Swept(c) => cmd[c].scan = ScanFiles(Configured)
  /\ Swept(c) =>
       /\ Settled(Todo(c))
       /\ \A d \in DOMAIN cmd[c].cache \cap cmd[c].scan :
            Sure(d) /\ cmd[c].cache[d] = SourcePath(Configured, d) => Right(d)

\* A watcher has taken note of paths that files have by its settings.
Noticed(p) ==
  \A d \in proc[p].pending \cup proc[p].batch :
    d # None /\ \E f \in SourceFiles : d = DbPath(proc[p].roots, f)

RowsInv ==
  /\ base \in Seq(Sound(menu)) \cup {None}
  /\ \A p \in Pids : Noticed(p)
  /\ \A c \in Commands : RowsShape(c) /\ CurrentOK(c)
  /\ indexed = stirs => Settled({})

-----------------------------------------------------------------------------
LEMMA OneThenNone ==
  ASSUME NEW x
  PROVE  Len(<<x>>) = 1 /\ <<x>> # <<>> /\ Head(<<x>>) = x /\ <<x>>[1] = x
OBVIOUS

LEMMA TwoThenOne ==
  ASSUME NEW x, NEW y
  PROVE  LET s == <<x, y>>
         IN  Len(s) = 2 /\ s # <<>> /\ Head(s) = x /\ SubSeq(s, 1 + 1, Len(s)) = <<y>>
<1> DEFINE s == <<x, y>>
           t == <<y>>
           rest == SubSeq(s, 1 + 1, Len(s))
           S == {x, y}
<1>1. s \in Seq(S) /\ Len(s) = 2 /\ s # <<>> /\ Head(s) = x /\ s[2] = y
  OBVIOUS
<1>2. t \in Seq(S) /\ Len(t) = 1 /\ t[1] = y
  OBVIOUS
<1> HIDE DEF s, t, S
<1>3. 1 \in 1 .. Len(s) /\ 1 # Len(s)
  BY <1>1
<1>4. /\ rest \in Seq(S) /\ Len(rest) = Len(s) - 1
      /\ \A i \in 1 .. Len(rest) : rest[i] = s[1 + i]
  BY <1>1, <1>3, RestOfSteps
<1> HIDE DEF rest
<1>5. Len(rest) = 1 /\ rest[1] = y
  BY <1>1, <1>4
<1>6. \A i \in 1 .. Len(rest) : rest[i] = t[i]
  BY <1>2, <1>5
<1>7. rest = t
  BY <1>2, <1>4, <1>5, <1>6, SeqEqual
<1> QED BY <1>1, <1>7 DEF s, t, rest

LEMMA ThreeThenTwo ==
  ASSUME NEW x, NEW y, NEW z
  PROVE  LET s == <<x, y, z>>
         IN  Len(s) = 3 /\ s # <<>> /\ Head(s) = x /\ SubSeq(s, 1 + 1, Len(s)) = <<y, z>>
<1> DEFINE s == <<x, y, z>>
           t == <<y, z>>
           rest == SubSeq(s, 1 + 1, Len(s))
           S == {x, y, z}
<1>1. s \in Seq(S) /\ Len(s) = 3 /\ s # <<>> /\ Head(s) = x /\ s[2] = y /\ s[3] = z
  OBVIOUS
<1>2. t \in Seq(S) /\ Len(t) = 2 /\ t[1] = y /\ t[2] = z
  OBVIOUS
<1> HIDE DEF s, t, S
<1>3. 1 \in 1 .. Len(s) /\ 1 # Len(s)
  BY <1>1
<1>4. /\ rest \in Seq(S) /\ Len(rest) = Len(s) - 1
      /\ \A i \in 1 .. Len(rest) : rest[i] = s[1 + i]
  BY <1>1, <1>3, RestOfSteps
<1> HIDE DEF rest
<1>5. Len(rest) = 2 /\ rest[1] = y /\ rest[2] = z
  BY <1>1, <1>4
<1>6. \A i \in 1 .. Len(rest) : rest[i] = t[i]
  <2>1. \A i \in 1 .. Len(rest) : i = 1 \/ i = 2
    BY <1>5
  <2> QED BY <1>2, <1>5, <2>1
<1>7. rest = t
  BY <1>2, <1>4, <1>5, <1>6, SeqEqual
<1> QED BY <1>1, <1>7 DEF s, t, rest

LEMMA StepsOfRows ==
  /\ Len(ToLoad) = 3 /\ ToLoad # <<>> /\ Head(ToLoad) = <<"load", "rows">>
  /\ Len(ToScan) = 2 /\ ToScan # <<>> /\ Head(ToScan) = <<"scan", "rows">>
  /\ Len(ToSweep) = 1 /\ ToSweep # <<>> /\ Head(ToSweep) = <<"sweep", "rows">>
  /\ Len(ToLoadOne) = 2 /\ ToLoadOne # <<>> /\ Head(ToLoadOne) = <<"load", "rows">>
  /\ Len(ToCache) = 1 /\ ToCache # <<>> /\ Head(ToCache) = <<"cached", "rows">>
  /\ \A d : Len(ToRow(d)) = 1 /\ ToRow(d) # <<>> /\ Head(ToRow(d)) = <<"row", d>>
  /\ SubSeq(ToLoad, 1 + 1, Len(ToLoad)) = ToScan
  /\ SubSeq(ToScan, 1 + 1, Len(ToScan)) = ToSweep
  /\ SubSeq(ToLoadOne, 1 + 1, Len(ToLoadOne)) = ToCache
BY OneThenNone, TwoThenOne, ThreeThenTwo DEF ToLoad, ToScan, ToSweep, ToLoadOne, ToCache, ToRow

\* What an index has to do first when it has swept.
LEMMA SweptFirst ==
  ASSUME NEW s, NEW scan, AfterSweep(s, scan)
  PROVE  /\ s # <<>> /\ Len(s) \in Nat \ {0} /\ DOMAIN s = 1 .. Len(s) /\ Head(s) = s[1]
         /\ Head(s) \in ({"row"} \X scan) \cup {Reporting}
         /\ Head(s) = Reporting <=> Len(s) = 1
<1> DEFINE S == ({"row"} \X scan) \cup {Reporting}
<1>1. s \in Seq(S) /\ s # <<>> /\ \A i \in DOMAIN s : s[i] = Reporting <=> i = Len(s)
  BY DEF AfterSweep
<1> HIDE DEF S
<1>2. Len(s) \in Nat \ {0} /\ DOMAIN s = 1 .. Len(s) /\ Head(s) = s[1]
  BY <1>1, EmptySeq, LenProperties
<1>3. 1 \in 1 .. Len(s) /\ 1 \in DOMAIN s
  BY <1>2
<1>4. s[1] \in S
  BY <1>1, <1>3, ElementOfSeq
<1> QED BY <1>1, <1>2, <1>3, <1>4 DEF S

LEMMA NotSwept ==
  ASSUME NEW s, NEW scan,
         s \in {ToLoad, ToScan, ToSweep, ToLoadOne, ToCache} \/ \E d : s = ToRow(d)
  PROVE  ~ AfterSweep(s, scan)
<1> SUFFICES ASSUME AfterSweep(s, scan)
             PROVE  FALSE
  OBVIOUS
<1>1. Head(s)[1] \in {"row", "report"} /\ (Head(s) = Reporting <=> Len(s) = 1)
  BY SweptFirst DEF Reporting
<1>2. CASE s \in {ToLoad, ToScan, ToSweep, ToLoadOne, ToCache}
  BY <1>1, <1>2, StepsOfRows
<1>3. CASE \E d : s = ToRow(d)
  BY <1>1, <1>3, StepsOfRows DEF Reporting
<1> QED BY <1>2, <1>3

\* An index, or index file, at one of its steps.
LEMMA AtRows ==
  ASSUME Typed, SettingsInv, RowsInv, NEW c \in Commands, RowsStep(c)
  PROVE  /\ Rowing(c) /\ RowsShape(c) /\ CurrentOK(c)
         /\ DOMAIN cmd = Commands /\ DOMAIN cmd[c] = DOMAIN Idle /\ IsFiniteSet(cmd[c].scan)
         /\ UNCHANGED <<menu, services, settings>>
<1>1. cmd[c].steps # <<>> /\ Head(cmd[c].steps) \notin SettingSteps
  BY DEF RowsStep, LoadSettings, Scan, Sweep, ReadCached, IndexRow, Report, At, SettingSteps
<1>2. UNCHANGED <<menu, services, settings>>
  BY DEF RowsStep, LoadSettings, Scan, Sweep, ReadCached, IndexRow, Report, settings, services
<1>3. /\ DOMAIN cmd = Commands /\ Planned(c) /\ DOMAIN cmd[c] = DOMAIN Idle /\ SettingOK(c)
      /\ IsFiniteSet(cmd[c].scan)
  BY TypedCommand DEF Planned, SettingsInv
<1>4. cmd[c] # Idle
  BY <1>1 DEF Idle
<1>5. ~ Setting(c)
  BY <1>1, <1>3, StepsOfSetting DEF SettingOK, SettingSteps
<1>6. ~ Servicing(c) /\ cmd[c].request \in menu.requests
  <2>1. OtherStep(c)
    BY DEF RowsStep, OtherStep
  <2> QED BY <2>1, OtherStepTurns DEF OtherTurn
<1>7. About(cmd[c].request) = "rows"
  BY <1>4, <1>5, <1>6, Requested, AboutOf DEF Setting, Servicing
<1> QED BY <1>2, <1>3, <1>4, <1>7 DEF Rowing, RowsInv

\* Which of its steps it is at.
LEMMA RowsAt ==
  ASSUME NEW c, Rowing(c), RowsShape(c)
  PROVE  LET op == Head(cmd[c].steps)[1]
             steps == cmd[c].steps
             do == cmd[c].request.do
         IN  /\ op = "load" => \/ do = "index" /\ steps = ToLoad
                               \/ do = "file" /\ steps = ToLoadOne
             /\ op = "scan" => do = "index" /\ steps = ToScan
             /\ op = "sweep" => do = "index" /\ steps = ToSweep
             /\ op = "cached" => do = "file" /\ steps = ToCache
             /\ op = "row" => \/ do = "index" /\ Swept(c)
                              \/ do = "file" /\ steps = ToRow(cmd[c].request.path)
             /\ op = "report" => do = "index" /\ Swept(c)
<1>1. Swept(c) => Head(cmd[c].steps)[1] \in {"row", "report"}
  BY SweptFirst DEF Swept, Reporting
<1>2. /\ Head(ToLoad)[1] = "load" /\ Head(ToScan)[1] = "scan" /\ Head(ToSweep)[1] = "sweep"
      /\ Head(ToLoadOne)[1] = "load" /\ Head(ToCache)[1] = "cached"
      /\ \A d : Head(ToRow(d))[1] = "row"
  BY StepsOfRows
<1> QED BY <1>1, <1>2 DEF RowsShape

Stirred == stirs' = stirs + 1

\* A command that does nothing.
LEMMA SameCommand ==
  ASSUME Typed, RowsInv, Calm \/ Stirred, NEW c \in Commands,
         cmd'[c] = Idle <=> cmd[c] = Idle, cmd'[c].request = cmd[c].request,
         cmd'[c].steps = cmd[c].steps, cmd'[c].roots = cmd[c].roots,
         cmd'[c].scan = cmd[c].scan, cmd'[c].cache = cmd[c].cache, cmd'[c].since = cmd[c].since
  PROVE  RowsShape(c)' /\ CurrentOK(c)'
<1>1. RowsShape(c) /\ CurrentOK(c)
  BY DEF RowsInv
<1>2. /\ Rowing(c)' <=> Rowing(c)
      /\ Swept(c)' <=> Swept(c)
      /\ Todo(c)' = Todo(c)
  BY DEF Rowing, Swept, Todo
<1>3. RowsShape(c)'
  BY <1>1, <1>2 DEF RowsShape
<1>4. CASE Stirred
  <2>1. stirs \in Nat /\ (cmd[c] # Idle => cmd[c].since \in 0 .. stirs)
    BY DEF Typed, TypeOK
  <2>2. ~ Current(c)'
    BY <1>2, <1>4, <2>1 DEF Current, Rowing, Stirred
  <2> QED BY <1>3, <2>2 DEF CurrentOK
<1>5. CASE Calm
  <2>1. Configured' = Configured /\ stirs' = stirs
    BY <1>5 DEF Calm, Configured
  <2>2. Current(c)' <=> Current(c)
    BY <1>2, <2>1 DEF Current
  <2> SUFFICES ASSUME Current(c)
               PROVE  CurrentOK(c)'
    BY <1>3, <2>2 DEF CurrentOK
  <2>3. /\ cmd[c].steps \notin {ToLoad, ToLoadOne} => cmd[c].roots = Configured
        /\ cmd[c].steps = ToSweep \/ Swept(c) => cmd[c].scan = ScanFiles(Configured)
        /\ Swept(c) =>
             /\ Settled(Todo(c))
             /\ \A d \in DOMAIN cmd[c].cache \cap cmd[c].scan :
                  Sure(d) /\ cmd[c].cache[d] = SourcePath(Configured, d) => Right(d)
    BY <1>1 DEF CurrentOK
  <2>4. ASSUME Swept(c)
        PROVE  /\ Settled(Todo(c))'
               /\ \A d \in DOMAIN cmd[c].cache \cap cmd[c].scan :
                    Sure(d)' /\ cmd[c].cache[d] = SourcePath(Configured, d) => Right(d)'
    <3>1. Settled(Todo(c))'
      BY <1>2, <1>5, <2>3, <2>4 DEF Calm
    <3>2. \A d : Sure(d)' <=> Sure(d)
      BY <2>1 DEF Sure
    <3>3. \A d \in ScanFiles(Configured) : Sure(d) /\ Right(d) => Right(d)'
      BY <1>5 DEF Calm
    <3> QED BY <2>3, <2>4, <3>1, <3>2, <3>3
  <2> QED BY <1>2, <2>1, <2>3, <2>4 DEF CurrentOK
<1> QED BY <1>4, <1>5

\* What has been indexed stays so, or the settings have changed.
LEMMA StaysIndexed ==
  ASSUME Typed, RowsInv, Calm \/ Stirred, indexed' = indexed
  PROVE  indexed' = stirs' => Settled({})'
<1>1. CASE Calm
  BY <1>1 DEF Calm, RowsInv
<1>2. CASE Stirred
  <2>1. stirs \in Nat /\ indexed \in 0 .. stirs \cup {None} /\ None \notin Nat
    BY ControlAssumption DEF Typed, TypeOK
  <2>2. stirs' \in Nat /\ stirs' \notin 0 .. stirs
    BY <1>2, <2>1 DEF Stirred
  <2> QED BY <2>1, <2>2
<1> QED BY <1>1, <1>2

\* A step of one command.
LEMMA OneCommand ==
  ASSUME Typed, RowsInv, Calm \/ Stirred, menu' = menu, base' = base,
         NEW c \in Commands, \A d \in Commands \ {c} : cmd'[d] = cmd[d],
         RowsShape(c)', CurrentOK(c)', \A p \in Pids : Noticed(p)',
         indexed' = stirs' => Settled({})'
  PROVE  RowsInv'
<1>1. \A d \in Commands \ {c} : RowsShape(d)' /\ CurrentOK(d)'
  BY SameCommand
<1>2. \A d \in Commands : RowsShape(d)' /\ CurrentOK(d)'
  BY <1>1
<1>3. base' \in Seq(Sound(menu')) \cup {None}
  BY DEF RowsInv
<1> QED BY <1>2, <1>3 DEF RowsInv

LEMMA NoticedSame ==
  ASSUME RowsInv, proc' = proc
  PROVE  \A p \in Pids : Noticed(p)'
BY DEF RowsInv, Noticed

LEMMA Fitting ==
  ASSUME Typed, SettingsInv, RowsInv
  PROVE  SettingsFit
BY DEF Typed, TypeOK, SettingsInv, RowsInv, SettingsFit

\* A command whose settings have changed is out of date.
LEMMA OutOfDate ==
  ASSUME Typed, Stirred, NEW c \in Commands, Rowing(c),
         cmd'[c] # Idle => cmd'[c].since = cmd[c].since
  PROVE  ~ Current(c)' /\ CurrentOK(c)'
<1>1. stirs \in Nat /\ cmd[c].since \in 0 .. stirs
  BY DEF Typed, TypeOK, Rowing
<1>2. ~ Current(c)'
  BY <1>1 DEF Current, Rowing, Stirred
<1> QED BY <1>2 DEF CurrentOK

LEMMA LoadRows ==
  ASSUME Typed, SettingsInv, RowsInv, NEW c \in Commands, LoadSettings(c)
  PROVE  RowsInv'
<1>1. /\ Rowing(c) /\ RowsShape(c) /\ CurrentOK(c) /\ DOMAIN cmd = Commands
      /\ DOMAIN cmd[c] = DOMAIN Idle /\ UNCHANGED <<menu, services, settings>>
  BY AtRows DEF RowsStep
<1> DEFINE now == [cmd[c] EXCEPT !.roots = Configured]
<1>2. /\ Go(c, now) /\ Head(cmd[c].steps)[1] = "load"
      /\ UNCHANGED <<menu, base, local, rows, proc, stirs, indexed>>
  BY <1>1 DEF LoadSettings, At, settings, services, ghosts
<1>3. /\ DOMAIN now = DOMAIN Idle /\ now.steps = cmd[c].steps /\ now.request = cmd[c].request
      /\ now.roots = Configured /\ now.since = cmd[c].since
  BY <1>1 DEF Idle
<1> HIDE DEF now
<1>4. \/ cmd[c].request.do = "index" /\ cmd[c].steps = ToLoad
      \/ cmd[c].request.do = "file" /\ cmd[c].steps = ToLoadOne
  BY <1>1, <1>2, RowsAt
<1>5. Len(cmd[c].steps) # 1
  BY <1>4, StepsOfRows
<1>6. /\ \A d \in Commands \ {c} : cmd'[d] = cmd[d]
      /\ cmd'[c].steps = SubSeq(cmd[c].steps, 1 + 1, Len(cmd[c].steps))
      /\ cmd'[c].request = cmd[c].request /\ cmd'[c].roots = Configured
  BY <1>1, <1>2, <1>3, <1>5, GoOn
<1>7. \/ cmd'[c].request.do = "index" /\ cmd'[c].steps = ToScan
      \/ cmd'[c].request.do = "file" /\ cmd'[c].steps = ToCache
  BY <1>4, <1>6, StepsOfRows
<1>8. RowsShape(c)'
  BY <1>7 DEF RowsShape
<1>9. ~ Swept(c)' /\ cmd'[c].steps # ToSweep
  BY <1>7, NotSwept, StepsOfRows DEF Swept
<1>10. Calm /\ Configured' = Configured
  BY <1>2, CalmWhenStill DEF Configured
<1>11. CurrentOK(c)'
  BY <1>6, <1>9, <1>10 DEF CurrentOK
<1> QED BY <1>2, <1>6, <1>8, <1>10, <1>11, OneCommand, NoticedSame, StaysIndexed

LEMMA ScanRows ==
  ASSUME Typed, SettingsInv, RowsInv, NEW c \in Commands, Scan(c)
  PROVE  RowsInv'
<1>1. /\ Rowing(c) /\ RowsShape(c) /\ CurrentOK(c) /\ DOMAIN cmd = Commands
      /\ DOMAIN cmd[c] = DOMAIN Idle /\ UNCHANGED <<menu, services, settings>>
  BY AtRows DEF RowsStep
<1> DEFINE now == [cmd[c] EXCEPT !.scan = ScanFiles(Configured)]
<1>2. /\ Go(c, now) /\ Head(cmd[c].steps)[1] = "scan"
      /\ UNCHANGED <<menu, base, local, rows, proc, stirs, indexed>>
  BY <1>1 DEF Scan, At, settings, services, ghosts
<1>3. /\ DOMAIN now = DOMAIN Idle /\ now.steps = cmd[c].steps /\ now.request = cmd[c].request
      /\ now.roots = cmd[c].roots /\ now.since = cmd[c].since /\ now.scan = ScanFiles(Configured)
  BY <1>1 DEF Idle
<1> HIDE DEF now
<1>4. cmd[c].request.do = "index" /\ cmd[c].steps = ToScan
  BY <1>1, <1>2, RowsAt
<1>5. Len(cmd[c].steps) # 1
  BY <1>4, StepsOfRows
<1>6. /\ \A d \in Commands \ {c} : cmd'[d] = cmd[d]
      /\ cmd'[c].steps = SubSeq(cmd[c].steps, 1 + 1, Len(cmd[c].steps))
      /\ cmd'[c].request = cmd[c].request /\ cmd'[c].roots = cmd[c].roots
      /\ cmd'[c].scan = ScanFiles(Configured) /\ cmd'[c].since = cmd[c].since
  BY <1>1, <1>2, <1>3, <1>5, GoOn
<1>7. cmd'[c].request.do = "index" /\ cmd'[c].steps = ToSweep
  BY <1>4, <1>6, StepsOfRows
<1>8. RowsShape(c)'
  BY <1>7 DEF RowsShape
<1>9. ~ Swept(c)'
  BY <1>7, NotSwept DEF Swept
<1>10. Calm /\ Configured' = Configured
  BY <1>2, CalmWhenStill DEF Configured
<1>11. Current(c)' => cmd[c].roots = Configured
  <2>1. ToScan \notin {ToLoad, ToLoadOne}
    BY StepsOfRows
  <2> QED BY <1>1, <1>2, <1>4, <1>6, <2>1 DEF Current, CurrentOK
<1>12. CurrentOK(c)'
  BY <1>6, <1>9, <1>10, <1>11 DEF CurrentOK
<1> QED BY <1>2, <1>6, <1>8, <1>10, <1>12, OneCommand, NoticedSame, StaysIndexed

LEMMA Appended ==
  ASSUME NEW S, NEW s \in Seq(S), NEW y \in S
  PROVE  LET a == Append(s, y)
         IN  /\ a \in Seq(S) /\ Len(a) = Len(s) + 1 /\ a[Len(s) + 1] = y
             /\ \A i \in 1 .. Len(s) : a[i] = s[i]
BY AppendProperties

LEMMA OneAndOne ==
  ASSUME NEW x, NEW y
  PROVE  Append(<<x>>, y) = <<x, y>>
<1> DEFINE s == <<x>>
           t == <<x, y>>
           a == Append(s, y)
           S == {x, y}
<1>1. s \in Seq(S) /\ Len(s) = 1 /\ s[1] = x /\ y \in S
  OBVIOUS
<1>2. t \in Seq(S) /\ Len(t) = 2 /\ t[1] = x /\ t[2] = y
  OBVIOUS
<1> HIDE DEF s, t, S
<1>3. /\ a \in Seq(S) /\ Len(a) = Len(s) + 1 /\ a[Len(s) + 1] = y
      /\ \A i \in 1 .. Len(s) : a[i] = s[i]
  BY <1>1, Appended, ZenonT(60)
<1> HIDE DEF a
<1>4. Len(a) = 2 /\ a[1] = x /\ a[2] = y
  BY <1>1, <1>3
<1>5. \A i \in 1 .. Len(a) : i = 1 \/ i = 2
  BY <1>4
<1>6. \A i \in 1 .. Len(a) : a[i] = t[i]
  BY <1>2, <1>4, <1>5
<1>7. a = t
  BY <1>2, <1>3, <1>4, <1>6, SeqEqual
<1> QED BY <1>7 DEF s, t, a

LEMMA ReadRows ==
  ASSUME Typed, SettingsInv, RowsInv, NEW c \in Commands, ReadCached(c)
  PROVE  RowsInv'
<1>1. /\ Rowing(c) /\ RowsShape(c) /\ CurrentOK(c) /\ DOMAIN cmd = Commands
      /\ DOMAIN cmd[c] = DOMAIN Idle /\ UNCHANGED <<menu, services, settings>>
  BY AtRows DEF RowsStep
<1> DEFINE row == <<"row", cmd[c].request.path>>
           steps == Append(cmd[c].steps, row)
           now == [cmd[c] EXCEPT !.cache = rows, !.steps = steps]
<1>2. /\ Go(c, now) /\ Head(cmd[c].steps)[1] = "cached"
      /\ UNCHANGED <<menu, base, local, rows, proc, stirs, indexed>>
  BY <1>1 DEF ReadCached, At, settings, services, ghosts
<1>3. /\ DOMAIN now = DOMAIN Idle /\ now.steps = steps /\ now.request = cmd[c].request
      /\ now.roots = cmd[c].roots /\ now.since = cmd[c].since
  BY <1>1 DEF Idle
<1> HIDE DEF now
<1>4. cmd[c].request.do = "file" /\ cmd[c].steps = ToCache
  BY <1>1, <1>2, RowsAt
<1>5. Len(steps) # 1 /\ SubSeq(steps, 1 + 1, Len(steps)) = ToRow(cmd[c].request.path)
  <2>1. steps = << <<"cached", "rows">>, row >>
    BY <1>4, OneAndOne DEF ToCache
  <2>2. ToRow(cmd[c].request.path) = <<row>>
    BY DEF ToRow
  <2> HIDE DEF steps, row
  <2> QED BY <2>1, <2>2, TwoThenOne
<1>6. /\ \A d \in Commands \ {c} : cmd'[d] = cmd[d]
      /\ cmd'[c].steps = ToRow(cmd[c].request.path)
      /\ cmd'[c].request = cmd[c].request /\ cmd'[c].roots = cmd[c].roots
      /\ cmd'[c].since = cmd[c].since
  <2> HIDE DEF steps
  <2> QED BY <1>1, <1>2, <1>3, <1>5, GoOn, ZenonT(60)
<1>7. RowsShape(c)'
  BY <1>4, <1>6 DEF RowsShape
<1>8. ~ Swept(c)' /\ cmd'[c].steps # ToSweep
  BY <1>6, NotSwept, StepsOfRows DEF Swept
<1>9. Calm /\ Configured' = Configured
  BY <1>2, CalmWhenStill DEF Configured
<1>10. Current(c)' => cmd[c].roots = Configured
  <2>1. ToCache \notin {ToLoad, ToLoadOne}
    BY StepsOfRows
  <2> QED BY <1>1, <1>2, <1>4, <1>6, <2>1 DEF Current, CurrentOK
<1>11. CurrentOK(c)'
  BY <1>6, <1>8, <1>9, <1>10 DEF CurrentOK
<1> QED BY <1>2, <1>6, <1>7, <1>9, <1>11, OneCommand, NoticedSame, StaysIndexed

LEMMA ReportRows ==
  ASSUME Typed, SettingsInv, RowsInv, NEW c \in Commands, Report(c)
  PROVE  RowsInv'
<1>1. /\ Rowing(c) /\ RowsShape(c) /\ CurrentOK(c) /\ DOMAIN cmd = Commands
      /\ UNCHANGED <<menu, services, settings>>
  BY AtRows DEF RowsStep
<1>2. /\ cmd'[c] = Idle /\ \A d \in Commands \ {c} : cmd'[d] = cmd[d]
      /\ Head(cmd[c].steps) = Reporting
      /\ UNCHANGED <<menu, base, local, rows, proc, stirs>>
      /\ indexed' = IF cmd[c].since = stirs THEN stirs ELSE indexed
  BY <1>1 DEF Report, Finish, At, settings, services, Reporting
<1>3. Swept(c)
  BY <1>1, <1>2, RowsAt DEF Reporting
<1>4. Todo(c) = {}
  <2>1. DOMAIN cmd[c].steps = 1 .. 1 /\ cmd[c].steps[1] = Reporting
    BY <1>2, <1>3, SweptFirst DEF Swept
  <2>2. \A i \in DOMAIN cmd[c].steps : i = 1
    BY <2>1
  <2>3. \A d : <<"row", d>> # Reporting
    BY DEF Reporting
  <2> QED BY <2>1, <2>2, <2>3 DEF Todo
<1>5. Calm
  BY <1>2, CalmWhenStill
<1>6. indexed' = stirs' => Settled({})'
  <2>1. CASE cmd[c].since = stirs
    <3>1. Settled({})
      BY <1>1, <1>3, <1>4, <2>1 DEF CurrentOK, Current
    <3> QED BY <1>5, <3>1 DEF Calm
  <2>2. CASE cmd[c].since # stirs
    BY <1>2, <1>5, <2>2, StaysIndexed
  <2> QED BY <2>1, <2>2
<1>7. RowsShape(c)' /\ CurrentOK(c)'
  BY <1>2 DEF RowsShape, CurrentOK, Current, Rowing
<1> QED BY <1>2, <1>5, <1>6, <1>7, OneCommand, NoticedSame

\* Every path has its step.
LEMMA RowStepsOnto ==
  ASSUME NEW paths, IsFiniteSet(paths), NEW d \in paths
  PROVE  \E i \in DOMAIN RowSteps(paths) : RowSteps(paths)[i] = <<"row", d>>
<1> DEFINE n == Cardinality(paths)
           order == SetToSeq(paths)
<1>1. n \in Nat /\ \E f \in [1 .. n -> paths] : IsInjective(f)
  BY FS_CardinalityType DEF ExistsBijection, Bijection, Injection
<1>2. order \in [1 .. n -> paths] /\ IsInjective(order)
  BY <1>1 DEF SetToSeq
<1>3. order \in Injection(1 .. n, paths)
  BY <1>2 DEF Injection
<1>4. Cardinality(1 .. n) = n
  <2> HIDE DEF n
  <2>1. 1 \in Int /\ n \in Int /\ Cardinality(1 .. n) = IF 1 > n THEN 0 ELSE n - 1 + 1
    BY <1>1, FS_Interval
  <2> QED BY <1>1, <2>1
<1>5. RowSteps(paths) = [i \in DOMAIN order |-> <<"row", order[i]>>]
  BY DEF RowSteps
<1> HIDE DEF order
<1>6. order \in Surjection(1 .. n, paths)
  BY <1>3, <1>4, FS_Injection
<1> HIDE DEF n
<1>7. PICK i \in 1 .. n : order[i] = d
  BY <1>6 DEF Surjection
<1> QED BY <1>2, <1>5, <1>7

\* What an index has left to do when it has swept.
LEMMA SweptList ==
  ASSUME NEW paths, NEW order \in Seq({"row"} \X paths),
         \A d \in paths : \E i \in DOMAIN order : order[i] = <<"row", d>>
  PROVE  LET all == (ToSweep \o order) \o <<Reporting>>
             rest == SubSeq(all, 1 + 1, Len(all))
         IN  /\ Len(all) # 1 /\ AfterSweep(rest, paths)
             /\ \A d \in paths : \E i \in DOMAIN rest : rest[i] = <<"row", d>>
<1> DEFINE R == {"row"} \X paths
           S == R \cup {Reporting}
           T == S \cup {<<"sweep", "rows">>}
           report == <<Reporting>>
           some == ToSweep \o order
           all == some \o report
           rest == SubSeq(all, 1 + 1, Len(all))
           tail == order \o report
           n == Len(order)
<1>1. order \in Seq(S) /\ order \in Seq(T) /\ n \in Nat /\ DOMAIN order = 1 .. n
  BY SeqMonotonic, LenProperties
<1>2. /\ report \in Seq(S) /\ report \in Seq(T) /\ Len(report) = 1 /\ report[1] = Reporting
  BY OfOnes, SeqMonotonic
<1>3. ToSweep \in Seq(T) /\ Len(ToSweep) = 1
  BY OfOnes, SeqMonotonic DEF ToSweep
<1>4. \A i \in 1 .. n : order[i] \in R
  BY ElementOfSeq
<1>5. \A x \in R : x # Reporting
  BY DEF Reporting
<1> HIDE DEF R, S, T, report, n
<1>6. tail \in Seq(S) /\ tail \in Seq(T) /\ Len(tail) = n + 1
      /\ \A i \in 1 .. n + 1 : tail[i] = IF i <= n THEN order[i] ELSE report[i - n]
  <2>1. /\ tail \in Seq(S) /\ Len(tail) = Len(order) + Len(report)
        /\ \A i \in 1 .. Len(order) + Len(report) :
              tail[i] = IF i <= Len(order) THEN order[i] ELSE report[i - Len(order)]
    BY <1>1, <1>2, ConcatProperties
  <2>2. tail \in Seq(T)
    BY <1>1, <1>2, ConcatProperties
  <2> HIDE DEF tail
  <2> QED BY <1>2, <2>1, <2>2 DEF n
<1>7. /\ some \in Seq(T)
      /\ all = ToSweep \o tail
  BY <1>1, <1>2, <1>3, ConcatProperties, Regrouped, SMTT(60)
<1> HIDE DEF tail, some
<1>8. /\ all \in Seq(T) /\ Len(all) = 1 + (n + 1)
      /\ \A i \in 1 .. 1 + (n + 1) : all[i] = IF i <= 1 THEN ToSweep[i] ELSE tail[i - 1]
  <2> DEFINE one == ToSweep
             whole == one \o tail
  <2>1. /\ whole \in Seq(T) /\ Len(whole) = Len(one) + Len(tail)
        /\ \A i \in 1 .. Len(one) + Len(tail) :
              whole[i] = IF i <= Len(one) THEN one[i] ELSE tail[i - Len(one)]
    BY <1>3, <1>6, ConcatProperties
  <2>2. Len(one) = 1 /\ all = whole
    BY <1>3, <1>7
  <2> HIDE DEF one, whole, all
  <2>3. /\ all \in Seq(T) /\ Len(all) = 1 + (n + 1)
        /\ \A i \in 1 .. 1 + (n + 1) : all[i] = IF i <= 1 THEN one[i] ELSE tail[i - 1]
    BY <1>6, <2>1, <2>2
  <2> QED BY <2>3 DEF one
<1> HIDE DEF all
<1>9. 1 \in 1 .. Len(all) /\ Len(all) # 1
  BY <1>1, <1>8
<1>10. /\ rest \in Seq(T) /\ Len(rest) = Len(all) - 1
       /\ \A i \in 1 .. Len(rest) : 1 + i \in 1 .. Len(all) /\ rest[i] = all[1 + i]
  BY <1>8, <1>9, RestOfSteps
<1> HIDE DEF rest
<1>11. Len(rest) = n + 1 /\ \A i \in 1 .. n + 1 : rest[i] = tail[i]
  <2>1. Len(rest) = n + 1
    BY <1>1, <1>8, <1>10
  <2>2. ASSUME NEW i \in 1 .. n + 1
        PROVE  rest[i] = tail[i]
    <3>1. 1 + i \in 1 .. 1 + (n + 1) /\ ~ (1 + i <= 1) /\ (1 + i) - 1 = i
      BY <1>1
    <3>2. rest[i] = all[1 + i]
      BY <1>10, <2>1
    <3> QED BY <1>8, <3>1, <3>2
  <2> QED BY <2>1, <2>2
<1>12. rest = tail
  BY <1>6, <1>10, <1>11, SeqEqual
<1>13. DOMAIN tail = 1 .. n + 1 /\ tail # <<>>
  <2>1. DOMAIN tail = 1 .. n + 1
    BY <1>6, LenProperties
  <2>2. Len(tail) # 0
    BY <1>1, <1>6
  <2> QED BY <1>6, <2>1, <2>2, EmptySeq
<1>14. \A i \in 1 .. n : i \in 1 .. n + 1 /\ i # n + 1 /\ tail[i] = order[i]
  BY <1>1, <1>6
<1>15. n + 1 \in 1 .. n + 1 /\ tail[n + 1] = Reporting
  BY <1>1, <1>2, <1>6
<1>16. \A i \in DOMAIN tail : tail[i] = Reporting <=> i = Len(tail)
  <2> SUFFICES ASSUME NEW i \in 1 .. n + 1
               PROVE  tail[i] = Reporting <=> i = n + 1
    BY <1>6, <1>13
  <2>1. i \in 1 .. n \/ i = n + 1
    BY <1>1
  <2> QED BY <1>4, <1>5, <1>14, <1>15, <2>1
<1>17. \A d \in paths : \E i \in DOMAIN tail : tail[i] = <<"row", d>>
  BY <1>1, <1>13, <1>14
<1>18. AfterSweep(tail, paths)
  BY <1>6, <1>13, <1>16 DEF AfterSweep, S, R
<1> QED BY <1>9, <1>12, <1>17, <1>18 DEF rest, all, some, report

\* And when it has looked at one row more.
LEMMA RowLess ==
  ASSUME NEW s, NEW scan, AfterSweep(s, scan), Head(s) # Reporting
  PROVE  LET rest == SubSeq(s, 1 + 1, Len(s))
         IN  /\ Len(s) # 1 /\ AfterSweep(rest, scan)
             /\ \A d : (\E i \in DOMAIN s : s[i] = <<"row", d>>) /\ <<"row", d>> # Head(s) =>
                         \E i \in DOMAIN rest : rest[i] = <<"row", d>>
<1> DEFINE rest == SubSeq(s, 1 + 1, Len(s))
           S == ({"row"} \X scan) \cup {Reporting}
           n == Len(s)
<1>1. /\ s # <<>> /\ n \in Nat \ {0} /\ DOMAIN s = 1 .. n /\ Head(s) = s[1] /\ n # 1
  BY SweptFirst
<1>2. s \in Seq(S) /\ \A i \in DOMAIN s : s[i] = Reporting <=> i = n
  BY DEF AfterSweep
<1> HIDE DEF S
<1>3. 1 \in 1 .. Len(s)
  BY <1>1
<1>4. /\ rest \in Seq(S) /\ rest # <<>> /\ Len(rest) = n - 1
      /\ \A i \in 1 .. Len(rest) : 1 + i \in 1 .. n /\ rest[i] = s[1 + i]
  BY <1>1, <1>2, <1>3, RestOfSteps
<1> HIDE DEF rest, n
<1>5. DOMAIN rest = 1 .. Len(rest)
  BY <1>4, LenProperties
<1>6. \A i \in DOMAIN rest : rest[i] = Reporting <=> i = Len(rest)
  <2> SUFFICES ASSUME NEW i \in 1 .. Len(rest)
               PROVE  rest[i] = Reporting <=> i = Len(rest)
    BY <1>5
  <2>1. 1 + i = n <=> i = Len(rest)
    BY <1>1, <1>4
  <2> QED BY <1>1, <1>2, <1>4, <2>1
<1>7. AfterSweep(rest, scan)
  BY <1>4, <1>6 DEF AfterSweep, S
<1>8. ASSUME NEW d, NEW i \in DOMAIN s, s[i] = <<"row", d>>, <<"row", d>> # Head(s)
      PROVE  \E j \in DOMAIN rest : rest[j] = <<"row", d>>
  <2>1. i # 1
    BY <1>1, <1>8
  <2>2. PICK j \in 1 .. n - 1 : i = 1 + j
    <3>1. i - 1 \in 1 .. n - 1 /\ i = 1 + (i - 1)
      BY <1>1, <2>1
    <3> QED BY <3>1
  <2>3. j \in DOMAIN rest /\ rest[j] = s[i]
    BY <1>4, <1>5, <2>2
  <2> QED BY <1>8, <2>3
<1> QED BY <1>1, <1>7, <1>8 DEF rest, n

LEMMA SweepRows ==
  ASSUME Typed, SettingsInv, RowsInv, NEW c \in Commands, Sweep(c)
  PROVE  RowsInv'
<1>1. /\ Rowing(c) /\ RowsShape(c) /\ CurrentOK(c) /\ DOMAIN cmd = Commands
      /\ DOMAIN cmd[c] = DOMAIN Idle /\ IsFiniteSet(cmd[c].scan)
      /\ UNCHANGED <<menu, services, settings>>
  BY AtRows DEF RowsStep
<1> DEFINE scan == cmd[c].scan
           kept == [d \in DOMAIN rows \cap scan |-> rows[d]]
           steps == cmd[c].steps \o RowSteps(scan) \o << <<"report", "rows">> >>
           now == [cmd[c] EXCEPT !.cache = kept, !.steps = steps]
           rest == SubSeq(steps, 1 + 1, Len(steps))
<1>2. /\ Go(c, now) /\ Head(cmd[c].steps)[1] = "sweep" /\ rows' = kept /\ Stir(c)
      /\ UNCHANGED <<menu, base, local, proc, indexed>>
  BY <1>1 DEF Sweep, At, settings, services
<1>3. /\ DOMAIN now = DOMAIN Idle /\ now.steps = steps /\ now.request = cmd[c].request
      /\ now.roots = cmd[c].roots /\ now.since = cmd[c].since /\ now.scan = scan
      /\ now.cache = kept
  BY <1>1 DEF Idle
<1> HIDE DEF now
<1>4. cmd[c].request.do = "index" /\ cmd[c].steps = ToSweep
  BY <1>1, <1>2, RowsAt
<1>5. /\ Len(steps) # 1 /\ AfterSweep(rest, scan)
      /\ \A d \in scan : \E i \in DOMAIN rest : rest[i] = <<"row", d>>
  <2> DEFINE order == RowSteps(scan)
             all == (ToSweep \o order) \o <<Reporting>>
  <2>1. /\ order \in Seq({"row"} \X scan)
        /\ \A d \in scan : \E i \in DOMAIN order : order[i] = <<"row", d>>
    BY <1>1, RowStepsType, RowStepsOnto
  <2>2. steps = all
    BY <1>4 DEF Reporting
  <2> HIDE DEF order, steps
  <2> QED BY <2>1, <2>2, SweptList, ZenonT(60)
<1> HIDE DEF steps
<1>6. /\ \A d \in Commands \ {c} : cmd'[d] = cmd[d]
      /\ cmd'[c].steps = rest /\ cmd'[c].request = cmd[c].request
      /\ cmd'[c].roots = cmd[c].roots /\ cmd'[c].scan = scan /\ cmd'[c].since = cmd[c].since
      /\ cmd'[c].cache = kept
  BY <1>1, <1>2, <1>3, <1>5, GoOn
<1> HIDE DEF rest
<1>7. Swept(c)' /\ Todo(c)' = scan
  BY <1>5, <1>6 DEF Swept, Todo
<1>8. RowsShape(c)'
  BY <1>4, <1>6, <1>7 DEF RowsShape
<1>9. CASE cmd[c].since = stirs
  <2>1. stirs' = stirs
    BY <1>2, <1>9 DEF Stir
  <2>2. ToSweep \notin {ToLoad, ToLoadOne}
    BY StepsOfRows
  <2>3. cmd[c].roots = Configured /\ scan = ScanFiles(Configured)
    BY <1>1, <1>4, <1>9, <2>2 DEF CurrentOK, Current
  <2>4. rows' = [d \in DOMAIN rows \cap ScanFiles(Configured) |-> rows[d]]
    BY <1>2, <2>3
  <2>5. Calm /\ Settled(ScanFiles(Configured))' /\ Configured' = Configured
    BY <1>2, <2>1, <2>4, SweepSettles DEF Configured
  <2>6. Settled(Todo(c))'
    <3>1. PICK S : S = ScanFiles(Configured)
      OBVIOUS
    <3>2. Settled(S)'
      BY <2>5, <3>1
    <3> QED BY <1>7, <2>3, <2>5, <3>1, <3>2 DEF Settled
  <2>7. ASSUME NEW d \in DOMAIN kept, kept[d] = SourcePath(Configured, d)
        PROVE  Right(d)'
    BY <1>2, <2>5, <2>7 DEF Right
  <2>8. CurrentOK(c)'
    BY <1>6, <2>3, <2>5, <2>6, <2>7 DEF CurrentOK
  <2> QED BY <1>2, <1>6, <1>8, <2>5, <2>8, OneCommand, NoticedSame, StaysIndexed
<1>10. CASE cmd[c].since # stirs
  <2>1. Stirred
    BY <1>2, <1>10 DEF Stir, Stirred
  <2>2. CurrentOK(c)'
    BY <1>1, <1>6, <2>1, OutOfDate
  <2> QED BY <1>2, <1>6, <1>8, <2>1, <2>2, OneCommand, NoticedSame, StaysIndexed
<1> QED BY <1>9, <1>10

\* An index file looks at its path.
LEMMA OneRow ==
  ASSUME Typed, SettingsInv, RowsInv, NEW c \in Commands, IndexRow(c),
         cmd[c].request.do = "file"
  PROVE  RowsInv'
<1>1. /\ Rowing(c) /\ RowsShape(c) /\ CurrentOK(c) /\ DOMAIN cmd = Commands
      /\ DOMAIN cmd[c] = DOMAIN Idle /\ UNCHANGED <<menu, services, settings>>
  BY AtRows DEF RowsStep
<1> DEFINE d == Head(cmd[c].steps)[2]
           source == SourcePath(cmd[c].roots, d)
<1>2. /\ Go(c, cmd[c]) /\ Head(cmd[c].steps)[1] = "row"
      /\ rows' = Inspected(cmd[c].cache, d, source, Sealed)
      /\ IF d \notin ScanFiles(Configured) THEN stirs' = stirs + 1 ELSE Stir(c)
      /\ UNCHANGED <<menu, base, local, proc, indexed>>
  BY <1>1 DEF IndexRow, settings, services
<1>3. cmd[c].steps = ToRow(cmd[c].request.path)
  BY <1>1, <1>2, RowsAt
<1>4. Len(cmd[c].steps) = 1
  BY <1>3, StepsOfRows
<1>5. cmd'[c] = Idle /\ \A e \in Commands \ {c} : cmd'[e] = cmd[e]
  BY <1>1, <1>2, <1>4, GoOn
<1>6. RowsShape(c)' /\ CurrentOK(c)'
  BY <1>5 DEF RowsShape, CurrentOK, Current, Rowing
<1>7. Calm \/ Stirred
  <2>1. CASE d \notin ScanFiles(Configured) \/ cmd[c].since # stirs
    BY <1>2, <2>1 DEF Stir, Stirred
  <2>2. CASE d \in ScanFiles(Configured) /\ cmd[c].since = stirs
    <3>1. stirs' = stirs
      BY <1>2, <2>2 DEF Stir
    <3>2. cmd[c].steps \notin {ToLoad, ToLoadOne}
      BY <1>3, <1>4, StepsOfRows
    <3>3. cmd[c].roots = Configured
      BY <1>1, <2>2, <3>2 DEF CurrentOK, Current
    <3>4. SettingsFit /\ Pathed(d)
      BY <2>2, Fitting, ScannedPathed
    <3> HIDE DEF d
    <3> QED BY <1>2, <3>1, <3>3, <3>4, LookSettles
  <2> QED BY <2>1, <2>2
<1> QED BY <1>2, <1>5, <1>6, <1>7, OneCommand, NoticedSame, StaysIndexed

\* An index looks at one of the paths that it has scanned.
LEMMA ScannedRow ==
  ASSUME Typed, SettingsInv, RowsInv, NEW c \in Commands, IndexRow(c),
         cmd[c].request.do = "index"
  PROVE  RowsInv'
<1>1. /\ Rowing(c) /\ RowsShape(c) /\ CurrentOK(c) /\ DOMAIN cmd = Commands
      /\ DOMAIN cmd[c] = DOMAIN Idle /\ UNCHANGED <<menu, services, settings>>
  BY AtRows DEF RowsStep
<1> DEFINE head == Head(cmd[c].steps)
           scan == cmd[c].scan
           rest == SubSeq(cmd[c].steps, 1 + 1, Len(cmd[c].steps))
<1>2. PICK d : d = head[2]
  OBVIOUS
<1> DEFINE source == InspectPath(cmd[c].roots, d)
<1>3. /\ Go(c, cmd[c]) /\ head[1] = "row"
      /\ rows' = Inspected(cmd[c].cache, d, source, Unread)
      /\ Stir(c) /\ UNCHANGED <<menu, base, local, proc, indexed>>
  BY <1>1, <1>2 DEF IndexRow, settings, services
<1>4. Swept(c)
  BY <1>1, <1>3, RowsAt
<1>5. head \in ({"row"} \X scan) \cup {Reporting}
  BY <1>4, SweptFirst DEF Swept
<1>6. d \in scan /\ head = <<"row", d>> /\ head # Reporting
  BY <1>3, <1>5, <1>2 DEF Reporting
<1>7. /\ Len(cmd[c].steps) # 1 /\ AfterSweep(rest, scan)
      /\ \A e : (\E i \in DOMAIN cmd[c].steps : cmd[c].steps[i] = <<"row", e>>) =>
                  <<"row", e>> = head \/ \E i \in DOMAIN rest : rest[i] = <<"row", e>>
  BY <1>4, <1>6, RowLess DEF Swept
<1>8. /\ \A e \in Commands \ {c} : cmd'[e] = cmd[e]
      /\ cmd'[c].steps = rest /\ cmd'[c].request = cmd[c].request
      /\ cmd'[c].roots = cmd[c].roots /\ cmd'[c].scan = scan /\ cmd'[c].since = cmd[c].since
      /\ cmd'[c].cache = cmd[c].cache
  BY <1>1, <1>3, <1>7, GoOn
<1> HIDE DEF rest, head
<1>9. Swept(c)' /\ Todo(c) \ {d} \subseteq Todo(c)'
  BY <1>6, <1>7, <1>8 DEF Swept, Todo
<1>10. RowsShape(c)'
  BY <1>8, <1>9 DEF RowsShape
<1>11. CASE cmd[c].since = stirs
  <2>1. stirs' = stirs /\ Current(c)
    BY <1>1, <1>3, <1>11 DEF Stir, Current
  <2>2. cmd[c].steps \notin {ToLoad, ToLoadOne}
    BY <1>4, NotSwept DEF Swept
  <2>3. /\ cmd[c].roots = Configured /\ scan = ScanFiles(Configured) /\ Settled(Todo(c))
        /\ \A e \in DOMAIN cmd[c].cache \cap scan :
             Sure(e) /\ cmd[c].cache[e] = SourcePath(Configured, e) => Right(e)
    BY <1>1, <1>4, <2>1, <2>2 DEF CurrentOK
  <2>4. SettingsFit /\ Pathed(d)
    BY <1>6, <2>3, Fitting, ScannedPathed
  <2>5. Sure(d) => source = SourcePath(Configured, d)
    <3>1. Sure(d) => SourcePath(Configured, d) # None
      BY RootsAssumption DEF Sure
    <3>2. source = InspectPath(Configured, d)
      BY <2>3
    <3> QED BY <3>1, <3>2 DEF InspectPath
  <2>6. Sure(d) /\ d \in DOMAIN cmd[c].cache /\ cmd[c].cache[d] = source => Right(d)
    BY <1>6, <2>3, <2>5
  <2> HIDE DEF source
  <2>7. Calm /\ \A todo : Settled(todo) => Settled(todo \ {d})'
    <3> DEFINE cache == cmd[c].cache
    <3>1. UNCHANGED <<menu, base, local, stirs>> /\ rows' = Inspected(cache, d, source, Unread)
      BY <1>3, <2>1
    <3>2. Sure(d) /\ d \in DOMAIN cache /\ cache[d] = source => Right(d)
      BY <2>6
    <3> HIDE DEF cache
    <3>3. /\ Calm
          /\ (Sure(d) /\ d \in DOMAIN cache /\ cache[d] = source => Right(d)) =>
               \A todo : Settled(todo) => Settled(todo \ {d})'
      BY <2>4, <2>5, <3>1, LookSettles
    <3> QED BY <3>2, <3>3
  <2>8. Configured' = Configured
    BY <1>3 DEF Configured
  <2>9. Settled(Todo(c))'
    <3>1. PICK T : T = Todo(c)
      OBVIOUS
    <3>2. Settled(T \ {d})' /\ T \ {d} \subseteq Todo(c)'
      BY <1>9, <2>3, <2>7, <3>1
    <3> QED BY <3>2 DEF Settled
  <2>10. \A e \in DOMAIN cmd[c].cache \cap scan :
           Sure(e)' /\ cmd[c].cache[e] = SourcePath(Configured, e) => Right(e)'
    <3>1. \A e : Sure(e)' <=> Sure(e)
      BY <2>8 DEF Sure
    <3>2. \A e \in ScanFiles(Configured) : Sure(e) /\ Right(e) => Right(e)'
      BY <2>7 DEF Calm
    <3> QED BY <2>3, <3>1, <3>2
  <2>11. CurrentOK(c)'
    BY <1>8, <2>3, <2>8, <2>9, <2>10 DEF CurrentOK
  <2> QED BY <1>3, <1>8, <1>10, <2>7, <2>11, OneCommand, NoticedSame, StaysIndexed
<1>12. CASE cmd[c].since # stirs
  <2>1. Stirred
    BY <1>3, <1>12 DEF Stir, Stirred
  <2>2. CurrentOK(c)'
    BY <1>1, <1>8, <2>1, OutOfDate
  <2> QED BY <1>3, <1>8, <1>10, <2>1, <2>2, OneCommand, NoticedSame, StaysIndexed
<1> QED BY <1>11, <1>12

LEMMA RowsStepRows ==
  ASSUME Typed, SettingsInv, RowsInv, NEW c \in Commands, RowsStep(c)
  PROVE  RowsInv'
<1>1. CASE IndexRow(c)
  <2>1. Rowing(c) /\ RowsShape(c)
    BY AtRows
  <2>2. cmd[c].request.do \in {"index", "file"}
    BY <2>1 DEF RowsShape
  <2> QED BY <1>1, <2>2, OneRow, ScannedRow
<1> QED BY <1>1, LoadRows, ScanRows, SweepRows, ReadRows, ReportRows DEF RowsStep

\* A command that has ended, or is about something else.
LEMMA NotRowing ==
  ASSUME NEW c, cmd'[c] = Idle \/ About(cmd'[c].request) # "rows"
  PROVE  RowsShape(c)' /\ CurrentOK(c)'
BY DEF RowsShape, CurrentOK, Current, Rowing

LEMMA AboutSettings ==
  ASSUME Typed, SettingsInv, RowsInv, NEW c \in Commands,
         ReadSettings(c) \/ TruncateSettings(c) \/ WriteSettings(c)
  PROVE  RowsInv'
<1>1. /\ OtherTurn(c) /\ UNCHANGED <<menu, services, base, first, bounds, started, hit, upset>>
  BY OtherStepTurns DEF OtherStep
<1>2. DOMAIN cmd = Commands /\ DOMAIN cmd[c] = DOMAIN Idle /\ Setting(c)
  BY AtSetting DEF ReadSettings, TruncateSettings, WriteSettings, At, SettingSteps
<1>3. cmd'[c] = Idle \/ cmd'[c].request = cmd[c].request
  <2>1. CASE Go(c, cmd[c])
    BY <1>2, <2>1, SkipOn DEF Go
  <2>2. CASE ReadSettings(c)
    <3> DEFINE now == [cmd[c] EXCEPT !.copy = Change(local, cmd[c].request)]
    <3>1. Finish(c) \/ Go(c, now)
      BY <2>2 DEF ReadSettings
    <3>2. DOMAIN now = DOMAIN Idle /\ now.request = cmd[c].request
      BY <1>2 DEF Idle
    <3> HIDE DEF now
    <3> QED BY <1>2, <3>1, <3>2, SkipOn DEF Go, Finish
  <2> QED BY <2>1, <2>2 DEF TruncateSettings, WriteSettings
<1>4. RowsShape(c)' /\ CurrentOK(c)'
  BY <1>2, <1>3, NotRowing DEF Setting
<1>5. UNCHANGED <<menu, base, proc, rows, indexed>>
  BY <1>1 DEF services, ReadSettings, TruncateSettings, WriteSettings, ghosts
<1>6. Calm \/ Stirred
  <2>1. CASE ReadSettings(c)
    BY <2>1, CalmWhenStill DEF ReadSettings, settings, ghosts
  <2>2. CASE TruncateSettings(c) \/ WriteSettings(c)
    BY <2>2 DEF TruncateSettings, WriteSettings, Stirred
  <2> QED BY <2>1, <2>2
<1> QED BY <1>1, <1>4, <1>5, <1>6, OneCommand, NoticedSame, StaysIndexed DEF OtherTurn

LEMMA CutRows ==
  ASSUME Typed, SettingsInv, RowsInv, NEW c \in Commands, CutShort(c)
  PROVE  RowsInv'
<1>1. cmd'[c] = Idle /\ \A d \in Commands \ {c} : cmd'[d] = cmd[d]
  BY CutTurn
<1>2. UNCHANGED <<menu, base, local, proc, rows, stirs, indexed>>
  BY DEF CutShort, services, settings
<1>3. Calm
  BY <1>2, CalmWhenStill
<1> QED BY <1>1, <1>2, <1>3, NotRowing, OneCommand, NoticedSame, StaysIndexed

LEMMA RunRows ==
  ASSUME Typed, SettingsInv, RowsInv, NEW c \in Commands, NEW request \in menu.requests,
         Run(c, request)
  PROVE  RowsInv'
<1>1. \A d \in Commands \ {c} : cmd'[d] = cmd[d]
  BY RunTurn
<1>2. /\ UNCHANGED <<menu, base, local, proc, rows, stirs, indexed>>
      /\ cmd' = [cmd EXCEPT ![c] = [Idle EXCEPT !.request = request, !.steps = Program(request),
                                                !.since = stirs]]
  BY DEF Run, services, settings
<1>3. cmd'[c].request = request /\ cmd'[c].steps = Program(request)
  BY <1>2, TypedCommand DEF Idle
<1>4. Calm
  BY <1>2, CalmWhenStill
<1>5. RowsShape(c)' /\ CurrentOK(c)'
  <2>1. CASE request.do \in {"index", "file"}
    <3>1. \/ request.do = "index" /\ cmd'[c].steps = ToLoad
          \/ request.do = "file" /\ cmd'[c].steps = ToLoadOne
      BY <1>3, <2>1 DEF Program, ToLoad, ToLoadOne
    <3>2. RowsShape(c)'
      BY <1>3, <3>1 DEF RowsShape
    <3>3. ~ Swept(c)' /\ cmd'[c].steps # ToSweep
      BY <3>1, NotSwept, StepsOfRows DEF Swept
    <3> QED BY <3>1, <3>2, <3>3 DEF CurrentOK
  <2>2. CASE request.do \notin {"index", "file"}
    <3>1. About(request) # "rows"
      BY <2>2, Requested DEF About
    <3> QED BY <1>3, <3>1, NotRowing
  <2> QED BY <2>1, <2>2
<1> QED BY <1>1, <1>2, <1>4, <1>5, OneCommand, NoticedSame, StaysIndexed

-----------------------------------------------------------------------------
\* What a process has taken note of.
NotedOK(x) ==
  \A d \in x.pending \cup x.batch : d # None /\ \E f \in SourceFiles : d = DbPath(x.roots, f)

LEMMA NoticedOne ==
  ASSUME Typed, RowsInv, NEW p \in Pids, NEW x, proc' = [proc EXCEPT ![p] = x], NotedOK(x)
  PROVE  \A q \in Pids : Noticed(q)'
<1>1. DOMAIN proc = Pids
  BY DEF Typed, TypeOK
<1>2. \A q \in Pids : proc'[q] = IF q = p THEN x ELSE proc[q]
  BY <1>1
<1> QED BY <1>2 DEF Noticed, NotedOK, RowsInv

LEMMA FreshNoted ==
  ASSUME NEW kind, NEW roots, NEW state
  PROVE  NotedOK([Process(kind, roots) EXCEPT !.state = state]) /\ NotedOK(Process(kind, roots))
BY DEF NotedOK, Process

LEMMA StateNoted ==
  ASSUME Typed, RowsInv, NEW p \in Pids, NEW state, proc[p] # NoProcess,
         proc' = [proc EXCEPT ![p].state = state]
  PROVE  \A q \in Pids : Noticed(q)'
<1>1. DOMAIN proc = Pids /\ Noticed(p) /\ DOMAIN proc[p] = DOMAIN NoProcess
  BY TypedParts DEF RowsInv, ProcsOK, Proper
<1> DEFINE x == [proc[p] EXCEPT !.state = state]
<1>2. x.pending = proc[p].pending /\ x.batch = proc[p].batch /\ x.roots = proc[p].roots
  BY <1>1 DEF NoProcess, Process
<1>3. proc' = [proc EXCEPT ![p] = x]
  BY <1>1
<1> HIDE DEF x
<1>4. NotedOK(x)
  BY <1>1, <1>2 DEF Noticed, NotedOK
<1> QED BY <1>3, <1>4, NoticedOne

LEMMA ServiceStepRows ==
  ASSUME Typed, SettingsInv, RowsInv, NEW c \in Commands, ServiceStep(c)
  PROVE  RowsInv'
<1>1. Turn(c) /\ (cmd'[c] = Idle \/ cmd'[c].request = cmd[c].request)
  BY ServiceStepTyped, ServiceStepGoes
<1>2. UNCHANGED <<menu, base, local, rows, stirs, indexed>>
  BY DEF ServiceStep, CheckService, CheckStale, RemovePid, Spawn, TruncatePid, WritePid, FindPid,
     Terminate, Quiet, ghosts, settings
<1>3. RowsShape(c)' /\ CurrentOK(c)'
  BY <1>1, NotRowing DEF Turn, Servicing
<1>4. Calm
  BY <1>2, CalmWhenStill
<1>5. \A q \in Pids : Noticed(q)'
  <2>1. CASE Spawn(c)
    <3>1. PICK v \in Services : \E p \in Pids :
            proc' = [proc EXCEPT ![p] = [Process(v, Configured)
                       EXCEPT !.state = IF v = "engine" THEN "new" ELSE "up"]]
      BY <2>1 DEF Spawn
    <3>2. PICK p \in Pids :
            proc' = [proc EXCEPT ![p] = [Process(v, Configured)
                       EXCEPT !.state = IF v = "engine" THEN "new" ELSE "up"]]
      BY <3>1
    <3> DEFINE state == IF v = "engine" THEN "new" ELSE "up"
               x == [Process(v, Configured) EXCEPT !.state = state]
    <3>3. proc' = [proc EXCEPT ![p] = x] /\ NotedOK(x)
      BY <3>2, FreshNoted
    <3> HIDE DEF x
    <3> QED BY <3>3, NoticedOne
  <2>2. CASE Terminate(c)
    <3> DEFINE p == cmd[c].pid
    <3>1. \/ proc' = proc
          \/ Alive(p) /\ proc' = [proc EXCEPT ![p].state = "stopping"]
      BY <2>2 DEF Terminate
    <3>2. p \in Pids \cup {None}
      BY TypedCommand DEF Planned
    <3>3. CASE proc' = proc
      BY <3>3, NoticedSame
    <3>4. CASE Alive(p) /\ proc' = [proc EXCEPT ![p].state = "stopping"]
      <4>1. PICK q : q = p
        OBVIOUS
      <4>2. q \in Pids /\ proc[q] # NoProcess /\ proc' = [proc EXCEPT ![q].state = "stopping"]
        BY <3>2, <3>4, <4>1 DEF Alive
      <4> QED BY <4>2, StateNoted
    <3> QED BY <3>1, <3>3, <3>4
  <2>3. CASE ~ Spawn(c) /\ ~ Terminate(c)
    <3>1. proc' = proc
      BY <2>3 DEF ServiceStep, CheckService, CheckStale, RemovePid, TruncatePid, WritePid, FindPid,
         services
    <3> QED BY <3>1, NoticedSame
  <2> QED BY <2>1, <2>2, <2>3
<1> QED BY <1>1, <1>2, <1>3, <1>4, <1>5, OneCommand, StaysIndexed DEF Turn

\* A process changes no command, but for what a command may say when it ends.
LEMMA ProcessLeaves ==
  ASSUME Typed, NEW p \in Pids, ProcessStep(p), NEW c \in Commands
  PROVE  /\ cmd'[c] = Idle <=> cmd[c] = Idle
         /\ cmd'[c].request = cmd[c].request /\ cmd'[c].steps = cmd[c].steps
         /\ cmd'[c].roots = cmd[c].roots /\ cmd'[c].scan = cmd[c].scan
         /\ cmd'[c].cache = cmd[c].cache /\ cmd'[c].since = cmd[c].since
<1>1. CASE GiveUp(p) \/ Crash(p)
  <2>1. cmd'[c] = IF cmd[c] = Idle THEN Idle ELSE [cmd[c] EXCEPT !.sound = FALSE]
    BY <1>1 DEF GiveUp, Crash, Dies
  <2>2. Planned(c) /\ DOMAIN cmd[c] = DOMAIN Idle
    BY TypedCommand
  <2>3. CASE cmd[c] = Idle
    BY <2>1, <2>3
  <2>4. CASE cmd[c] # Idle
    <3>1. /\ cmd'[c].request = cmd[c].request /\ cmd'[c].steps = cmd[c].steps
          /\ cmd'[c].roots = cmd[c].roots /\ cmd'[c].scan = cmd[c].scan
          /\ cmd'[c].cache = cmd[c].cache /\ cmd'[c].since = cmd[c].since
      BY <2>1, <2>2, <2>4 DEF Idle
    <3>2. cmd[c].steps # <<>>
      BY <2>2, <2>4 DEF Planned
    <3>3. cmd'[c] # Idle
      BY <3>1, <3>2 DEF Idle
    <3> QED BY <2>4, <3>1, <3>3
  <2> QED BY <2>3, <2>4
<1>2. CASE ~ (GiveUp(p) \/ Crash(p))
  <2>1. cmd' = cmd
    BY <1>2 DEF ProcessStep, Bind, Reuse, Exit, Flush, ProcessPath, Notice, Quiet
  <2> QED BY <2>1
<1> QED BY <1>1, <1>2

LEMMA ProcessStepNotes ==
  ASSUME Typed, RowsInv, NEW p \in Pids, ProcessStep(p)
  PROVE  \A q \in Pids : Noticed(q)'
<1>1. DOMAIN proc = Pids /\ DOMAIN proc[p] = DOMAIN NoProcess /\ Noticed(p)
  BY ProcessAt DEF Proper, RowsInv
<1>2. NotedOK(NoProcess)
  BY FreshNoted DEF NoProcess
<1>3. CASE Bind(p)
  BY <1>3, ProcessAt, StateNoted DEF Bind
<1>4. CASE GiveUp(p) \/ Crash(p) \/ Exit(p)
  BY <1>2, <1>4, NoticedOne DEF GiveUp, Crash, Dies, Exit
<1>5. CASE Reuse(p)
  BY <1>5, FreshNoted, NoticedOne DEF Reuse
<1> DEFINE x(pending, batch, cache) == WithWork(p, pending, batch, cache)
<1>6. ASSUME NEW pending, NEW batch, NEW cache
      PROVE  /\ x(pending, batch, cache).roots = proc[p].roots
             /\ x(pending, batch, cache).pending = pending
             /\ x(pending, batch, cache).batch = batch
  BY <1>1 DEF WithWork, NoProcess, Process
<1>7. ASSUME NEW pending, NEW batch, NEW cache,
             proc' = [proc EXCEPT ![p] = x(pending, batch, cache)],
             \A d \in pending \cup batch :
               d # None /\ \E f \in SourceFiles : d = DbPath(proc[p].roots, f)
      PROVE  \A q \in Pids : Noticed(q)'
  <2> DEFINE y == x(pending, batch, cache)
  <2>1. y.roots = proc[p].roots /\ y.pending = pending /\ y.batch = batch
        /\ proc' = [proc EXCEPT ![p] = y]
    BY <1>6, <1>7
  <2> HIDE DEF y
  <2>2. NotedOK(y)
    BY <1>7, <2>1 DEF NotedOK
  <2> QED BY <2>1, <2>2, NoticedOne
<1> HIDE DEF x
<1>8. CASE Flush(p)
  <2>1. proc' = [proc EXCEPT ![p] = x({}, proc[p].pending, rows)]
    BY <1>1, <1>8 DEF Flush, NoProcess, Process, WithWork, x
  <2>2. \A d \in {} \cup proc[p].pending :
          d # None /\ \E f \in SourceFiles : d = DbPath(proc[p].roots, f)
    BY <1>1 DEF Noticed
  <2> QED BY <1>7, <2>1, <2>2
<1>9. CASE ProcessPath(p)
  <2>1. PICK d \in proc[p].batch :
          proc' = [proc EXCEPT ![p].batch = @ \ {d},
                               ![p].cache = IF proc[p].batch = {d} THEN NoRows ELSE @]
    BY <1>9 DEF ProcessPath
  <2>2. proc' = [proc EXCEPT ![p] = x(proc[p].pending, proc[p].batch \ {d},
                                      IF proc[p].batch = {d} THEN NoRows ELSE proc[p].cache)]
    BY <1>1, <2>1 DEF NoProcess, Process, WithWork, x
  <2>3. \A e \in proc[p].pending \cup (proc[p].batch \ {d}) :
          e # None /\ \E f \in SourceFiles : e = DbPath(proc[p].roots, f)
    BY <1>1 DEF Noticed
  <2> QED BY <1>7, <2>2, <2>3
<1>10. CASE \E f \in SourceFiles : Notice(p, f)
  <2>1. PICK f \in SourceFiles : Notice(p, f)
    BY <1>10
  <2> DEFINE d == DbPath(proc[p].roots, f)
  <2>2. d # None /\ proc' = [proc EXCEPT ![p].pending = @ \cup {d}]
    BY <2>1 DEF Notice
  <2>3. \A e \in (proc[p].pending \cup {d}) \cup proc[p].batch :
          e # None /\ \E g \in SourceFiles : e = DbPath(proc[p].roots, g)
    BY <1>1, <2>2 DEF Noticed
  <2> HIDE DEF d
  <2>4. proc' = [proc EXCEPT ![p] = x(proc[p].pending \cup {d}, proc[p].batch, proc[p].cache)]
    BY <1>1, <2>2 DEF NoProcess, Process, WithWork, x
  <2> QED BY <1>7, <2>3, <2>4
<1> QED BY <1>3, <1>4, <1>5, <1>8, <1>9, <1>10 DEF ProcessStep

\* A watcher looks at one of the paths that it has taken note of.
LEMMA ProcessPathRows ==
  ASSUME Typed, SettingsInv, RowsInv, NEW p \in Pids, ProcessPath(p)
  PROVE  Calm \/ Stirred
<1>1. PICK d \in proc[p].batch :
        rows' = Inspected(proc[p].cache, d, InspectPath(proc[p].roots, d), Sealed)
  BY DEF ProcessPath
<1>2. /\ UNCHANGED <<menu, base, local>>
      /\ stirs' = IF proc[p].roots = Configured THEN stirs ELSE stirs + 1
  BY DEF ProcessPath, settings
<1>3. CASE proc[p].roots # Configured
  BY <1>2, <1>3 DEF Stirred
<1>4. CASE proc[p].roots = Configured
  <2>1. PICK f \in SourceFiles : d = DbPath(Configured, f) /\ d # None
    BY <1>4 DEF RowsInv, Noticed
  <2>2. SettingsFit /\ Pathed(d)
    BY <2>1, Fitting, NoticedPathed
  <2> DEFINE source == InspectPath(proc[p].roots, d)
             cache == proc[p].cache
  <2>3. Sure(d) => source = SourcePath(Configured, d)
    <3>1. Sure(d) => SourcePath(Configured, d) # None
      BY RootsAssumption DEF Sure
    <3>2. source = InspectPath(Configured, d)
      BY <1>4
    <3> QED BY <3>1, <3>2 DEF InspectPath
  <2>4. rows' = Inspected(cache, d, source, Sealed) /\ UNCHANGED <<menu, base, local, stirs>>
    BY <1>1, <1>2, <1>4
  <2> HIDE DEF source, cache
  <2> QED BY <2>2, <2>3, <2>4, LookSettles
<1> QED BY <1>3, <1>4

LEMMA ProcessStepRows ==
  ASSUME Typed, SettingsInv, RowsInv, NEW p \in Pids, ProcessStep(p)
  PROVE  RowsInv'
<1>1. UNCHANGED <<menu, base, local, indexed>>
  BY DEF ProcessStep, Bind, GiveUp, Crash, Dies, Reuse, Exit, Flush, ProcessPath, Notice, Quiet,
     ghosts, settings
<1>2. Calm \/ Stirred
  <2>1. CASE ProcessPath(p)
    BY <2>1, ProcessPathRows
  <2>2. CASE ~ ProcessPath(p)
    <3>1. UNCHANGED <<rows, stirs>>
      BY <2>2 DEF ProcessStep, Bind, GiveUp, Crash, Dies, Reuse, Exit, Flush, Notice, Quiet, ghosts
    <3> QED BY <1>1, <3>1, CalmWhenStill
  <2> QED BY <2>1, <2>2
<1>3. \A c \in Commands : RowsShape(c)' /\ CurrentOK(c)'
  BY <1>2, ProcessLeaves, SameCommand
<1>4. \A q \in Pids : Noticed(q)'
  BY ProcessStepNotes
<1>5. indexed' = stirs' => Settled({})'
  BY <1>1, <1>2, StaysIndexed
<1>6. base' \in Seq(Sound(menu')) \cup {None}
  BY <1>1 DEF RowsInv
<1> QED BY <1>3, <1>4, <1>5, <1>6 DEF RowsInv

LEMMA InitRows ==
  ASSUME Init
  PROVE  RowsInv
<1>1. menu \in Menus /\ stirs = 0 /\ indexed = None /\ \A c \in Commands : cmd[c] = Idle
  BY DEF Init
<1>2. PICK start \in menu.starts :
        /\ base = start.base
        /\ \E e, w \in Pids :
             proc = [p \in Pids |->
               IF ~ start.running \/ p \notin {e, w} THEN NoProcess
               ELSE Process(IF p = e THEN "engine" ELSE "watcher",
                            Merge(start.base, start.local.roots))]
  BY DEF Init
<1>3. base \in Seq(Sound(menu)) \cup {None}
  BY <1>1, <1>2, SettingsAssumption
<1>4. \A p \in Pids : NotedOK(proc[p])
  <2>1. \A kind, roots : NotedOK(Process(kind, roots)) /\ NotedOK(NoProcess)
    BY FreshNoted DEF NoProcess
  <2>2. \A p \in Pids : proc[p] = NoProcess \/ \E kind, roots : proc[p] = Process(kind, roots)
    BY <1>2
  <2> QED BY <2>1, <2>2
<1>5. \A p \in Pids : Noticed(p)
  BY <1>4 DEF Noticed, NotedOK
<1>6. \A c \in Commands : RowsShape(c) /\ CurrentOK(c)
  BY <1>1 DEF RowsShape, CurrentOK, Current, Rowing
<1>7. indexed # stirs
  BY <1>1, ControlAssumption
<1> QED BY <1>3, <1>5, <1>6, <1>7 DEF RowsInv

LEMMA NextRows ==
  ASSUME Typed, SettingsInv, RowsInv, [Next]_vars
  PROVE  RowsInv'
<1>1. ASSUME NEW c \in Commands,
             \/ \E request \in menu.requests : Run(c, request)
             \/ ServiceStep(c) \/ OtherStep(c) \/ CutShort(c)
      PROVE  RowsInv'
  <2>1. OtherStep(c) =>
          (ReadSettings(c) \/ TruncateSettings(c) \/ WriteSettings(c)) \/ RowsStep(c)
    BY DEF OtherStep, RowsStep
  <2> QED BY <1>1, <2>1, RunRows, ServiceStepRows, AboutSettings, RowsStepRows, CutRows
<1>2. CASE UNCHANGED vars
  <2>1. UNCHANGED <<menu, base, local, rows, stirs, indexed, proc, cmd>>
    BY <1>2 DEF vars, settings, services, ghosts
  <2>2. Calm
    BY <2>1, CalmWhenStill
  <2>3. \A c \in Commands : RowsShape(c)' /\ CurrentOK(c)'
    BY <2>1, <2>2, SameCommand
  <2> QED BY <2>1, <2>2, <2>3, NoticedSame, StaysIndexed DEF RowsInv
<1>3. CASE Next
  BY <1>1, <1>3, StepSplits, ProcessStepRows
<1> QED BY <1>2, <1>3

(***************************************************************************)
(* After an index during which, and since when, the settings did not       *)
(* change and no process worked with others, every row is of the file its  *)
(* path stands for, and every file under a root with nothing to ignore has *)
(* its row, whatever watchers, other index commands and index file do      *)
(* meanwhile and wherever they are cut short.  Only of files that index    *)
(* cannot read as text nothing is said.                                    *)
(***************************************************************************)
THEOREM RowsIndexed == Spec => []RowsAsConfigured
<1>1. Init => Typed /\ SettingsInv /\ RowsInv
  BY TypedInit, InitSettings, InitRows
<1>2. Typed /\ SettingsInv /\ RowsInv /\ [Next]_vars => (Typed /\ SettingsInv /\ RowsInv)'
  BY NextTyped, NextSettings, NextRows
<1>3. Typed /\ SettingsInv /\ RowsInv => RowsAsConfigured
  <2> SUFFICES ASSUME Typed, SettingsInv, RowsInv, indexed = stirs
               PROVE  /\ \A d \in DOMAIN rows :
                           \/ DbPath(Configured, rows[d]) = d
                           \/ Mistaken(d) \/ SourcePath(Configured, d) \in Unread
                      /\ \A f \in SourceFiles \ Unread : Plain(Configured, f) => f \in Range(rows)
    BY DEF RowsAsConfigured
  <2>1. SettingsFit /\ Settled({})
    BY Fitting DEF RowsInv
  <2> QED BY <2>1, SettledRows
<1> QED BY <1>1, <1>2, <1>3, PTL DEF Spec

=============================================================================
