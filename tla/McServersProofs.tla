--------------------------- MODULE McServersProofs ---------------------------
(***************************************************************************)
(* Proofs about McServers, for any servers, menus of calls, documents and  *)
(* source file, and any bounds: its types, that the hook passes over no    *)
(* observation, that the global database and its cache agree, that a       *)
(* consolidation leaves its memory, and that nothing is lost of what the   *)
(* servers share, unless two of them, or one and a failure, met there.     *)
(***************************************************************************)
EXTENDS McServers, SequenceTheorems, FiniteSetTheorems, WellFoundedInduction, TLAPS

-----------------------------------------------------------------------------
(***************************************************************************)
(* The shape of a call: what comes before a step, and at the end.          *)
(***************************************************************************)
Follows(x, y) ==
  /\ y[1] = "rename" => x = <<"size", y[2]>>
  /\ y[1] = "append" => x = <<"rename", y[2]>>
  /\ y[1] = "truncate" => x = <<IF y[2] = "inbox" THEN "read" ELSE "load", y[2]>>
  /\ y[1] = "write" => x = <<"truncate", y[2]>>
  /\ y[1] = "rows" => x[1] = "last"
  /\ y[1] = "read" => x[1] = "rows"
  /\ y[1] = "save" => x = <<"write", "inbox">>
  /\ y[1] = "upsert" => x[1] = "exists"
  /\ y[1] # "store"
  /\ y[1] = "cache" => x[1] = "store"
  /\ y[1] = "uncache" => x[1] = "forget"
  /\ x[1] = "size" => y[1] = "rename"
  /\ x[1] = "rename" => y[1] = "append"
  /\ x[1] = "truncate" => y = <<"write", x[2]>>
  /\ x = <<"write", "inbox">> => y[1] = "save"
  /\ x[1] = "scan" => y[1] \in {"scan", "stale"}
  /\ x[1] = "store" => y[1] = "cache"
  /\ x[1] = "forget" => y[1] = "uncache"

Has(steps, ops) == \E i \in DOMAIN steps : steps[i][1] \in ops
Once(steps, ops) ==
  \A i, j \in DOMAIN steps : steps[i][1] \in ops /\ steps[j][1] \in ops => i = j

Linked(steps) == \A i \in 1 .. Len(steps) - 1 : Follows(steps[i], steps[i + 1])
Ended(steps) == /\ steps[Len(steps)][1] \in {"save", "touch", "write", "stale", "uncache"}
                /\ steps[Len(steps)] # <<"write", "inbox">>
DeletesFirst(steps) ==
  \A i, j \in DOMAIN steps : i < j /\ steps[j][1] = "delete" => steps[i][1] = "delete"
UpsertsFirst(steps) ==
  \A i, j \in DOMAIN steps : i < j /\ steps[j][1] = "upsert" => steps[i][1] \in {"delete", "exists"}

Shaped(steps) ==
  /\ Linked(steps) /\ Ended(steps) /\ DeletesFirst(steps) /\ UpsertsFirst(steps)
  /\ Once(steps, {"observe"}) /\ Once(steps, {"upsert", "touch"})
  /\ Has(steps, {"delete"}) => Has(steps, {"upsert"})

Calling(s) == srv[s].steps # <<>>

ShapedCall(call) ==
  call.steps # <<>> =>
    /\ Shaped(call.steps)
    /\ call.request \in Requests
    /\ \A i \in DOMAIN call.steps :
         /\ call.steps[i] = <<"load", "source">> => call.request.tool = "replace_exact_text"
         /\ call.steps[i][1] = "scan" =>
              Len(call.steps) - i + call.scanned \in 1 .. Len(DocOrder)

Shapes == \A s \in Servers : ShapedCall(srv[s]) /\ srv[s].scanned \in Nat

LEMMA JoinedSteps ==
  ASSUME NEW a \in Seq(Steps), NEW b \in Seq(Steps)
  PROVE  /\ a \o b \in Seq(Steps) /\ Len(a \o b) = Len(a) + Len(b)
         /\ \A i \in DOMAIN a : i \in DOMAIN (a \o b) /\ (a \o b)[i] = a[i]
         /\ \A i \in DOMAIN b : i + Len(a) \in DOMAIN (a \o b) /\ (a \o b)[i + Len(a)] = b[i]
         /\ \A i \in DOMAIN (a \o b) : \/ i \in DOMAIN a
                                       \/ i - Len(a) \in DOMAIN b /\ (a \o b)[i] = b[i - Len(a)]
BY ConcatProperties

LEMMA JoinedPair ==
  ASSUME NEW a \in Seq(Steps), NEW b \in Seq(Steps), Len(b) = 2
  PROVE  /\ Len(a \o b) = Len(a) + 2 /\ \A i \in 1 .. Len(a) : (a \o b)[i] = a[i]
         /\ (a \o b)[Len(a) + 1] = b[1] /\ (a \o b)[Len(a) + 2] = b[2]
<1>1. Len(a) \in Nat /\ Len(b) \in Nat
  BY LenProperties
<1>2. \A i \in 1 .. Len(a) + Len(b) :
        (a \o b)[i] = IF i <= Len(a) THEN a[i] ELSE b[i - Len(a)]
  BY ConcatProperties
<1>3. Len(a \o b) = Len(a) + Len(b)
  BY ConcatProperties
<1> HIDE DEF Steps
<1> QED BY <1>1, <1>2, <1>3

LEMMA JoinedLinks ==
  ASSUME NEW a \in Seq(Steps), NEW b \in Seq(Steps), Linked(a), Linked(b),
         a # <<>> /\ b # <<>> => Follows(a[Len(a)], b[1])
  PROVE  Linked(a \o b)
<1> SUFFICES ASSUME NEW i \in 1 .. Len(a \o b) - 1
             PROVE  Follows((a \o b)[i], (a \o b)[i + 1])
  BY DEF Linked
<1>1. Len(a \o b) = Len(a) + Len(b) /\ Len(a) \in Nat /\ Len(b) \in Nat
  BY JoinedSteps
<1>2. CASE i < Len(a)
  <2>1. (a \o b)[i] = a[i] /\ (a \o b)[i + 1] = a[i + 1] /\ i \in 1 .. Len(a) - 1
    BY <1>1, <1>2
  <2> QED BY <2>1 DEF Linked
<1>3. CASE i = Len(a)
  <2>1. (a \o b)[i] = a[i] /\ (a \o b)[i + 1] = b[1] /\ a # <<>> /\ b # <<>>
    BY <1>1, <1>3
  <2> QED BY <2>1, <1>3
<1>4. CASE i > Len(a)
  <2>1. /\ i - Len(a) \in 1 .. Len(b) - 1
        /\ (a \o b)[i] = b[i - Len(a)] /\ (a \o b)[i + 1] = b[i - Len(a) + 1]
    BY <1>1, <1>4
  <2> QED BY <2>1 DEF Linked
<1> QED BY <1>1, <1>2, <1>3, <1>4

LEMMA JoinedHas ==
  ASSUME NEW a \in Seq(Steps), NEW b \in Seq(Steps), NEW ops
  PROVE  /\ Has(a \o b, ops) <=> Has(a, ops) \/ Has(b, ops)
         /\ Once(a, ops) /\ ~Has(b, ops) => Once(a \o b, ops)
         /\ Once(b, ops) /\ ~Has(a, ops) => Once(a \o b, ops)
<1>1. Has(a \o b, ops) <=> Has(a, ops) \/ Has(b, ops)
  <2>1. Has(a, ops) => Has(a \o b, ops)
    BY JoinedSteps DEF Has
  <2>2. ASSUME NEW i \in DOMAIN b, b[i][1] \in ops
        PROVE  Has(a \o b, ops)
    <3>1. i + Len(a) \in DOMAIN (a \o b) /\ (a \o b)[i + Len(a)][1] \in ops
      BY <2>2, JoinedSteps
    <3> QED BY <3>1 DEF Has
  <2>3. Has(a \o b, ops) => Has(a, ops) \/ Has(b, ops)
    BY JoinedSteps DEF Has
  <2> QED BY <2>1, <2>2, <2>3 DEF Has
<1>2. Once(a, ops) /\ ~Has(b, ops) => Once(a \o b, ops)
  BY JoinedSteps DEF Has, Once
<1>3. Once(b, ops) /\ ~Has(a, ops) => Once(a \o b, ops)
  <2> SUFFICES ASSUME Once(b, ops), ~Has(a, ops),
                      NEW i \in DOMAIN (a \o b), NEW j \in DOMAIN (a \o b),
                      (a \o b)[i][1] \in ops, (a \o b)[j][1] \in ops
               PROVE  i = j
    BY DEF Once
  <2>1. i - Len(a) \in DOMAIN b /\ (a \o b)[i] = b[i - Len(a)]
    BY JoinedSteps DEF Has
  <2>2. j - Len(a) \in DOMAIN b /\ (a \o b)[j] = b[j - Len(a)]
    BY JoinedSteps DEF Has
  <2>3. i - Len(a) = j - Len(a)
    BY <2>1, <2>2 DEF Once
  <2> QED BY <2>3, JoinedSteps
<1> QED BY <1>1, <1>2, <1>3

LEMMA JoinedEnds ==
  ASSUME NEW a \in Seq(Steps), NEW b \in Seq(Steps), b # <<>>
  PROVE  /\ Ended(b) => Ended(a \o b)
         /\ ~Has(b, {"delete"}) /\ DeletesFirst(a) => DeletesFirst(a \o b)
         /\ ~Has(b, {"upsert"}) /\ UpsertsFirst(a) => UpsertsFirst(a \o b)
         /\ a # <<>> => (a \o b)[1] = a[1]
         /\ a \o b # <<>>
<1>1. Len(b) \in DOMAIN b /\ Len(a \o b) = Len(b) + Len(a) /\ (a \o b)[Len(a \o b)] = b[Len(b)]
  BY JoinedSteps
<1>2. ~Has(b, {"delete"}) /\ DeletesFirst(a) => DeletesFirst(a \o b)
  BY JoinedSteps DEF Has, DeletesFirst
<1>3. ~Has(b, {"upsert"}) /\ UpsertsFirst(a) => UpsertsFirst(a \o b)
  BY JoinedSteps DEF Has, UpsertsFirst
<1> QED BY <1>1, <1>2, <1>3, JoinedSteps DEF Ended

\* The parts of the programs.
NoOps == {"observe", "upsert", "touch", "delete", "scan", "load"}

LEMMA HookSteps ==
  /\ Hook \in Seq(Steps) /\ Hook # <<>> /\ Hook[1] = <<"last", "inbox">>
  /\ Linked(Hook) /\ Ended(Hook) /\ ~Has(Hook, NoOps)
<1> DEFINE a == << <<"last", "inbox">>, <<"rows", "inbox">>, <<"read", "inbox">> >>
           b == WriteTo("inbox")
           c == << <<"save", "inbox">> >>
<1>1. /\ a \in Seq(Steps) /\ Linked(a) /\ ~Has(a, NoOps) /\ a # <<>>
      /\ a[1] = <<"last", "inbox">> /\ a[Len(a)] = <<"read", "inbox">>
  BY DEF Steps, Linked, Follows, Has, NoOps
<1>2. /\ b \in Seq(Steps) /\ Linked(b) /\ ~Has(b, NoOps) /\ b # <<>>
      /\ b[1] = <<"truncate", "inbox">> /\ b[Len(b)] = <<"write", "inbox">>
  BY DEF WriteTo, Steps, Linked, Follows, Has, NoOps
<1>3. /\ c \in Seq(Steps) /\ Linked(c) /\ Ended(c) /\ ~Has(c, NoOps) /\ c # <<>>
      /\ c[1] = <<"save", "inbox">> /\ Len(c) = 1
  BY DEF Steps, Linked, Follows, Has, NoOps, Ended
<1> HIDE DEF a, b, c
<1>4. /\ a \o b \in Seq(Steps) /\ ~Has(a \o b, NoOps) /\ a \o b # <<>> /\ (a \o b)[1] = a[1]
      /\ (a \o b)[Len(a \o b)] = b[Len(b)]
  BY <1>1, <1>2, JoinedSteps, JoinedHas, JoinedEnds
<1>5. Linked(a \o b)
  BY <1>1, <1>2, JoinedLinks DEF Follows
<1>6. Linked(a \o b \o c)
  <2>1. Follows(<<"write", "inbox">>, <<"save", "inbox">>)
    BY DEF Follows
  <2> QED BY <1>2, <1>3, <1>4, <1>5, <2>1, JoinedLinks
<1>7. /\ a \o b \o c \in Seq(Steps) /\ ~Has(a \o b \o c, NoOps) /\ a \o b \o c # <<>>
      /\ (a \o b \o c)[1] = a[1] /\ Ended(a \o b \o c)
  BY <1>3, <1>4, JoinedSteps, JoinedHas, JoinedEnds
<1>8. Hook = a \o b \o c
  BY DEF Hook, a, b, c
<1> QED BY <1>1, <1>6, <1>7, <1>8

LEMMA AppendSteps ==
  ASSUME NEW log \in Logs
  PROVE  /\ AppendTo(log) \in Seq(Steps) /\ Linked(AppendTo(log)) /\ ~Has(AppendTo(log), NoOps)
         /\ AppendTo(log) # <<>>
         /\ AppendTo(log)[1][1] = "size" /\ AppendTo(log)[Len(AppendTo(log))][1] = "append"
BY DEF AppendTo, Logs, Steps, Linked, Follows, Has, NoOps

LEMMA UpsertSteps ==
  /\ Upsert \in Seq(Steps) /\ Linked(Upsert) /\ Once(Upsert, {"upsert", "touch"})
  /\ Has(Upsert, {"upsert"}) /\ ~Has(Upsert, NoOps \ {"upsert"}) /\ Upsert # <<>>
  /\ Upsert[1][1] = "exists" /\ Upsert[Len(Upsert)][1] = "upsert"
BY DEF Upsert, Steps, Linked, Follows, Has, NoOps, Once

LEMMA ObserveSteps ==
  /\ Observe \in Seq(Steps) /\ Linked(Observe) /\ Once(Observe, {"observe"})
  /\ ~Has(Observe, NoOps \ {"observe"}) /\ Observe # <<>>
  /\ Observe[1][1] = "observe" /\ Observe[Len(Observe)][1] = "observe"
BY DEF Observe, Steps, Linked, Follows, Has, NoOps, Once

LEMMA DeleteSteps ==
  ASSUME NEW keys, keys \in Seq(Range(keys))
  PROVE  /\ Deletes(keys) \in Seq(Steps) /\ Linked(Deletes(keys)) /\ DeletesFirst(Deletes(keys))
         /\ ~Has(Deletes(keys), NoOps \ {"delete"})
         /\ \A i \in DOMAIN Deletes(keys) : Deletes(keys)[i][1] = "delete"
<1>1. Len(keys) \in Nat
  BY LenProperties
<1>2. <<"delete", "memories">> \in Steps
  BY DEF Steps
<1>3. /\ Deletes(keys) \in Seq(Steps) /\ Len(Deletes(keys)) = Len(keys)
      /\ \A i \in 1 .. Len(keys) : Deletes(keys)[i] = <<"delete", "memories">>
  BY <1>1, <1>2, IsASeq DEF Deletes
<1> QED BY <1>1, <1>3 DEF Linked, Follows, DeletesFirst, Has, NoOps

\* A call that ends with the hook.
LEMMA WithHook ==
  ASSUME NEW a \in Seq(Steps), Linked(a), DeletesFirst(a), UpsertsFirst(a),
         a # <<>> => a[Len(a)][1] \notin {"size", "rename", "truncate", "write", "scan", "store", "forget"},
         Once(a, {"observe"}), Once(a, {"upsert", "touch"}),
         Has(a, {"delete"}) => Has(a, {"upsert"})
  PROVE  /\ a \o Hook \in Seq(Steps) /\ Shaped(a \o Hook)
         /\ \A op \in {"scan", "load"} : Has(a \o Hook, {op}) => Has(a, {op})
         /\ a # <<>> => (a \o Hook)[1] = a[1]
<1>1. a # <<>> => Follows(a[Len(a)], Hook[1])
  BY HookSteps DEF Follows
<1>2. Linked(a \o Hook)
  BY <1>1, HookSteps, JoinedLinks
<1>3. \A op \in NoOps : ~Has(Hook, {op})
  BY HookSteps DEF Has
<1>4. ~Has(Hook, {"upsert", "touch"})
  BY HookSteps DEF Has, NoOps
<1>5. /\ Once(a \o Hook, {"observe"}) /\ Once(a \o Hook, {"upsert", "touch"})
      /\ \A op \in NoOps : Has(a \o Hook, {op}) <=> Has(a, {op})
  BY <1>3, <1>4, HookSteps, JoinedHas DEF NoOps
<1>6. /\ Ended(a \o Hook) /\ DeletesFirst(a \o Hook) /\ UpsertsFirst(a \o Hook)
      /\ a \o Hook \in Seq(Steps)
  BY <1>3, HookSteps, JoinedEnds, JoinedSteps DEF NoOps
<1>7. a # <<>> => (a \o Hook)[1] = a[1]
  BY HookSteps, JoinedEnds
<1> QED BY <1>2, <1>5, <1>6, <1>7 DEF Shaped, NoOps

LEMMA PromoteSteps ==
  ASSUME NEW log \in {None, "decisions", "patterns"}
  PROVE  /\ Promote(log) \in Seq(Steps) /\ Linked(Promote(log)) /\ ~Has(Promote(log), NoOps)
         /\ Promote(log) # <<>> => /\ Promote(log)[1][1] = "size"
                                   /\ Promote(log)[Len(Promote(log))][1] = "append"
<1>1. CASE log = None
  BY <1>1 DEF Promote, Linked, Has
<1>2. CASE log # None
  <2>1. log \in Logs /\ Promote(log) = AppendTo(log)
    BY <1>2 DEF Logs, Promote
  <2> QED BY <2>1, AppendSteps
<1> QED BY <1>1, <1>2

\* An upsert, with or without deletions before and a line for a log after.
LEMMA UpsertCall ==
  ASSUME NEW a \in Seq(Steps), Linked(a), DeletesFirst(a), ~Has(a, NoOps \ {"delete"}),
         \A i \in DOMAIN a : a[i][1] = "delete",
         NEW b \in Seq(Steps), Linked(b), ~Has(b, NoOps),
         b # <<>> => b[1][1] = "size" /\ b[Len(b)][1] = "append"
  PROVE  LET steps == a \o Upsert \o b \o Hook
         IN /\ steps \in Seq(Steps) /\ steps # <<>> /\ Shaped(steps)
            /\ ~Has(steps, {"scan", "load"})
            /\ steps[1][1] \in {"delete", "exists"}
<1> DEFINE c == a \o Upsert
           d == a \o Upsert \o b
<1>1. a # <<>> => Follows(a[Len(a)], Upsert[1])
  <2>1. a # <<>> => Len(a) \in DOMAIN a
    OBVIOUS
  <2> QED BY <2>1, UpsertSteps DEF Follows
<1>2. /\ c \in Seq(Steps) /\ Linked(c) /\ c # <<>>
      /\ Len(c) \in DOMAIN c /\ c[Len(c)][1] = "upsert"
  BY <1>1, UpsertSteps, JoinedSteps, JoinedLinks
<1>10. c[1][1] \in {"delete", "exists"}
  <2>1. CASE a = <<>>
    BY <2>1, UpsertSteps, ConcatEmptySeq
  <2>2. CASE a # <<>>
    <3>1. c[1] = a[1] /\ 1 \in DOMAIN a
      BY <2>2, UpsertSteps, JoinedEnds, EmptySeq, LenProperties
    <3> QED BY <3>1
  <2> QED BY <2>1, <2>2
<1>3. /\ Once(c, {"upsert", "touch"}) /\ Has(c, {"upsert"}) /\ DeletesFirst(c)
      /\ ~Has(c, {"observe"}) /\ ~Has(c, {"scan", "load"})
  <2>1. /\ ~Has(a, {"upsert", "touch"}) /\ ~Has(a, {"observe"}) /\ ~Has(a, {"scan", "load"})
        /\ ~Has(Upsert, {"observe"}) /\ ~Has(Upsert, {"scan", "load"}) /\ ~Has(Upsert, {"delete"})
    BY UpsertSteps DEF Has, NoOps
  <2> QED BY <2>1, UpsertSteps, JoinedHas, JoinedEnds
<1>14. UpsertsFirst(c)
  <2> SUFFICES ASSUME NEW i \in DOMAIN c, NEW j \in DOMAIN c, i < j, c[j][1] = "upsert"
               PROVE  c[i][1] \in {"delete", "exists"}
    BY DEF UpsertsFirst
  <2>1. CASE i \in DOMAIN a
    BY <2>1, UpsertSteps, JoinedSteps
  <2>2. CASE i - Len(a) \in DOMAIN Upsert
    <3>1. i - Len(a) \in 1 .. 2 /\ c[i] = Upsert[i - Len(a)] /\ Len(c) = Len(a) + 2
      BY <2>2, UpsertSteps, JoinedSteps, JoinedPair DEF Upsert
    <3>2. Len(a) \in Nat /\ i \in Nat /\ j \in Nat /\ j <= Len(c)
      BY <1>2, LenProperties
    <3>3. i - Len(a) = 1
      BY <3>1, <3>2
    <3> QED BY <3>1, <3>3, UpsertSteps
  <2> QED BY <2>1, <2>2, UpsertSteps, JoinedSteps
<1> HIDE DEF c
<1>4. b # <<>> => Follows(c[Len(c)], b[1])
  BY <1>2 DEF Follows
<1>5. d \in Seq(Steps) /\ Linked(d)
  BY <1>2, <1>4, JoinedSteps, JoinedLinks DEF c
<1>6. d # <<>> /\ d[Len(d)][1] \in {"upsert", "append"}
  <2>1. CASE b = <<>>
    BY <2>1, <1>2, JoinedSteps DEF c
  <2>2. CASE b # <<>>
    BY <2>2, <1>2, JoinedSteps DEF c
  <2> QED BY <2>1, <2>2
<1>7. /\ Once(d, {"upsert", "touch"}) /\ Has(d, {"upsert"}) /\ DeletesFirst(d)
      /\ UpsertsFirst(d)
      /\ Once(d, {"observe"}) /\ ~Has(d, {"scan", "load"})
  <2>1. /\ ~Has(b, {"upsert", "touch"}) /\ ~Has(b, {"observe"}) /\ ~Has(b, {"scan", "load"})
        /\ ~Has(b, {"delete"}) /\ ~Has(b, {"upsert"})
    BY DEF Has, NoOps
  <2>2. ~Has(d, {"observe"}) /\ ~Has(d, {"scan", "load"}) /\ Has(d, {"upsert"})
        /\ Once(d, {"upsert", "touch"})
    <3>1. d = c \o b
      BY DEF c
    <3>2. \A ops : Has(c \o b, ops) <=> Has(c, ops) \/ Has(b, ops)
      BY <1>2, JoinedHas
    <3>3. Once(c \o b, {"upsert", "touch"})
      BY <2>1, <1>2, <1>3, JoinedHas
    <3> HIDE DEF d
    <3> QED BY <2>1, <1>3, <3>1, <3>2, <3>3
  <2>3. DeletesFirst(d) /\ UpsertsFirst(d)
    <3>1. CASE b = <<>>
      <4>1. d = c
        BY <3>1, <1>2, ConcatEmptySeq DEF c
      <4> QED BY <4>1, <1>3, <1>14
    <3>2. CASE b # <<>>
      BY <3>2, <2>1, <1>2, <1>3, <1>14, JoinedEnds DEF c
    <3> QED BY <3>1, <3>2
  <2>4. Once(d, {"observe"})
    BY <2>2 DEF Once, Has
  <2> QED BY <2>2, <2>3, <2>4
<1>11. d[1][1] \in {"delete", "exists"}
  <2>1. 1 \in DOMAIN c
    BY <1>2
  <2>2. d[1] = c[1]
    BY <1>2, <2>1, JoinedSteps DEF c
  <2> QED BY <1>10, <2>2
<1> HIDE DEF d
<1>8. /\ d \o Hook \in Seq(Steps) /\ Shaped(d \o Hook) /\ (d \o Hook)[1] = d[1]
      /\ \A op \in {"scan", "load"} : Has(d \o Hook, {op}) => Has(d, {op})
  BY <1>5, <1>6, <1>7, WithHook
<1>9. d \o Hook # <<>> /\ ~Has(d \o Hook, {"scan", "load"})
  BY <1>5, <1>7, HookSteps, JoinedHas, JoinedEnds DEF Has, NoOps
<1>12. d = a \o Upsert \o b
  BY DEF d
<1>13. (d \o Hook)[1][1] \in {"delete", "exists"}
  BY <1>8, <1>11
<1> QED BY <1>8, <1>9, <1>12, <1>13

\* An observation after something that is no log's.
LEMMA ObserveCall ==
  ASSUME NEW a \in Seq(Steps), Linked(a), ~Has(a, NoOps \ {"load"}), a # <<>>,
         a[Len(a)][1] \in {"contract", "record"}
  PROVE  LET steps == a \o Observe \o Hook
         IN /\ steps \in Seq(Steps) /\ Shaped(steps) /\ ~Has(steps, {"scan"})
            /\ ~Has(a, {"load"}) => ~Has(steps, {"scan", "load"})
            /\ steps[1] = a[1]
<1> DEFINE c == a \o Observe
<1>1. Follows(a[Len(a)], Observe[1])
  BY ObserveSteps DEF Follows
<1>2. c \in Seq(Steps) /\ Linked(c) /\ c # <<>> /\ c[Len(c)][1] = "observe"
  BY <1>1, ObserveSteps, JoinedSteps, JoinedLinks
<1>3. \A ops \in SUBSET (NoOps \ {"load"}) : ~Has(a, ops)
  BY DEF Has
<1>4. \A ops \in SUBSET (NoOps \ {"observe"}) : ~Has(Observe, ops)
  BY ObserveSteps DEF Has
<1>5. \A ops : Has(c, ops) <=> Has(a, ops) \/ Has(Observe, ops)
  BY ObserveSteps, JoinedHas
<1>6. /\ ~Has(c, {"delete"}) /\ ~Has(c, {"upsert", "touch"}) /\ ~Has(c, {"scan"})
      /\ ~Has(a, {"load"}) => ~Has(c, {"load"})
  BY <1>3, <1>4, <1>5 DEF NoOps
<1>7. Once(c, {"observe"})
  <2>1. ~Has(a, {"observe"})
    BY <1>3 DEF NoOps
  <2> QED BY <2>1, ObserveSteps, JoinedHas
<1>10. c[1] = a[1]
  BY ObserveSteps, JoinedEnds
<1> HIDE DEF c
<1>8. DeletesFirst(c) /\ UpsertsFirst(c) /\ Once(c, {"upsert", "touch"})
  BY <1>6 DEF DeletesFirst, UpsertsFirst, Once, Has
<1>9. /\ c \o Hook \in Seq(Steps) /\ Shaped(c \o Hook) /\ (c \o Hook)[1] = c[1]
      /\ \A op \in {"scan", "load"} : Has(c \o Hook, {op}) => Has(c, {op})
  BY <1>2, <1>6, <1>7, <1>8, WithHook
<1> QED BY <1>6, <1>9, <1>10 DEF c, Has

\* A program a tool runs has this shape.
ScansLast(steps) ==
  \A i \in DOMAIN steps : steps[i][1] = "scan" => Len(steps) - i \in 1 .. Len(DocOrder)

Firsts == {"observe", "exists", "delete", "scan", "stale", "find", "contract", "load"}

LEMMA ProgramShape ==
  ASSUME NEW r \in Requests, Program(r) # <<>>
  PROVE  /\ Program(r) \in Seq(Steps) /\ Shaped(Program(r)) /\ ScansLast(Program(r))
         /\ Program(r)[1][1] \in Firsts
         /\ \A i \in DOMAIN Program(r) :
              Program(r)[i] = <<"load", "source">> => r.tool = "replace_exact_text"
<1>1. \A steps : ~Has(steps, {"scan", "load"}) =>
        /\ ScansLast(steps)
        /\ \A i \in DOMAIN steps : steps[i] # <<"load", "source">>
  BY DEF ScansLast, Has
<1>2. <<>> \in Seq(Steps) /\ Linked(<<>>) /\ DeletesFirst(<<>>) /\ ~Has(<<>>, NoOps)
      /\ \A i \in DOMAIN <<>> : <<>>[i][1] = "delete"
  BY DEF Linked, DeletesFirst, Has
<1>3. CASE r.tool = "save_observation"
  <2>1. Program(r) = Observe \o Hook
    BY <1>3 DEF Program, Saving
  <2>2. /\ DeletesFirst(Observe) /\ UpsertsFirst(Observe)
        /\ Once(Observe, {"upsert", "touch"}) /\ ~Has(Observe, {"delete"})
        /\ ~Has(Observe, {"scan"}) /\ ~Has(Observe, {"load"})
    BY ObserveSteps DEF DeletesFirst, UpsertsFirst, Once, Has, NoOps
  <2>3. /\ Shaped(Observe \o Hook) /\ Observe \o Hook \in Seq(Steps)
        /\ \A op \in {"scan", "load"} : ~Has(Observe \o Hook, {op})
    BY <2>2, ObserveSteps, WithHook
  <2>4. ~Has(Program(r), {"scan", "load"})
    BY <2>1, <2>3 DEF Has
  <2>5. Program(r)[1][1] = "observe"
    <3>1. (Observe \o Hook)[1] = Observe[1]
      BY <2>2, ObserveSteps, WithHook
    <3> QED BY <2>1, <3>1, ObserveSteps
  <2> QED BY <2>1, <2>3, <2>4, <2>5, <1>1 DEF Firsts
<1>4. CASE r.tool = "write_memory"
  <2>1. Program(r) = Upsert \o Promote(r.log) \o Hook
    BY <1>4 DEF Program, Writing
  <2>2. Program(r) = <<>> \o Upsert \o Promote(r.log) \o Hook
    BY <2>1, UpsertSteps, ConcatEmptySeq
  <2>3. r.log \in {None, "decisions", "patterns"}
    BY <1>4, McAssumption
  <2>4. ~Has(<<>>, NoOps \ {"delete"})
    BY DEF Has
  <2>5. /\ Program(r) \in Seq(Steps) /\ Shaped(Program(r)) /\ ~Has(Program(r), {"scan", "load"})
        /\ Program(r)[1][1] \in {"delete", "exists"}
    BY <2>2, <2>3, <2>4, <1>2, PromoteSteps, UpsertCall, ZenonT(60)
  <2> QED BY <2>5, <1>1 DEF Firsts
<1>5. CASE r.tool = "sync_session_memory"
  <2>1. Program(r) = Upsert \o AppendTo("inbox") \o Hook
    BY <1>5 DEF Program, SessionSync
  <2>2. Program(r) = <<>> \o Upsert \o AppendTo("inbox") \o Hook
    BY <2>1, UpsertSteps, ConcatEmptySeq
  <2>3. "inbox" \in Logs /\ ~Has(<<>>, NoOps \ {"delete"})
    BY DEF Has, Logs
  <2>4. /\ Program(r) \in Seq(Steps) /\ Shaped(Program(r)) /\ ~Has(Program(r), {"scan", "load"})
        /\ Program(r)[1][1] \in {"delete", "exists"}
    BY <2>2, <2>3, <1>2, AppendSteps, UpsertCall
  <2> QED BY <2>4, <1>1 DEF Firsts
<1>6. CASE r.tool = "consolidate_memory"
  <2>1. Program(r) = Deletes(r.old_keys) \o Upsert \o Promote(r.log) \o Hook
    BY <1>6 DEF Program, Consolidation
  <2>2. r.log \in {None, "decisions", "patterns"} /\ r.old_keys \in Seq(Range(r.old_keys))
    BY <1>6, McAssumption
  <2> DEFINE a == Deletes(r.old_keys)
             b == Promote(r.log)
  <2>3. /\ a \in Seq(Steps) /\ Linked(a) /\ DeletesFirst(a) /\ ~Has(a, NoOps \ {"delete"})
        /\ \A i \in DOMAIN a : a[i][1] = "delete"
    BY <2>2, DeleteSteps
  <2>4. /\ b \in Seq(Steps) /\ Linked(b) /\ ~Has(b, NoOps)
        /\ b # <<>> => b[1][1] = "size" /\ b[Len(b)][1] = "append"
    BY <2>2, PromoteSteps
  <2> HIDE DEF a, b
  <2>5. LET steps == a \o Upsert \o b \o Hook
        IN /\ steps \in Seq(Steps) /\ Shaped(steps) /\ ~Has(steps, {"scan", "load"})
           /\ steps[1][1] \in {"delete", "exists"}
    BY <2>3, <2>4, UpsertCall
  <2> QED BY <2>1, <2>5, <1>1 DEF a, b, Firsts
<1>7. CASE r.tool = "search_memory"
  <2> DEFINE a == [i \in 1 .. Len(DocOrder) |-> <<"scan", "global">>]
             b == << <<"stale", "global">> >>
  <2>1. Program(r) = a \o b
    BY <1>7 DEF Program, Synchronize
  <2>2. /\ a \in Seq(Steps) /\ Len(a) = Len(DocOrder) /\ Len(a) \in Nat
        /\ \A i \in 1 .. Len(a) : a[i] = <<"scan", "global">>
    <3>1. Len(DocOrder) \in Nat /\ <<"scan", "global">> \in Steps
      BY LenProperties DEF Steps
    <3> QED BY <3>1, IsASeq
  <2>3. b \in Seq(Steps) /\ Len(b) = 1 /\ b[1] = <<"stale", "global">> /\ b # <<>> /\ Ended(b)
    BY DEF Steps, Ended
  <2> HIDE DEF a, b
  <2>4. /\ a \o b \in Seq(Steps) /\ Len(a \o b) = Len(DocOrder) + 1 /\ Ended(a \o b)
        /\ \A i \in 1 .. Len(DocOrder) : (a \o b)[i] = <<"scan", "global">>
        /\ (a \o b)[Len(DocOrder) + 1] = <<"stale", "global">>
    <3>1. a \o b \in Seq(Steps) /\ Ended(a \o b)
      BY <2>2, <2>3, JoinedSteps, JoinedEnds
    <3> QED BY <2>2, <2>3, <3>1, ConcatProperties
  <2>5. Linked(a \o b)
    BY <2>2, <2>4 DEF Linked, Follows
  <2>6. \A i \in DOMAIN (a \o b) : (a \o b)[i][1] \in {"scan", "stale"}
    BY <2>2, <2>4
  <2>7. Shaped(a \o b)
    BY <2>4, <2>5, <2>6 DEF Shaped, DeletesFirst, UpsertsFirst, Once, Has
  <2>8. ScansLast(a \o b)
    BY <2>2, <2>4 DEF ScansLast
  <2>9. (a \o b)[1][1] \in Firsts
    BY <2>2, <2>4, <2>6 DEF Firsts
  <2>10. \A i \in DOMAIN (a \o b) : (a \o b)[i] # <<"load", "source">>
    BY <2>6
  <2>11. a \o b \in Seq(Steps)
    BY <2>4
  <2> QED BY <2>1, <2>7, <2>8, <2>9, <2>10, <2>11
<1>8. CASE r.tool = "read_memory"
  <2>1. Program(r) = << <<"find", None>>, <<"touch", None>> >>
    BY <1>8 DEF Program, Reading
  <2>2. Program(r) \in Seq(Steps) /\ Shaped(Program(r))
    BY <2>1 DEF Steps, Shaped, Linked, Follows, Ended, DeletesFirst, UpsertsFirst, Once, Has
  <2>3. ~Has(Program(r), {"scan", "load"})
    BY <2>1 DEF Has
  <2> QED BY <2>1, <2>2, <2>3, <1>1 DEF Firsts
<1>9. CASE r.tool = "create_task_contract"
  <2> DEFINE a == << <<"contract", None>> >>
  <2>1. Program(r) = a \o Observe \o Hook
    BY <1>9 DEF Program, Contracting
  <2>2. a \in Seq(Steps) /\ Linked(a) /\ ~Has(a, NoOps) /\ a # <<>> /\ a[Len(a)][1] = "contract"
    BY DEF Steps, Linked, Follows, Has, NoOps
  <2> HIDE DEF a
  <2>3. ~Has(a, NoOps \ {"load"}) /\ ~Has(a, {"load"})
    BY <2>2 DEF Has, NoOps
  <2>4. /\ Program(r) \in Seq(Steps) /\ Shaped(Program(r)) /\ ~Has(Program(r), {"scan", "load"})
        /\ Program(r)[1] = a[1]
    <3>1. LET steps == a \o Observe \o Hook
          IN /\ steps \in Seq(Steps) /\ Shaped(steps) /\ ~Has(steps, {"scan", "load"})
             /\ steps[1] = a[1]
      BY <2>2, <2>3, ObserveCall
    <3> QED BY <2>1, <3>1
  <2>5. a[1][1] = "contract"
    BY DEF a
  <2> QED BY <2>4, <2>5, <1>1 DEF Firsts
<1>10. CASE r.tool = "manage_todo"
  <2> DEFINE a == << <<"load", "todo">> >>
             b == WriteTo("todo")
  <2>1. Program(r) = a \o b
    BY <1>10 DEF Program, Managing
  <2>2. a \in Seq(Steps) /\ Linked(a) /\ Len(a) = 1 /\ a[1] = <<"load", "todo">> /\ a # <<>>
    BY DEF Steps, Linked
  <2>3. /\ b \in Seq(Steps) /\ Linked(b) /\ Len(b) = 2 /\ b[1] = <<"truncate", "todo">> /\ b # <<>>
        /\ b[2] = <<"write", "todo">> /\ Ended(b)
    BY DEF WriteTo, Steps, Linked, Follows, Ended
  <2> HIDE DEF a, b
  <2>4. /\ a \o b \in Seq(Steps) /\ Ended(a \o b)
        /\ Len(a \o b) = 3 /\ (a \o b)[1] = <<"load", "todo">>
        /\ (a \o b)[2] = <<"truncate", "todo">> /\ (a \o b)[3] = <<"write", "todo">>
    <3>1. a \o b \in Seq(Steps) /\ Ended(a \o b)
      BY <2>2, <2>3, JoinedSteps, JoinedEnds
    <3> QED BY <2>2, <2>3, <3>1, JoinedPair
  <2> DEFINE d == a \o b
  <2>5. Linked(a \o b)
    <3> HIDE DEF d
    <3>1. Follows(d[1], d[2]) /\ Follows(d[2], d[3])
      BY <2>4 DEF Follows, d
    <3>2. \A i \in 1 .. Len(d) - 1 : i = 1 \/ i = 2
      BY <2>4 DEF d
    <3>3. Linked(d)
      BY <3>1, <3>2 DEF Linked
    <3> QED BY <3>3 DEF d
  <2> HIDE DEF d
  <2>6. \A i \in DOMAIN (a \o b) : (a \o b)[i][1] \in {"load", "truncate", "write"}
                                   /\ (a \o b)[i] # <<"load", "source">>
    BY <2>4
  <2>7. Shaped(a \o b) /\ ScansLast(a \o b)
    BY <2>4, <2>5, <2>6 DEF Shaped, DeletesFirst, UpsertsFirst, Once, Has, ScansLast
  <2> QED BY <2>1, <2>4, <2>6, <2>7 DEF Firsts
<1>11. CASE r.tool = "replace_exact_text"
  <2> DEFINE a == << <<"load", "source">> >>
             b == WriteTo("source")
             c == << <<"event", None>>, <<"record", None>> >>
  <2>1. Program(r) = a \o b \o c \o Observe \o Hook
    BY <1>11 DEF Program, Editing
  <2>2. a \in Seq(Steps) /\ Len(a) = 1 /\ a[1] = <<"load", "source">> /\ a # <<>>
    BY DEF Steps
  <2>3. /\ b \in Seq(Steps) /\ Len(b) = 2 /\ b[1] = <<"truncate", "source">> /\ b # <<>>
        /\ b[2] = <<"write", "source">>
    BY DEF WriteTo, Steps
  <2>4. /\ c \in Seq(Steps) /\ Len(c) = 2 /\ c[1] = <<"event", None>> /\ c # <<>>
        /\ c[2] = <<"record", None>>
    BY DEF Steps
  <2> HIDE DEF a, b, c
  <2>5. /\ a \o b \in Seq(Steps) /\ Len(a \o b) = 3 /\ (a \o b)[1] = <<"load", "source">>
        /\ (a \o b)[2] = <<"truncate", "source">> /\ (a \o b)[3] = <<"write", "source">>
    <3>1. a \o b \in Seq(Steps)
      BY <2>2, <2>3, JoinedSteps
    <3> QED BY <2>2, <2>3, <3>1, JoinedPair
  <2>6. /\ a \o b \o c \in Seq(Steps) /\ Len(a \o b \o c) = 5 /\ a \o b \o c # <<>>
        /\ (a \o b \o c)[1] = <<"load", "source">>
        /\ (a \o b \o c)[2] = <<"truncate", "source">> /\ (a \o b \o c)[3] = <<"write", "source">>
        /\ (a \o b \o c)[4] = <<"event", None>> /\ (a \o b \o c)[5] = <<"record", None>>
    <3>1. a \o b \o c \in Seq(Steps)
      BY <2>4, <2>5, JoinedSteps
    <3> QED BY <2>4, <2>5, <3>1, JoinedPair, SMTT(60)
  <2> DEFINE d == a \o b \o c
  <2> HIDE DEF d
  <2>7. Linked(d) /\ ~Has(d, NoOps \ {"load"})
    <3>1. /\ Len(d) = 5 /\ d[1] = <<"load", "source">> /\ d[2] = <<"truncate", "source">>
          /\ d[3] = <<"write", "source">> /\ d[4] = <<"event", None>> /\ d[5] = <<"record", None>>
      BY <2>6 DEF d
    <3>2. Follows(d[1], d[2]) /\ Follows(d[2], d[3]) /\ Follows(d[3], d[4]) /\ Follows(d[4], d[5])
      BY <3>1 DEF Follows
    <3>3. d \in Seq(Steps)
      BY <2>6 DEF d
    <3>4. \A i \in 1 .. 4 : i = 1 \/ i = 2 \/ i = 3 \/ i = 4
      OBVIOUS
    <3>5. DOMAIN d = 1 .. 5 /\ \A i \in 1 .. 5 : i \in 1 .. 4 \/ i = 5
      BY <3>1, <3>3
    <3>6. Linked(d)
      BY <3>1, <3>2, <3>4 DEF Linked
    <3>7. ~Has(d, NoOps \ {"load"})
      BY <3>1, <3>4, <3>5 DEF Has, NoOps
    <3> QED BY <3>6, <3>7
  <2>8. LET steps == d \o Observe \o Hook
        IN /\ steps \in Seq(Steps) /\ Shaped(steps) /\ ~Has(steps, {"scan"})
           /\ steps[1] = <<"load", "source">>
    <3>1. d \in Seq(Steps) /\ d # <<>> /\ d[Len(d)][1] = "record" /\ d[1] = <<"load", "source">>
      BY <2>6 DEF d
    <3> QED BY <2>7, <3>1, ObserveCall
  <2> QED BY <2>1, <2>8, <1>11 DEF d, ScansLast, Has, Firsts
<1> QED BY McAssumption, <1>3, <1>4, <1>5, <1>6, <1>7, <1>8, <1>9, <1>10, <1>11 DEF Tools

-----------------------------------------------------------------------------
(***************************************************************************)
(* What a step does to the calls: the one that takes it goes on, one step  *)
(* further or two, or ends, or finds out what else there is to do.         *)
(***************************************************************************)
Serving ==
  /\ DOMAIN srv = Servers
  /\ \A s \in Servers : /\ DOMAIN srv[s] = DOMAIN Idle
                       /\ srv[s].steps \in Seq(Steps)
                       /\ (srv[s] = Idle) = (srv[s].steps = <<>>)

Rest(new, old, n) ==
  /\ new \in Seq(Steps) /\ new # <<>> /\ Len(new) = Len(old) - n
  /\ \A i \in 1 .. Len(new) : new[i] = old[i + n]

Found(new, old) ==
  \/ /\ old[1][1] = "scan" /\ new \in Seq(Steps) /\ Len(new) = Len(old) + 1
     /\ new[1] = <<"store", "global">> /\ new[2] = <<"cache", "global">>
     /\ \A i \in 3 .. Len(new) : new[i] = old[i - 1]
  \/ /\ old[1][1] \in {"stale", "uncache"}
     /\ new = << <<"forget", "global">>, <<"uncache", "global">> >>

Scanned(s) == IF At(s, "scan") THEN srv[s].scanned + 1 ELSE srv[s].scanned

Same(r, s) ==
  /\ DOMAIN r = DOMAIN Idle
  /\ r.request = srv[s].request /\ r.call = srv[s].call /\ r.key = srv[s].key

\* A log has been renamed that t has opened.
Kept(t) ==
  \/ srv'[t] = srv[t]
  \/ /\ Same(srv'[t], t) /\ At(t, "write") /\ srv[t].moved = None
     /\ srv'[t] = [srv[t] EXCEPT !.moved = clock]

Turn(s) ==
  /\ DOMAIN srv' = Servers /\ \A t \in Servers \ {s} : Kept(t)
  /\ \/ srv'[s] = Idle
     \/ /\ Same(srv'[s], s) /\ srv'[s].scanned = Scanned(s)
        /\ \/ \E n \in 1 .. 2 : Rest(srv'[s].steps, srv[s].steps, n) /\ (n = 2 => At(s, "size"))
           \/ Found(srv'[s].steps, srv[s].steps)

LEMMA FirstStep ==
  ASSUME Serving, NEW s \in Servers, Calling(s)
  PROVE  /\ Head(srv[s].steps) = srv[s].steps[1] /\ srv[s].steps[1] \in Steps
         /\ Len(srv[s].steps) \in Nat /\ Len(srv[s].steps) >= 1 /\ srv[s] # Idle
         /\ \A op : At(s, op) <=> srv[s].steps[1][1] = op
         /\ Resource(s) = srv[s].steps[1][2]
<1>1. srv[s].steps \in Seq(Steps) /\ srv[s].steps # <<>>
  BY DEF Serving, Calling
<1>2. Head(srv[s].steps) = srv[s].steps[1] /\ srv[s].steps[1] \in Steps
      /\ Len(srv[s].steps) \in Nat /\ Len(srv[s].steps) >= 1
  BY <1>1, HeadTailProperties
<1> QED BY <1>1, <1>2 DEF At, Resource, Serving

\* A part of a sequence of steps from the one after the n-th on.
LEMMA RestOfSteps ==
  ASSUME NEW steps \in Seq(Steps), NEW n \in 1 .. 2, n < Len(steps)
  PROVE  /\ Rest(SubSeq(steps, n + 1, Len(steps)), steps, n)
         /\ n = 1 => Rest(Tail(steps), steps, n)
<1>1. Len(steps) \in Nat
  OBVIOUS
<1>2. \A i \in 1 .. Len(steps) : steps[i] \in Steps
  BY ElementOfSeq
<1>3. Rest(SubSeq(steps, n + 1, Len(steps)), steps, n)
  <2> DEFINE new == SubSeq(steps, n + 1, Len(steps))
  <2>1. /\ new \in Seq(Steps) /\ Len(new) = Len(steps) - n
        /\ \A i \in 1 .. Len(new) : new[i] = steps[n + 1 + i - 1]
    BY <1>1, <1>2, SubSeqProperties
  <2>2. Len(new) \in Nat /\ Len(new) > 0
    BY <1>1, <2>1
  <2> HIDE DEF new
  <2>3. new # <<>>
    BY <2>2
  <2>4. \A i \in Int : n + 1 + i - 1 = i + n
    OBVIOUS
  <2> QED BY <2>1, <2>2, <2>3, <2>4 DEF Rest, new
<1>4. Tail(steps) = SubSeq(steps, 2, Len(steps))
  BY <1>1, TailIsSubSeq
<1>5. ASSUME n = 1
      PROVE  Rest(Tail(steps), steps, n)
  <2>1. n + 1 = 2
    BY <1>5
  <2> QED BY <2>1, <1>3, <1>4
<1> QED BY <1>3, <1>5

LEMMA ProceedTurns ==
  ASSUME Serving, NEW s \in Servers, Calling(s), NEW read,
         DOMAIN read = DOMAIN Idle, read.steps = srv[s].steps, Proceed(s, read)
  PROVE  /\ DOMAIN srv' = Servers /\ \A t \in Servers \ {s} : srv'[t] = srv[t]
         /\ \/ srv'[s] = Idle /\ Len(srv[s].steps) = 1
            \/ /\ Rest(srv'[s].steps, srv[s].steps, 1) /\ DOMAIN srv'[s] = DOMAIN Idle
               /\ \A f \in DOMAIN Idle \ {"steps"} : srv'[s][f] = read[f]
<1>0. Len(srv[s].steps) \in Nat /\ Len(srv[s].steps) >= 1
  BY FirstStep
<1>1. srv[s].steps \in Seq(Steps)
  BY DEF Serving
<1>2. CASE Len(srv[s].steps) = 1
  BY <1>2 DEF Proceed, Serving
<1>3. CASE Len(srv[s].steps) # 1
  <2>1. srv' = [srv EXCEPT ![s] = [read EXCEPT !.steps = Tail(srv[s].steps)]]
    BY <1>3 DEF Proceed
  <2>2. "steps" \in DOMAIN read
    BY DEF Idle
  <2>3. srv'[s] = [read EXCEPT !.steps = Tail(srv[s].steps)]
    BY <2>1 DEF Serving
  <2>4. srv'[s].steps = Tail(srv[s].steps)
    BY <2>2, <2>3
  <2>5. Rest(srv'[s].steps, srv[s].steps, 1)
    <3>1. 1 < Len(srv[s].steps)
      BY <1>0, <1>3
    <3>2. 1 \in 1 .. 2
      OBVIOUS
    <3> QED BY <1>1, <2>4, <3>1, <3>2, RestOfSteps
  <2>6. DOMAIN srv'[s] = DOMAIN Idle /\ \A f \in DOMAIN Idle \ {"steps"} : srv'[s][f] = read[f]
    BY <2>3
  <2> QED BY <2>1, <2>5, <2>6 DEF Serving
<1> QED BY <1>2, <1>3

LEMMA SkipTurns ==
  ASSUME Serving, NEW s \in Servers, NEW n \in 1 .. 2, n < Len(srv[s].steps), Skip(s, n),
         n = 2 => At(s, "size")
  PROVE  Turn(s) \/ At(s, "scan")
<1>1. srv[s].steps \in Seq(Steps) /\ DOMAIN srv[s] = DOMAIN Idle /\ "steps" \in DOMAIN srv[s]
  BY DEF Serving, Idle
<1>2. srv'[s] = [srv[s] EXCEPT !.steps = SubSeq(srv[s].steps, n + 1, Len(srv[s].steps))]
      /\ DOMAIN srv' = Servers /\ \A t \in Servers \ {s} : srv'[t] = srv[t]
  BY DEF Skip, Serving
<1>3. Rest(srv'[s].steps, srv[s].steps, n)
  BY <1>1, <1>2, RestOfSteps
<1>4. Same(srv'[s], s) /\ srv'[s].scanned = srv[s].scanned
  BY <1>1, <1>2 DEF Same, Idle
<1> QED BY <1>2, <1>3, <1>4 DEF Turn, Kept, Scanned

LEMMA RestShaped ==
  ASSUME NEW old \in Seq(Steps), Shaped(old), NEW n \in 1 .. 2, NEW new, Rest(new, old, n)
  PROVE  Shaped(new)
<1>1. /\ Len(old) \in Nat /\ Len(new) \in Nat /\ Len(new) > 0 /\ Len(old) = Len(new) + n
      /\ DOMAIN old = 1 .. Len(old) /\ DOMAIN new = 1 .. Len(new)
  <2>1. Len(old) \in Nat /\ DOMAIN old = 1 .. Len(old)
    BY LenProperties
  <2>2. Len(new) \in Nat /\ Len(new) > 0 /\ DOMAIN new = 1 .. Len(new)
    BY LenProperties, EmptySeq DEF Rest
  <2>3. Len(new) = Len(old) - n
    BY DEF Rest
  <2> QED BY <2>1, <2>2, <2>3
<1>2. \A i \in DOMAIN new : i + n \in DOMAIN old /\ new[i] = old[i + n]
  BY <1>1 DEF Rest
<1>3. Linked(new)
  <2> SUFFICES ASSUME NEW i \in 1 .. Len(new) - 1
               PROVE  Follows(new[i], new[i + 1])
    BY DEF Linked
  <2>1. /\ new[i] = old[i + n] /\ new[i + 1] = old[(i + n) + 1]
        /\ i + n \in 1 .. Len(old) - 1
    BY <1>1, <1>2
  <2>2. Follows(old[i + n], old[(i + n) + 1])
    BY <2>1 DEF Shaped, Linked
  <2> QED BY <2>1, <2>2
<1>4. Ended(new)
  <2>1. new[Len(new)] = old[Len(old)]
    BY <1>1, <1>2
  <2> QED BY <2>1 DEF Shaped, Ended
<1>5. \A ops : Once(old, ops) => Once(new, ops)
  <2> SUFFICES ASSUME NEW ops, Once(old, ops), NEW i \in DOMAIN new, NEW j \in DOMAIN new,
                      new[i][1] \in ops,
                        new[j][1] \in ops
               PROVE  i = j
    BY DEF Once
  <2>1. i + n = j + n
    BY <1>2 DEF Once
  <2> QED BY <2>1, <1>1
<1>6. DeletesFirst(new)
  <2> SUFFICES ASSUME NEW i \in DOMAIN new, NEW j \in DOMAIN new, i < j, new[j][1] = "delete"
               PROVE  new[i][1] = "delete"
    BY DEF DeletesFirst
  <2>1. /\ i + n \in DOMAIN old /\ j + n \in DOMAIN old /\ i + n < j + n
        /\ old[j + n][1] = "delete" /\ new[i] = old[i + n]
    BY <1>1, <1>2
  <2> QED BY <2>1 DEF Shaped, DeletesFirst
<1>8. UpsertsFirst(new)
  <2> SUFFICES ASSUME NEW i \in DOMAIN new, NEW j \in DOMAIN new, i < j, new[j][1] = "upsert"
               PROVE  new[i][1] \in {"delete", "exists"}
    BY DEF UpsertsFirst
  <2>1. /\ i + n \in DOMAIN old /\ j + n \in DOMAIN old /\ i + n < j + n
        /\ old[j + n][1] = "upsert" /\ new[i] = old[i + n]
    BY <1>1, <1>2
  <2> QED BY <2>1 DEF Shaped, UpsertsFirst
<1>7. Has(new, {"delete"}) => Has(new, {"upsert"})
  <2> SUFFICES ASSUME NEW i \in DOMAIN new, new[i][1] = "delete"
               PROVE  Has(new, {"upsert"})
    BY DEF Has
  <2>1. i + n \in DOMAIN old /\ old[i + n][1] = "delete"
    BY <1>2
  <2>2. PICK j \in DOMAIN old : old[j][1] = "upsert"
    BY <2>1 DEF Shaped, Has
  <2>3. j > i + n
    <3>1. j < i + n => old[j][1] = "delete"
      BY <2>1, <2>2 DEF Shaped, DeletesFirst
    <3>2. j # i + n
      BY <2>1, <2>2
    <3> QED BY <1>1, <2>2, <3>1, <3>2
  <2>4. j - n \in DOMAIN new /\ new[j - n] = old[j]
    <3>1. j - n \in DOMAIN new /\ (j - n) + n = j
      BY <1>1, <2>2, <2>3
    <3> QED BY <3>1, <1>2
  <2> QED BY <2>2, <2>4 DEF Has
<1> QED BY <1>3, <1>4, <1>5, <1>6, <1>7, <1>8 DEF Shaped

LEMMA FoundShaped ==
  ASSUME NEW old \in Seq(Steps), old # <<>>, Shaped(old), NEW new, Found(new, old)
  PROVE  new \in Seq(Steps) /\ new # <<>> /\ Shaped(new)
<1>1. CASE /\ old[1][1] = "scan" /\ new \in Seq(Steps) /\ Len(new) = Len(old) + 1
           /\ new[1] = <<"store", "global">> /\ new[2] = <<"cache", "global">>
           /\ \A i \in 3 .. Len(new) : new[i] = old[i - 1]
  <2>1. /\ Len(old) \in Nat /\ Len(old) > 0 /\ Len(new) = Len(old) + 1
        /\ DOMAIN old = 1 .. Len(old) /\ DOMAIN new = 1 .. Len(new)
    BY <1>1, LenProperties, EmptySeq
  <2>2. old[Len(old)][1] # "scan"
    BY DEF Shaped, Ended
  <2>3. Len(old) > 1
    BY <2>1, <2>2, <1>1
  <2>4. \A i \in 1 .. Len(old) - 1 : Follows(old[i], old[i + 1])
    BY DEF Shaped, Linked
  <2>5. old[2][1] \in {"scan", "stale"}
    <3>1. Follows(old[1], old[2])
      BY <2>1, <2>3, <2>4
    <3> QED BY <1>1, <3>1 DEF Follows
  <2>6. Linked(new)
    <3> SUFFICES ASSUME NEW i \in 1 .. Len(new) - 1
                 PROVE  Follows(new[i], new[i + 1])
      BY DEF Linked
    <3>1. CASE i = 1
      BY <3>1, <1>1 DEF Follows
    <3>2. CASE i = 2
      <4>1. new[3] = old[2]
        BY <1>1, <2>1, <2>3
      <4> QED BY <3>2, <4>1, <1>1, <2>5 DEF Follows
    <3>3. CASE i > 2
      <4>1. /\ new[i] = old[i - 1] /\ new[i + 1] = old[(i - 1) + 1]
            /\ i - 1 \in 1 .. Len(old) - 1
        BY <3>3, <1>1, <2>1
      <4> QED BY <4>1, <2>4
    <3> QED BY <3>1, <3>2, <3>3, <2>1
  <2>7. Ended(new)
    <3>1. new[Len(new)] = old[Len(old)]
      BY <1>1, <2>1, <2>3
    <3> QED BY <3>1 DEF Shaped, Ended
  <2>8. \A i \in DOMAIN new : \/ new[i] = <<"store", "global">> \/ new[i] = <<"cache", "global">>
                              \/ i - 1 \in DOMAIN old /\ new[i] = old[i - 1]
    BY <1>1, <2>1
  <2>9. \A ops \in SUBSET {"observe", "upsert", "touch"} : Once(old, ops) => Once(new, ops)
    <3> SUFFICES ASSUME NEW ops \in SUBSET {"observe", "upsert", "touch"}, Once(old, ops),
                        NEW i \in DOMAIN new, NEW j \in DOMAIN new, new[i][1] \in ops,
                        new[j][1] \in ops
                 PROVE  i = j
      BY DEF Once
    <3>1. i - 1 = j - 1
      BY <2>8 DEF Once
    <3> QED BY <3>1, <2>1
  <2>10. \A i \in DOMAIN old : old[i][1] # "delete"
    <3>1. \A i \in DOMAIN old : 1 \in DOMAIN old /\ (i = 1 \/ 1 < i)
      BY <2>1
    <3> QED BY <3>1, <1>1 DEF Shaped, DeletesFirst
  <2>14. \A i \in DOMAIN old : old[i][1] # "upsert"
    <3>1. \A i \in DOMAIN old : 1 \in DOMAIN old /\ (i = 1 \/ 1 < i)
      BY <2>1
    <3> QED BY <3>1, <1>1 DEF Shaped, UpsertsFirst
  <2>11. ~Has(new, {"delete"}) /\ UpsertsFirst(new)
    BY <2>8, <2>10, <2>14 DEF Has, UpsertsFirst
  <2>12. DeletesFirst(new)
    BY <2>11 DEF DeletesFirst, Has
  <2>13. new # <<>>
    BY <2>1
  <2> QED BY <1>1, <2>6, <2>7, <2>9, <2>11, <2>12, <2>13 DEF Shaped
<1>2. CASE new = << <<"forget", "global">>, <<"uncache", "global">> >>
  BY <1>2 DEF Steps, Shaped, Linked, Follows, Ended, DeletesFirst, UpsertsFirst, Once, Has
<1> QED BY <1>1, <1>2 DEF Found

LEMMA KeptCall ==
  ASSUME Serving, NEW t \in Servers, Kept(t)
  PROVE  /\ srv'[t].steps = srv[t].steps /\ srv'[t].request = srv[t].request
         /\ srv'[t].call = srv[t].call /\ srv'[t].key = srv[t].key
         /\ srv'[t].scanned = srv[t].scanned /\ srv'[t].copy = srv[t].copy
         /\ srv'[t].last = srv[t].last /\ srv'[t].seen = srv[t].seen
         /\ srv'[t].doc = srv[t].doc /\ srv'[t].exists = srv[t].exists
         /\ DOMAIN srv'[t] = DOMAIN Idle /\ (srv'[t] = Idle) = (srv'[t].steps = <<>>)
<1>1. DOMAIN srv[t] = DOMAIN Idle /\ (srv[t] = Idle) = (srv[t].steps = <<>>)
  BY DEF Serving
<1>2. CASE srv'[t] = srv[t]
  BY <1>1, <1>2
<1>3. CASE At(t, "write") /\ srv'[t] = [srv[t] EXCEPT !.moved = clock]
  <2>1. srv'[t].steps = srv[t].steps /\ srv[t].steps # <<>>
    BY <1>3 DEF At
  <2>2. srv'[t] # Idle /\ srv[t] # Idle
    BY <2>1 DEF Idle
  <2>3. DOMAIN srv'[t] = DOMAIN Idle
    BY <1>1, <1>3
  <2>4. \A f \in DOMAIN Idle \ {"moved"} : srv'[t][f] = srv[t][f]
    BY <1>1, <1>3
  <2> QED BY <2>1, <2>2, <2>3, <2>4 DEF Idle
<1> QED BY <1>2, <1>3 DEF Kept

\* One step further in the scan.
LEMMA OneMore ==
  ASSUME NEW m \in Nat, NEW l \in Nat, NEW c \in Nat, NEW j \in Nat, j >= 2,
         l - j + c \in 1 .. m, l - 1 + c \in 1 .. m
  PROVE  l - j + (c + 1) \in 1 .. m
OBVIOUS

LEMMA TurnKeeps ==
  ASSUME Serving, Shapes, NEW s \in Servers, Calling(s), Turn(s)
  PROVE  Serving' /\ Shapes'
<1>1. /\ srv[s].steps \in Seq(Steps) /\ srv[s].steps # <<>> /\ ShapedCall(srv[s])
      /\ srv[s].scanned \in Nat /\ Shaped(srv[s].steps) /\ srv[s].request \in Requests
  BY DEF Serving, Shapes, Calling, ShapedCall
<1>2. ASSUME NEW t \in Servers \ {s}
      PROVE  /\ DOMAIN srv'[t] = DOMAIN Idle /\ srv'[t].steps \in Seq(Steps)
             /\ (srv'[t] = Idle) = (srv'[t].steps = <<>>)
             /\ ShapedCall(srv'[t]) /\ srv'[t].scanned \in Nat
  <2>1. Kept(t) /\ srv[t].steps \in Seq(Steps) /\ ShapedCall(srv[t]) /\ srv[t].scanned \in Nat
    BY DEF Turn, Serving, Shapes
  <2> QED BY <2>1, KeptCall, ZenonT(60) DEF ShapedCall
<1>3. /\ DOMAIN srv'[s] = DOMAIN Idle /\ srv'[s].steps \in Seq(Steps)
      /\ (srv'[s] = Idle) = (srv'[s].steps = <<>>)
      /\ ShapedCall(srv'[s]) /\ srv'[s].scanned \in Nat
  <2>1. CASE srv'[s] = Idle
    BY <2>1 DEF Idle, ShapedCall
  <2>2. CASE /\ Same(srv'[s], s) /\ srv'[s].scanned = Scanned(s)
             /\ \E n \in 1 .. 2 : Rest(srv'[s].steps, srv[s].steps, n)
    <3> DEFINE old == srv[s].steps
               new == srv'[s].steps
    <3>1. PICK n \in 1 .. 2 : Rest(new, old, n)
      BY <2>2
    <3>2. new \in Seq(Steps) /\ new # <<>> /\ Shaped(new)
      BY <1>1, <3>1, RestShaped DEF Rest
    <3>3. srv'[s] # Idle
      BY <3>2 DEF Idle
    <3>4. /\ Len(old) \in Nat /\ DOMAIN old = 1 .. Len(old) /\ old # <<>>
          /\ Len(new) \in Nat /\ DOMAIN new = 1 .. Len(new)
      BY <1>1, <3>2, LenProperties
    <3>5. Len(new) = Len(old) - n /\ \A i \in 1 .. Len(new) : new[i] = old[i + n]
      BY <3>1 DEF Rest
    <3>6. At(s, "scan") <=> old[1][1] = "scan"
      BY FirstStep
    <3>7. srv'[s].scanned = IF old[1][1] = "scan" THEN srv[s].scanned + 1 ELSE srv[s].scanned
      BY <2>2, <3>6 DEF Scanned
    <3>8. ASSUME NEW i \in DOMAIN old
          PROVE  /\ old[i] = <<"load", "source">> => srv[s].request.tool = "replace_exact_text"
                 /\ old[i][1] = "scan" => Len(old) - i + srv[s].scanned \in 1 .. Len(DocOrder)
      BY <1>1 DEF ShapedCall
    <3> HIDE DEF old, new
    <3>9. Len(DocOrder) \in Nat
      BY McAssumption, LenProperties
    <3>11. ASSUME NEW i \in DOMAIN new, new[i][1] = "scan"
           PROVE  Len(new) - i + srv'[s].scanned \in 1 .. Len(DocOrder)
      <4>1. i + n \in DOMAIN old /\ old[i + n][1] = "scan" /\ 1 \in DOMAIN old
        BY <3>4, <3>5, <3>11
      <4>2. Len(old) - (i + n) + srv[s].scanned \in 1 .. Len(DocOrder)
        BY <3>8, <4>1
      <4>3. old[1][1] = "scan" => Len(old) - 1 + srv[s].scanned \in 1 .. Len(DocOrder)
        BY <3>8, <4>1
      <4>4. Len(new) - i = Len(old) - (i + n)
        BY <3>4, <3>5, <4>1
      <4>5. CASE old[1][1] # "scan"
        BY <3>7, <4>2, <4>4, <4>5
      <4>6. CASE old[1][1] = "scan"
        <5>1. i + n \in Nat /\ i + n >= 2 /\ Len(old) \in Nat
          BY <3>1, <3>4
        <5>2. srv[s].scanned \in Nat /\ srv'[s].scanned = srv[s].scanned + 1
          BY <1>1, <3>7, <4>6
        <5>3. Len(old) - 1 + srv[s].scanned \in 1 .. Len(DocOrder)
          BY <4>3, <4>6
        <5>4. Len(old) - (i + n) + (srv[s].scanned + 1) \in 1 .. Len(DocOrder)
          BY <3>9, <4>2, <5>1, <5>2, <5>3, OneMore
        <5> QED BY <4>4, <5>2, <5>4
      <4> QED BY <4>5, <4>6
    <3>12. \A i \in DOMAIN new : new[i] = <<"load", "source">> =>
             srv'[s].request.tool = "replace_exact_text"
      <4>1. \A i \in DOMAIN new : i + n \in DOMAIN old /\ new[i] = old[i + n]
        BY <3>4, <3>5
      <4> QED BY <2>2, <3>8, <4>1 DEF Same
    <3>13. srv'[s].scanned \in Nat
      BY <1>1, <3>7
    <3> QED BY <1>1, <2>2, <3>2, <3>3, <3>11, <3>12, <3>13 DEF new, Same, ShapedCall
  <2>3. CASE /\ Same(srv'[s], s) /\ srv'[s].scanned = Scanned(s)
             /\ Found(srv'[s].steps, srv[s].steps)
    <3> DEFINE old == srv[s].steps
               new == srv'[s].steps
    <3>1. Found(new, old)
      BY <2>3
    <3>2. new \in Seq(Steps) /\ new # <<>> /\ Shaped(new)
      BY <1>1, <3>1, FoundShaped
    <3>3. srv'[s] # Idle
      BY <3>2 DEF Idle
    <3>4. /\ Len(old) \in Nat /\ DOMAIN old = 1 .. Len(old)
          /\ Len(new) \in Nat /\ DOMAIN new = 1 .. Len(new)
      BY <1>1, <3>2, LenProperties
    <3>5. At(s, "scan") <=> old[1][1] = "scan"
      BY FirstStep
    <3>6. srv'[s].scanned = IF old[1][1] = "scan" THEN srv[s].scanned + 1 ELSE srv[s].scanned
      BY <2>3, <3>5 DEF Scanned
    <3>7. ASSUME NEW i \in DOMAIN old
          PROVE  /\ old[i] = <<"load", "source">> => srv[s].request.tool = "replace_exact_text"
                 /\ old[i][1] = "scan" => Len(old) - i + srv[s].scanned \in 1 .. Len(DocOrder)
      BY <1>1 DEF ShapedCall
    <3>8. Len(DocOrder) \in Nat
      BY McAssumption, LenProperties
    <3>9. srv'[s].scanned \in Nat
      BY <1>1, <3>6
    <3> HIDE DEF old, new
    <3>10. CASE /\ old[1][1] = "scan" /\ Len(new) = Len(old) + 1
                /\ new[1] = <<"store", "global">> /\ new[2] = <<"cache", "global">>
                /\ \A i \in 3 .. Len(new) : new[i] = old[i - 1]
      <4>1. ASSUME NEW i \in DOMAIN new
            PROVE  /\ new[i] # <<"store", "global">> /\ new[i] # <<"cache", "global">> =>
                        i > 2 /\ i - 1 \in DOMAIN old /\ new[i] = old[i - 1]
                   /\ i > 2 => 1 \in DOMAIN old
        BY <3>4, <3>10
      <4>2. ASSUME NEW i \in DOMAIN new, new[i][1] = "scan"
            PROVE  Len(new) - i + srv'[s].scanned \in 1 .. Len(DocOrder)
        <5>1. new[i] # <<"store", "global">> /\ new[i] # <<"cache", "global">>
          BY <4>2
        <5>2. i > 2 /\ i - 1 \in DOMAIN old /\ old[i - 1][1] = "scan" /\ 1 \in DOMAIN old
          BY <4>1, <4>2, <5>1
        <5>3. /\ Len(old) - (i - 1) + srv[s].scanned \in 1 .. Len(DocOrder)
              /\ Len(old) - 1 + srv[s].scanned \in 1 .. Len(DocOrder)
          BY <3>7, <3>10, <5>2
        <5>4. i \in Nat /\ i <= Len(new) /\ i > 2 /\ Len(new) = Len(old) + 1
              /\ srv'[s].scanned = srv[s].scanned + 1
          BY <3>4, <3>6, <3>10, <5>2
        <5>5. srv[s].scanned \in Nat /\ Len(old) \in Nat /\ Len(new) \in Nat
          BY <1>1, <3>4
        <5>6. Len(old) - (i - 1) + (srv[s].scanned + 1) \in 1 .. Len(DocOrder)
          <6>1. i - 1 \in Nat /\ i - 1 >= 2
            BY <5>4
          <6> QED BY <3>8, <5>3, <5>5, <6>1, OneMore
        <5>7. Len(new) - i = Len(old) - (i - 1)
          BY <5>4, <5>5
        <5> QED BY <5>4, <5>6, <5>7
      <4>3. \A i \in DOMAIN new : new[i] = <<"load", "source">> =>
              srv'[s].request.tool = "replace_exact_text"
        BY <2>3, <3>7, <4>1 DEF Same
      <4> QED BY <1>1, <2>3, <3>2, <3>3, <3>9, <4>2, <4>3 DEF new, Same, ShapedCall
    <3>11. CASE new = << <<"forget", "global">>, <<"uncache", "global">> >>
      <4>1. \A i \in DOMAIN new : new[i] # <<"load", "source">> /\ new[i][1] # "scan"
        BY <3>11
      <4> QED BY <1>1, <2>3, <3>2, <3>3, <3>9, <4>1 DEF new, Same, ShapedCall
    <3> QED BY <3>1, <3>10, <3>11 DEF Found
  <2> QED BY <2>1, <2>2, <2>3 DEF Turn
<1>4. DOMAIN srv' = Servers
  BY DEF Turn
<1> QED BY <1>2, <1>3, <1>4 DEF Serving, Shapes

\* The steps after those that are never the last ones.
LEMMA EnoughSteps ==
  ASSUME Serving, Shapes, NEW s \in Servers, Calling(s)
  PROVE  /\ At(s, "rename") \/ At(s, "append") \/ At(s, "scan") => Len(srv[s].steps) > 1
         /\ At(s, "size") => Len(srv[s].steps) > 2
<1> DEFINE steps == srv[s].steps
<1>1. steps \in Seq(Steps) /\ Shaped(steps)
  BY DEF Serving, Shapes, ShapedCall, Calling
<1>2. Len(steps) \in Nat /\ Len(steps) >= 1 /\ \A op : At(s, op) <=> steps[1][1] = op
  BY FirstStep
<1> HIDE DEF steps
<1>3. steps[Len(steps)][1] \notin {"size", "rename", "append", "scan"}
  BY <1>1 DEF Shaped, Ended
<1>4. \A i \in 1 .. Len(steps) - 1 : steps[i][1] = "size" => steps[i + 1][1] = "rename"
  BY <1>1 DEF Shaped, Linked, Follows
<1>5. steps[1][1] \in {"size", "rename", "append", "scan"} => Len(steps) > 1
  BY <1>2, <1>3
<1>6. steps[1][1] = "size" => Len(steps) > 2
  <2> SUFFICES ASSUME steps[1][1] = "size"
               PROVE  Len(steps) > 2
    OBVIOUS
  <2>1. 1 \in 1 .. Len(steps) - 1
    BY <1>2, <1>5
  <2>2. steps[1 + 1][1] = "rename"
    BY <1>4, <2>1
  <2>3. Len(steps) # 2
    BY <1>3, <2>2
  <2> QED BY <1>2, <1>5, <2>3
<1> QED BY <1>2, <1>5, <1>6 DEF steps

\* A document that is not cached as it is: two more steps.
FoundMore(new, old) ==
  /\ new \in Seq(Steps) /\ Len(new) > 1
  /\ Tail(new) \in Seq(Steps) /\ Len(Tail(new)) = Len(old) + 1
  /\ Tail(new)[1] = <<"store", "global">> /\ Tail(new)[2] = <<"cache", "global">>
  /\ \A i \in 3 .. Len(old) + 1 : Tail(new)[i] = old[i - 1]

LEMMA FoundSteps ==
  ASSUME NEW old \in Seq(Steps), old # <<>>
  PROVE  FoundMore(<< Head(old), <<"store", "global">>, <<"cache", "global">> >> \o Tail(old), old)
<1> DEFINE a == << Head(old), <<"store", "global">>, <<"cache", "global">> >>
           b == Tail(old)
           new == a \o b
<1>1. /\ Head(old) \in Steps /\ b \in Seq(Steps) /\ Len(b) = Len(old) - 1
      /\ \A i \in 1 .. Len(b) : b[i] = old[i + 1]
  BY HeadTailProperties
<1>2. <<"store", "global">> \in Steps /\ <<"cache", "global">> \in Steps
  BY DEF Steps
<1>3. /\ a \in Seq(Steps) /\ Len(a) = 3 /\ a[2] = <<"store", "global">>
      /\ a[3] = <<"cache", "global">>
  BY <1>1, <1>2
<1>4. Len(old) \in Nat /\ Len(old) >= 1
  BY LenProperties, EmptySeq
<1> HIDE DEF a, b
<1>5. /\ new \in Seq(Steps) /\ Len(new) = 3 + Len(b)
      /\ \A i \in 1 .. 3 : new[i] = a[i]
      /\ \A i \in 1 .. Len(b) : new[i + 3] = b[i]
  <2>1. /\ new \in Seq(Steps) /\ Len(new) = Len(a) + Len(b)
        /\ \A i \in DOMAIN a : new[i] = a[i]
        /\ \A i \in DOMAIN b : new[i + Len(a)] = b[i]
    BY <1>1, <1>3, JoinedSteps
  <2>2. DOMAIN a = 1 .. Len(a) /\ DOMAIN b = 1 .. Len(b)
    BY <1>1, <1>3
  <2> HIDE DEF new
  <2> QED BY <2>1, <2>2, <1>3
<1> HIDE DEF new
<1>6. Len(new) = Len(old) + 2
  BY <1>1, <1>4, <1>5
<1>7. new # <<>>
  BY <1>4, <1>6
<1>8. /\ Tail(new) \in Seq(Steps) /\ Len(Tail(new)) = Len(new) - 1
      /\ \A i \in 1 .. Len(Tail(new)) : Tail(new)[i] = new[i + 1]
  BY <1>5, <1>7, HeadTailProperties
<1>9. Len(Tail(new)) = Len(old) + 1 /\ Len(new) > 1
  BY <1>4, <1>6, <1>8
<1>10. Tail(new)[1] = <<"store", "global">> /\ Tail(new)[2] = <<"cache", "global">>
  <2>1. Tail(new)[1] = new[2] /\ Tail(new)[2] = new[3]
    BY <1>4, <1>8, <1>9
  <2> QED BY <2>1, <1>3, <1>5
<1>11. ASSUME NEW i \in 3 .. Len(old) + 1
       PROVE  Tail(new)[i] = old[i - 1]
  <2>1. Tail(new)[i] = new[i + 1]
    BY <1>4, <1>8, <1>9
  <2>2. i - 2 \in 1 .. Len(b) /\ (i - 2) + 3 = i + 1 /\ (i - 2) + 1 = i - 1
    BY <1>1, <1>4
  <2>3. new[(i - 2) + 3] = b[i - 2] /\ b[i - 2] = old[(i - 2) + 1]
    BY <1>1, <1>5, <2>2
  <2> QED BY <2>1, <2>2, <2>3
<1> QED BY <1>5, <1>8, <1>9, <1>10, <1>11 DEF FoundMore, new, a, b

LEMMA ReadTurns ==
  ASSUME Serving, NEW s \in Servers, Calling(s), NEW read,
         Same(read, s), read.steps = srv[s].steps, read.scanned = Scanned(s), Proceed(s, read)
  PROVE  Turn(s)
<1>1. DOMAIN read = DOMAIN Idle
  BY DEF Same
<1>2. /\ DOMAIN srv' = Servers /\ \A t \in Servers \ {s} : srv'[t] = srv[t]
      /\ \/ srv'[s] = Idle
         \/ /\ Rest(srv'[s].steps, srv[s].steps, 1) /\ DOMAIN srv'[s] = DOMAIN Idle
            /\ \A f \in DOMAIN Idle \ {"steps"} : srv'[s][f] = read[f]
  BY <1>1, ProceedTurns
<1>3. CASE srv'[s] = Idle
  BY <1>2, <1>3 DEF Turn, Kept
<1>4. CASE /\ Rest(srv'[s].steps, srv[s].steps, 1) /\ DOMAIN srv'[s] = DOMAIN Idle
           /\ \A f \in DOMAIN Idle \ {"steps"} : srv'[s][f] = read[f]
  <2>1. {"request", "call", "key", "scanned"} \subseteq DOMAIN Idle \ {"steps"}
    BY DEF Idle
  <2>2. srv'[s].request = read.request /\ srv'[s].call = read.call /\ srv'[s].key = read.key
        /\ srv'[s].scanned = read.scanned
    BY <1>4, <2>1
  <2>3. Same(srv'[s], s) /\ srv'[s].scanned = Scanned(s)
    BY <1>4, <2>2 DEF Same
  <2> QED BY <1>2, <1>4, <2>3 DEF Turn, Kept
<1> QED BY <1>2, <1>3, <1>4

LEMMA FinishTurns ==
  ASSUME Serving, NEW s \in Servers, Finish(s)
  PROVE  Turn(s) /\ srv'[s] = Idle /\ \A t \in Servers \ {s} : srv'[t] = srv[t]
BY DEF Finish, Serving, Turn, Kept

\* Who reads only changes his record.
LEMMA SameRead ==
  ASSUME Serving, NEW s \in Servers
  PROVE  /\ Same(srv[s], s)
         /\ \A f \in DOMAIN Idle \ {"request", "call", "key"} : \A v :
              Same([srv[s] EXCEPT ![f] = v], s)
BY DEF Serving, Same, Idle

LEMMA StepTurns ==
  ASSUME Serving, Shapes, NEW s \in Servers, Step(s) \/ CutShort(s) \/ AppendFails(s)
  PROVE  Calling(s) /\ Turn(s)
<1> USE DEF At
<1>1. ASSUME NEW op, At(s, op)
      PROVE  Calling(s)
  BY <1>1 DEF Calling
<1>2. ASSUME Proceed(s, srv[s]), Calling(s), ~At(s, "scan")
      PROVE  Turn(s)
  BY <1>2, SameRead, ReadTurns DEF Scanned
<1>3. CASE \/ SaveObservation(s) \/ Truncate(s) \/ Write(s) \/ AppendLine(s) \/ DeleteOld(s)
           \/ Touch(s) \/ WriteContract(s) \/ StoreDoc(s) \/ CacheDoc(s) \/ ForgetDoc(s)
  <2>1. Proceed(s, srv[s]) /\ Calling(s) /\ ~At(s, "scan")
    BY <1>3 DEF SaveObservation, Truncate, Write, AppendLine, DeleteOld, Touch, WriteContract,
         StoreDoc, CacheDoc, ForgetDoc, Calling
  <2> QED BY <2>1, <1>2
<1>4. CASE SaveExtracted(s) \/ CutShort(s)
  BY <1>4, FinishTurns DEF SaveExtracted, CutShort, Calling
<1>5. CASE UpsertMemory(s) \/ Find(s) \/ RecordEvent(s)
  <2>1. Proceed(s, srv[s]) \/ Finish(s)
    BY <1>5 DEF UpsertMemory, Find, RecordEvent
  <2>2. Calling(s) /\ ~At(s, "scan")
    BY <1>5 DEF UpsertMemory, Find, RecordEvent, Calling
  <2> QED BY <2>1, <2>2, <1>2, FinishTurns
<1>6. ASSUME NEW f \in DOMAIN Idle \ {"request", "call", "key", "steps", "scanned"}, NEW v,
             Proceed(s, [srv[s] EXCEPT ![f] = v]), Calling(s), ~At(s, "scan")
      PROVE  Turn(s)
  <2> DEFINE read == [srv[s] EXCEPT ![f] = v]
  <2>1. Same(read, s) /\ read.steps = srv[s].steps /\ read.scanned = srv[s].scanned
    BY SameRead DEF Serving, Idle
  <2> QED BY <1>6, <2>1, ReadTurns DEF Scanned
<1>7. {"last", "seen", "copy", "exists", "before"} \subseteq
        DOMAIN Idle \ {"request", "call", "key", "steps", "scanned"}
  BY DEF Idle
<1>8. CASE ReadLast(s)
  BY <1>6, <1>7, <1>8 DEF ReadLast, Calling
<1>9. CASE SelectRows(s)
  BY <1>6, <1>7, <1>9, FinishTurns DEF SelectRows, Calling
<1>10. CASE ReadInbox(s)
  BY <1>6, <1>7, <1>10 DEF ReadInbox, Calling
<1>11. CASE Exists(s)
  BY <1>6, <1>7, <1>11, FinishTurns DEF Exists, Calling
<1>12. CASE FindEvent(s)
  BY <1>6, <1>7, <1>12 DEF FindEvent, Calling
<1>13. CASE Load(s)
  <2> DEFINE read == [srv[s] EXCEPT !.before = Lines(Resource(s)),
                                    !.copy = Edited(Resource(s), Lines(Resource(s)),
                                                     srv[s].request)]
  <2>1. Finish(s) \/ Proceed(s, read)
    BY <1>13 DEF Load
  <2>2. Calling(s) /\ ~At(s, "scan")
    BY <1>13 DEF Load, Calling
  <2>3. Same(read, s) /\ read.steps = srv[s].steps /\ read.scanned = srv[s].scanned
    BY DEF Serving, Same, Idle
  <2> QED BY <2>1, <2>2, <2>3, ReadTurns, FinishTurns DEF Scanned
<1>14. CASE CheckSize(s) \/ AppendFails(s)
  <2>1. PICK n \in 1 .. 2 : Skip(s, n) /\ (n = 2 => At(s, "size"))
    BY <1>14 DEF CheckSize, AppendFails
  <2>2. At(s, "size") \/ At(s, "rename") \/ At(s, "append")
    BY <1>14 DEF CheckSize, AppendFails
  <2>3. Calling(s) /\ ~At(s, "scan")
    BY <2>2 DEF Calling
  <2>4. n < Len(srv[s].steps)
    BY <2>1, <2>2, <2>3, EnoughSteps
  <2> QED BY <2>1, <2>3, <2>4, SkipTurns
<1>15. CASE Rename(s)
  <2>1. CASE Proceed(s, srv[s])
    BY <1>15, <2>1, <1>2 DEF Rename, Calling
  <2>2. CASE srv' = [t \in Servers |->
               IF t = s THEN [srv[s] EXCEPT !.steps = Tail(@)]
               ELSE IF At(t, "write") /\ Resource(t) = Resource(s) /\ srv[t].moved = None
               THEN [srv[t] EXCEPT !.moved = clock] ELSE srv[t]]
    <3>1. At(s, "rename") /\ Calling(s) /\ ~At(s, "scan")
      BY <1>15 DEF Rename, Calling
    <3>2. srv[s].steps \in Seq(Steps) /\ 1 < Len(srv[s].steps)
      BY <3>1, EnoughSteps DEF Serving
    <3>3. srv'[s] = [srv[s] EXCEPT !.steps = Tail(srv[s].steps)]
      BY <2>2
    <3>4. /\ srv'[s].steps = Tail(srv[s].steps) /\ Same(srv'[s], s)
          /\ srv'[s].scanned = srv[s].scanned
      BY <3>3 DEF Same, Serving, Idle
    <3>5. Rest(srv'[s].steps, srv[s].steps, 1)
      BY <3>2, <3>4, RestOfSteps
    <3>6. ASSUME NEW t \in Servers \ {s}
          PROVE  Kept(t)
      <4>1. \/ srv'[t] = srv[t]
            \/ /\ srv'[t] = [srv[t] EXCEPT !.moved = clock]
               /\ At(t, "write") /\ srv[t].moved = None
        BY <2>2
      <4>2. srv'[t] = [srv[t] EXCEPT !.moved = clock] => Same(srv'[t], t)
        BY SameRead DEF Idle
      <4> QED BY <4>1, <4>2 DEF Kept
    <3>7. DOMAIN srv' = Servers
      BY <2>2
    <3> QED BY <3>1, <3>4, <3>5, <3>6, <3>7 DEF Turn, Scanned
  <2> QED BY <1>15, <2>1, <2>2 DEF Rename
<1>16. CASE ScanDoc(s)
  <2> DEFINE d == DocOrder[srv[s].scanned + 1]
             next == [srv[s] EXCEPT !.scanned = @ + 1,
                        !.met = IF docs[d] = None THEN @ ELSE @ \cup {d}]
             more == [next EXCEPT !.doc = d, !.copy = docs[d],
                        !.steps = << Head(@), <<"store", "global">>, <<"cache", "global">> >>
                                  \o Tail(@)]
  <2>1. Calling(s) /\ At(s, "scan") /\ (Proceed(s, next) \/ Proceed(s, more))
    BY <1>16 DEF ScanDoc, Calling
  <2>2. /\ DOMAIN next = DOMAIN Idle /\ next.steps = srv[s].steps /\ Same(next, s)
        /\ next.scanned = Scanned(s)
    BY <2>1 DEF Serving, Same, Idle, Scanned
  <2>3. CASE Proceed(s, next)
    BY <2>1, <2>2, <2>3, ReadTurns
  <2>4. CASE Proceed(s, more)
    <3> DEFINE old == srv[s].steps
    <3>1. /\ Same(more, s) /\ more.scanned = Scanned(s)
          /\ more.steps = << Head(old), <<"store", "global">>, <<"cache", "global">> >> \o Tail(old)
      BY <2>2 DEF Same, Idle
    <3>2. /\ old \in Seq(Steps) /\ Len(old) \in Nat /\ Len(old) > 1 /\ old[1][1] = "scan"
      BY <2>1, EnoughSteps, FirstStep DEF Serving
    <3>3. FoundMore(more.steps, old)
      BY <3>1, <3>2, FoundSteps
    <3> HIDE DEF more
    <3>4. srv'[s] = [more EXCEPT !.steps = Tail(more.steps)] /\ DOMAIN srv' = Servers
          /\ \A t \in Servers \ {s} : srv'[t] = srv[t]
      BY <2>4, <3>3 DEF Proceed, Serving, FoundMore
    <3>5. Same(srv'[s], s) /\ srv'[s].scanned = Scanned(s) /\ srv'[s].steps = Tail(more.steps)
      BY <3>1, <3>4 DEF Same, Idle
    <3>6. Found(srv'[s].steps, old)
      BY <3>2, <3>3, <3>5 DEF FoundMore, Found
    <3> QED BY <3>4, <3>5, <3>6, <2>1 DEF Turn, Kept
  <2> QED BY <2>1, <2>3, <2>4
<1>17. CASE ListStale(s) \/ UncacheDoc(s)
  <2>1. Calling(s) /\ ~At(s, "scan") /\ (At(s, "stale") \/ At(s, "uncache"))
    BY <1>17 DEF ListStale, UncacheDoc, Calling
  <2>2. CASE Finish(s)
    BY <2>1, <2>2, FinishTurns
  <2>3. ASSUME NEW v,
               srv' = [srv EXCEPT ![s] = [srv[s] EXCEPT !.copy = v,
                         !.steps = << <<"forget", "global">>, <<"uncache", "global">> >>]]
        PROVE  Turn(s)
    <3>1. /\ DOMAIN srv' = Servers /\ \A t \in Servers \ {s} : srv'[t] = srv[t]
          /\ srv'[s] = [srv[s] EXCEPT !.copy = v,
                         !.steps = << <<"forget", "global">>, <<"uncache", "global">> >>]
      BY <2>3 DEF Serving
    <3>2. /\ Same(srv'[s], s) /\ srv'[s].scanned = srv[s].scanned
          /\ srv'[s].steps = << <<"forget", "global">>, <<"uncache", "global">> >>
      BY <3>1 DEF Same, Serving, Idle
    <3>3. srv[s].steps[1][1] \in {"stale", "uncache"}
      BY <2>1, FirstStep
    <3> QED BY <2>1, <3>1, <3>2, <3>3 DEF Turn, Kept, Found, Scanned
  <2>4. \/ Finish(s)
        \/ \E v : srv' = [srv EXCEPT ![s] = [srv[s] EXCEPT !.copy = v,
                         !.steps = << <<"forget", "global">>, <<"uncache", "global">> >>]]
    BY <1>17 DEF ListStale, UncacheDoc
  <2> QED BY <2>1, <2>2, <2>3, <2>4
<1> QED BY <1>3, <1>4, <1>5, <1>8, <1>9, <1>10, <1>11, <1>12, <1>13, <1>14, <1>15, <1>16, <1>17
        DEF Step


\* A call that begins.
Called(s, request) ==
  /\ DOMAIN srv' = Servers /\ \A t \in Servers \ {s} : srv'[t] = srv[t]
  /\ \/ srv'[s] = Idle
     \/ /\ srv'[s] = [Idle EXCEPT !.request = request, !.call = calls + 1,
                                  !.key = KeyOf(request), !.steps = Program(request)]
        /\ Program(request) # <<>>

LEMMA CallShaped ==
  ASSUME Serving, Shapes, menu \in Menus, NEW s \in Servers, NEW request \in menu.requests,
         Call(s, request)
  PROVE  /\ ~Calling(s) /\ srv[s] = Idle /\ Called(s, request) /\ Serving' /\ Shapes'
         /\ srv'[s].request \in Requests \cup {None}
         /\ \A op : At(s, op)' => op \in Firsts
<1>1. srv[s] = Idle /\ ~Calling(s)
  BY DEF Call, Idle, Calling
<1>2. Called(s, request)
  BY DEF Call, Serving, Called
<1>3. request \in Requests
  BY DEF Requests
<1>4. CASE srv'[s] = Idle
  <2>1. ShapedCall(Idle) /\ Idle.scanned \in Nat /\ Idle.steps = <<>> /\ Idle.request = None
    BY DEF Idle, ShapedCall
  <2> QED BY <1>1, <1>2, <1>4, <2>1 DEF Called, Serving, Shapes, At
<1>5. CASE srv'[s] # Idle
  <2>1. /\ srv'[s] = [Idle EXCEPT !.request = request, !.call = calls + 1,
                                  !.key = KeyOf(request), !.steps = Program(request)]
        /\ Program(request) # <<>>
    BY <1>2, <1>5 DEF Called
  <2>2. /\ Program(request) \in Seq(Steps) /\ Shaped(Program(request))
        /\ ScansLast(Program(request)) /\ Program(request)[1][1] \in Firsts
        /\ \A i \in DOMAIN Program(request) :
             Program(request)[i] = <<"load", "source">> => request.tool = "replace_exact_text"
    BY <1>3, <2>1, ProgramShape
  <2>3. /\ srv'[s].steps = Program(request) /\ srv'[s].request = request
        /\ srv'[s].scanned = 0 /\ DOMAIN srv'[s] = DOMAIN Idle
    BY <2>1 DEF Idle
  <2>4. srv'[s] # Idle /\ srv'[s].steps # <<>>
    BY <2>1, <2>3, <1>5
  <2>5. ASSUME NEW i \in DOMAIN Program(request), Program(request)[i][1] = "scan"
        PROVE  Len(Program(request)) - i + 0 \in 1 .. Len(DocOrder)
    <3>1. Len(Program(request)) - i \in 1 .. Len(DocOrder)
      BY <2>2, <2>5 DEF ScansLast
    <3> QED BY <3>1
  <2>6. ShapedCall(srv'[s])
    BY <1>3, <2>2, <2>3, <2>5 DEF ShapedCall
  <2>7. srv'[s].scanned \in Nat /\ srv'[s].request \in Requests /\ srv'[s].steps \in Seq(Steps)
    BY <1>3, <2>2, <2>3
  <2>8. DOMAIN srv' = Servers /\ \A t \in Servers \ {s} : srv'[t] = srv[t]
    BY <1>2 DEF Called
  <2>9. Serving'
    BY <2>3, <2>4, <2>7, <2>8 DEF Serving
  <2>10. Shapes'
    BY <2>6, <2>7, <2>8 DEF Shapes
  <2>11. \A op : At(s, op)' => op \in Firsts
    BY <2>1, <2>2, <2>3, HeadTailProperties DEF At
  <2> QED BY <1>1, <1>2, <2>7, <2>9, <2>10, <2>11
<1> QED BY <1>1, <1>2, <1>4, <1>5

Settled == menu \in Menus /\ Serving /\ Shapes

\* Every step of the servers is a call that begins, or a turn, or none.
LEMMA Begun == Init => Settled
<1> SUFFICES ASSUME Init
             PROVE  Settled
  OBVIOUS
<1>1. ShapedCall(Idle) /\ Idle.scanned \in Nat /\ Idle.steps = <<>> /\ Idle.steps \in Seq(Steps)
  BY DEF Idle, ShapedCall
<1> QED BY <1>1 DEF Init, Settled, Serving, Shapes

LEMMA StillSettled == Settled /\ [Next]_vars => Settled'
<1> SUFFICES ASSUME Settled, [Next]_vars
             PROVE  Settled'
  OBVIOUS
<1> USE DEF Settled
<1>1. menu' \in Menus
  <2>1. CASE UNCHANGED vars \/ Tick \/ \E d \in Docs : EditDoc(d)
    BY <2>1 DEF vars, Tick, EditDoc
  <2>2. ASSUME NEW s \in Servers,
               (\E request \in menu.requests : Call(s, request)) \/ CutShort(s) \/ AppendFails(s)
        PROVE  menu' \in Menus
    BY <2>2 DEF Call, CutShort, AppendFails
  <2>3. ASSUME NEW s \in Servers, Step(s)
        PROVE  menu' \in Menus
    BY <2>3 DEF Step, SaveObservation, ReadLast, SelectRows, ReadInbox, Truncate, Write,
         SaveExtracted, Load, CheckSize, Rename, AppendLine, Exists, UpsertMemory, DeleteOld, Find,
         Touch, WriteContract, FindEvent, RecordEvent, ScanDoc, StoreDoc, CacheDoc, ListStale,
         ForgetDoc, UncacheDoc
  <2> QED BY <2>1, <2>2, <2>3 DEF Next
<1>2. CASE UNCHANGED vars \/ Tick \/ \E d \in Docs : EditDoc(d)
  <2>1. srv' = srv
    BY <1>2 DEF vars, Tick, EditDoc
  <2> QED BY <1>1, <2>1 DEF Serving, Shapes
<1>3. ASSUME NEW s \in Servers, NEW request \in menu.requests, Call(s, request)
      PROVE  Serving' /\ Shapes'
  BY <1>3, CallShaped
<1>4. ASSUME NEW s \in Servers, Step(s) \/ CutShort(s) \/ AppendFails(s)
      PROVE  Serving' /\ Shapes'
  BY <1>4, StepTurns, TurnKeeps
<1> QED BY <1>1, <1>2, <1>3, <1>4 DEF Next

\* What a server that was calling goes on with.
LEMMA Onward ==
  ASSUME Settled, NEW s \in Servers, Calling(s), Turn(s), NEW t \in Servers
  PROVE  /\ t # s => \A op : At(t, op)' <=> At(t, op)
         /\ t # s => Resource(t)' = Resource(t) /\ Held(t)' = Held(t)
         /\ t # s => /\ srv'[t].steps = srv[t].steps /\ srv'[t].call = srv[t].call
                     /\ srv'[t].key = srv[t].key /\ srv'[t].request = srv[t].request
                     /\ srv'[t].copy = srv[t].copy /\ srv'[t].last = srv[t].last
                     /\ srv'[t].seen = srv[t].seen /\ srv'[t].doc = srv[t].doc
                     /\ srv'[t].exists = srv[t].exists
<1> SUFFICES ASSUME t # s
             PROVE  /\ srv'[t].steps = srv[t].steps /\ srv'[t].call = srv[t].call
                    /\ srv'[t].key = srv[t].key /\ srv'[t].request = srv[t].request
                    /\ srv'[t].copy = srv[t].copy /\ srv'[t].last = srv[t].last
                    /\ srv'[t].seen = srv[t].seen /\ srv'[t].doc = srv[t].doc
                    /\ srv'[t].exists = srv[t].exists
  BY DEF At, Resource, Held
<1> QED BY KeptCall DEF Settled, Turn

\* What a server has before it, by what it had before it.
LEMMA Heads ==
  ASSUME Settled, NEW s \in Servers, Calling(s), Turn(s)
  PROVE  /\ At(s, "rows")' => At(s, "last")
         /\ At(s, "read")' => At(s, "rows")
         /\ At(s, "truncate")' => /\ At(s, "read") \/ At(s, "load")
                                  /\ Resource(s)' = Resource(s)
                                  /\ At(s, "read") <=> Resource(s) = "inbox"
         /\ At(s, "write")' => At(s, "truncate") /\ Resource(s)' = Resource(s)
         /\ At(s, "save")' => At(s, "write") /\ Resource(s) = "inbox"
         /\ At(s, "upsert")' => At(s, "exists")
         /\ At(s, "cache")' => At(s, "store")
         /\ At(s, "uncache")' => At(s, "forget")
         /\ At(s, "rename")' => At(s, "size") /\ Resource(s)' = Resource(s)
<1> DEFINE old == srv[s].steps
           new == srv'[s].steps
<1>1. /\ old \in Seq(Steps) /\ Len(old) \in Nat /\ Len(old) >= 1 /\ Shaped(old)
      /\ \A op : At(s, op) <=> old[1][1] = op
      /\ Resource(s) = old[1][2]
  BY FirstStep DEF Settled, Serving, Shapes, ShapedCall, Calling
<1>2. CASE srv'[s] = Idle
  <2>1. \A op : ~At(s, op)'
    BY <1>2 DEF At, Idle
  <2> QED BY <2>1
<1>3. CASE srv'[s] # Idle
  <2>1. /\ new \in Seq(Steps) /\ new # <<>>
        /\ \A op : At(s, op)' <=> new[1][1] = op
        /\ Resource(s)' = new[1][2]
    <3>1. Serving' /\ DOMAIN srv' = Servers
      BY TurnKeeps DEF Settled, Turn
    <3>2. srv'[s].steps \in Seq(Steps) /\ srv'[s].steps # <<>>
      BY <1>3, <3>1 DEF Serving
    <3>3. Head(new) = new[1]
      BY <3>2, HeadTailProperties
    <3> QED BY <3>2, <3>3 DEF At, Resource
  <2>2. \/ \E x \in Steps : /\ Follows(x, new[1])
                            /\ x = old[1] \/ (x[1] = "rename" /\ old[1][1] = "size")
        \/ new[1][1] \in {"store", "forget"}
    <3>1. CASE Found(new, old)
      BY <3>1 DEF Found
    <3>2. ASSUME NEW n \in 1 .. 2, Rest(new, old, n), n = 2 => At(s, "size")
          PROVE  \E x \in Steps : /\ Follows(x, new[1])
                                  /\ x = old[1] \/ (x[1] = "rename" /\ old[1][1] = "size")
      <4>1. Len(new) \in Nat /\ Len(new) >= 1
        BY <2>1, LenProperties, EmptySeq
      <4>2. new[1] = old[1 + n] /\ n \in 1 .. Len(old) - 1 /\ Len(new) = Len(old) - n
        BY <1>1, <3>2, <4>1 DEF Rest
      <4>3. old[n] \in Steps /\ Follows(old[n], old[n + 1])
        BY <1>1, <4>2, ElementOfSeq DEF Shaped, Linked
      <4>4. Follows(old[n], new[1])
        BY <4>2, <4>3
      <4>5. CASE n = 1
        <5>1. old[1] \in Steps /\ Follows(old[1], new[1])
          BY <4>3, <4>4, <4>5
        <5> HIDE DEF old, new
        <5> QED BY <5>1
      <4>6. CASE n = 2
        <5>1. Follows(old[1], old[1 + 1]) /\ old[1][1] = "size"
          BY <1>1, <3>2, <4>2, <4>6 DEF Shaped, Linked
        <5>2. old[2][1] = "rename"
          BY <5>1 DEF Follows
        <5> QED BY <4>3, <4>4, <4>6, <5>1, <5>2
      <4> QED BY <4>5, <4>6
    <3> QED BY <1>3, <3>1, <3>2 DEF Turn
  <2>3. old[1] \in Steps /\ new[1] \in Steps
    BY <1>1, <2>1, ElementOfSeq
  <2> HIDE DEF old, new
  <2>4. CASE new[1][1] \in {"store", "forget"}
    BY <2>1, <2>4
  <2>5. ASSUME NEW x \in Steps, Follows(x, new[1]),
               x = old[1] \/ (x[1] = "rename" /\ old[1][1] = "size")
        PROVE  /\ new[1][1] \in {"rows", "read", "truncate", "write", "save", "upsert", "cache",
                                "uncache", "rename"} =>
                    x = old[1]
               /\ new[1][1] = "truncate" => (old[1][1] = "read" <=> old[1][2] = "inbox")
    BY <2>5 DEF Follows
  <2>6. CASE \E x \in Steps : /\ Follows(x, new[1])
                              /\ x = old[1] \/ (x[1] = "rename" /\ old[1][1] = "size")
    <3>1. PICK x \in Steps : /\ Follows(x, new[1])
                             /\ x = old[1] \/ (x[1] = "rename" /\ old[1][1] = "size")
      BY <2>6
    <3>2. CASE x = old[1]
      BY <1>1, <2>1, <2>3, <2>5, <3>1, <3>2 DEF Follows
    <3>3. CASE x # old[1]
      <4>1. new[1][1] \notin {"rows", "read", "truncate", "write", "save", "upsert", "cache",
                              "uncache", "rename"}
        BY <2>5, <3>1, <3>3
      <4> QED BY <2>1, <4>1
    <3> QED BY <3>2, <3>3
  <2> QED BY <2>2, <2>4, <2>6
<1> QED BY <1>2, <1>3

LEMMA OneOp ==
  ASSUME NEW s, NEW op, NEW other, At(s, op), At(s, other)
  PROVE  op = other
BY DEF At

\* What a step reads into the record of its server.
Reads(s) ==
  /\ srv'[s].last = IF At(s, "last") THEN lastExtracted ELSE srv[s].last
  /\ srv'[s].seen = IF At(s, "rows") THEN observations ELSE srv[s].seen
  /\ At(s, "rows") => observations > srv[s].last
  /\ srv'[s].exists = IF At(s, "exists") THEN srv[s].key \in DOMAIN memories
                      ELSE IF At(s, "event") THEN <<srv[s].before, srv[s].copy>> \in events
                      ELSE srv[s].exists
  /\ srv'[s].moved = srv[s].moved
  /\ At(s, "scan") \/ srv'[s].doc = srv[s].doc
  /\ At(s, "scan") \/ At(s, "read") \/ At(s, "load") \/ At(s, "stale") \/ At(s, "uncache")
       \/ srv'[s].copy = srv[s].copy

LEMMA StepReads ==
  ASSUME Settled, NEW s \in Servers, Step(s) \/ CutShort(s) \/ AppendFails(s), srv'[s] # Idle
  PROVE  Reads(s)
<1>1. Calling(s) /\ DOMAIN srv = Servers /\ DOMAIN srv[s] = DOMAIN Idle
  BY StepTurns DEF Settled, Serving
<1>2. ASSUME NEW read, DOMAIN read = DOMAIN Idle, read.steps = srv[s].steps, Proceed(s, read)
      PROVE  \A f \in DOMAIN Idle \ {"steps"} : srv'[s][f] = read[f]
  BY <1>1, <1>2, ProceedTurns DEF Settled
<1>3. ~Finish(s)
  BY <1>1 DEF Finish
<1>4. {"last", "seen", "exists", "moved", "doc", "copy", "before"} \subseteq DOMAIN Idle \ {"steps"}
  BY DEF Idle
<1>5. ASSUME NEW op, At(s, op),
             op \notin {"last", "rows", "exists", "event", "scan", "read", "load",
                                         "stale", "uncache"},
             \A f \in DOMAIN Idle \ {"steps"} : srv'[s][f] = srv[s][f]
      PROVE  Reads(s)
  <2>1. \A other \in {"last", "rows", "exists", "event", "scan", "read", "load", "stale",
                      "uncache"} : ~At(s, other)
    BY <1>5, OneOp
  <2> QED BY <1>4, <1>5, <2>1 DEF Reads
<1>6. CASE \/ SaveObservation(s) \/ Truncate(s) \/ Write(s) \/ AppendLine(s) \/ DeleteOld(s)
           \/ Touch(s) \/ WriteContract(s) \/ StoreDoc(s) \/ CacheDoc(s) \/ ForgetDoc(s)
           \/ UpsertMemory(s) \/ Find(s) \/ RecordEvent(s)
  <2>1. Proceed(s, srv[s])
    BY <1>3, <1>6 DEF SaveObservation, Truncate, Write, AppendLine, DeleteOld, Touch,
         WriteContract, StoreDoc, CacheDoc, ForgetDoc, UpsertMemory, Find, RecordEvent
  <2>2. \A f \in DOMAIN Idle \ {"steps"} : srv'[s][f] = srv[s][f]
    BY <1>1, <1>2, <2>1
  <2>3. \E op : /\ At(s, op)
                /\ op \notin {"last", "rows", "exists", "event", "scan", "read", "load", "stale",
                              "uncache"}
    BY <1>6 DEF SaveObservation, Truncate, Write, AppendLine, DeleteOld, Touch,
         WriteContract, StoreDoc, CacheDoc, ForgetDoc, UpsertMemory, Find, RecordEvent
  <2> QED BY <1>5, <2>2, <2>3
<1>7. CASE SaveExtracted(s) \/ CutShort(s)
  BY <1>3, <1>7 DEF SaveExtracted, CutShort
<1>8. CASE CheckSize(s) \/ AppendFails(s) \/ Rename(s)
  <2>1. \E op \in {"size", "rename", "append"} : At(s, op)
    BY <1>8 DEF CheckSize, AppendFails, Rename
  <2>2. \/ Proceed(s, srv[s])
        \/ \E steps : srv'[s] = [srv[s] EXCEPT !.steps = steps]
    BY <1>1, <1>8 DEF CheckSize, AppendFails, Rename, Skip
  <2>3. \A f \in DOMAIN Idle \ {"steps"} : srv'[s][f] = srv[s][f]
    BY <1>1, <1>2, <2>2
  <2> QED BY <1>5, <2>1, <2>3
<1>9. CASE ReadLast(s)
  <2>1. At(s, "last") /\ Proceed(s, [srv[s] EXCEPT !.last = lastExtracted])
    BY <1>9 DEF ReadLast
  <2>2. \A f \in DOMAIN Idle \ {"steps"} : srv'[s][f] = [srv[s] EXCEPT !.last = lastExtracted][f]
    BY <1>1, <1>2, <2>1 DEF Idle
  <2>3. ~At(s, "rows") /\ ~At(s, "exists") /\ ~At(s, "event")
    BY <2>1, OneOp
  <2> QED BY <1>1, <1>4, <2>1, <2>2, <2>3 DEF Reads
<1>10. CASE SelectRows(s)
  <2>1. /\ At(s, "rows") /\ observations > srv[s].last
        /\ Proceed(s, [srv[s] EXCEPT !.seen = observations])
    BY <1>3, <1>10 DEF SelectRows
  <2>2. \A f \in DOMAIN Idle \ {"steps"} : srv'[s][f] = [srv[s] EXCEPT !.seen = observations][f]
    BY <1>1, <1>2, <2>1 DEF Idle
  <2>3. ~At(s, "last") /\ ~At(s, "exists") /\ ~At(s, "event")
    BY <2>1, OneOp
  <2> QED BY <1>1, <1>4, <2>1, <2>2, <2>3 DEF Reads
<1>11. CASE Exists(s)
  <2> DEFINE read == [srv[s] EXCEPT !.exists = srv[s].key \in DOMAIN memories]
  <2>1. At(s, "exists") /\ Proceed(s, read)
    BY <1>3, <1>11 DEF Exists
  <2>2. \A f \in DOMAIN Idle \ {"steps"} : srv'[s][f] = read[f]
    BY <1>1, <1>2, <2>1 DEF Idle
  <2>3. ~At(s, "last") /\ ~At(s, "rows") /\ ~At(s, "event")
    BY <2>1, OneOp
  <2> QED BY <1>1, <1>4, <2>1, <2>2, <2>3 DEF Reads
<1>12. CASE FindEvent(s)
  <2> DEFINE read == [srv[s] EXCEPT !.exists = <<srv[s].before, srv[s].copy>> \in events]
  <2>1. At(s, "event") /\ Proceed(s, read)
    BY <1>12 DEF FindEvent
  <2>2. \A f \in DOMAIN Idle \ {"steps"} : srv'[s][f] = read[f]
    BY <1>1, <1>2, <2>1 DEF Idle
  <2>3. ~At(s, "last") /\ ~At(s, "rows") /\ ~At(s, "exists")
    BY <2>1, OneOp
  <2> QED BY <1>1, <1>4, <2>1, <2>2, <2>3 DEF Reads
<1>13. CASE ReadInbox(s) \/ Load(s) \/ ListStale(s) \/ UncacheDoc(s)
  <2>1. \E op \in {"read", "load", "stale", "uncache"} : At(s, op)
    BY <1>13 DEF ReadInbox, Load, ListStale, UncacheDoc
  <2>2. \A f \in DOMAIN Idle \ {"steps", "copy", "before"} : srv'[s][f] = srv[s][f]
    <3>1. CASE ReadInbox(s)
      <4>1. PICK copy : Proceed(s, [srv[s] EXCEPT !.copy = copy])
        BY <3>1 DEF ReadInbox
      <4>2. \A f \in DOMAIN Idle \ {"steps"} : srv'[s][f] = [srv[s] EXCEPT !.copy = copy][f]
        BY <1>1, <1>2, <4>1 DEF Idle
      <4> QED BY <1>1, <4>2
    <3>2. CASE Load(s)
      <4>1. PICK before, copy : Proceed(s, [srv[s] EXCEPT !.before = before, !.copy = copy])
        BY <1>3, <3>2 DEF Load
      <4> DEFINE read == [srv[s] EXCEPT !.before = before, !.copy = copy]
      <4>2. \A f \in DOMAIN Idle \ {"steps"} : srv'[s][f] = read[f]
        BY <1>1, <1>2, <4>1 DEF Idle
      <4> QED BY <1>1, <4>2
    <3>3. CASE ListStale(s) \/ UncacheDoc(s)
      <4>1. PICK copy : srv' = [srv EXCEPT ![s] = [srv[s] EXCEPT !.copy = copy,
                         !.steps = << <<"forget", "global">>, <<"uncache", "global">> >>]]
        BY <1>1, <1>3, <3>3 DEF ListStale, UncacheDoc
      <4> QED BY <1>1, <4>1
    <3> QED BY <1>13, <3>1, <3>2, <3>3
  <2>3. \A op \in {"last", "rows", "exists", "event"} : ~At(s, op)
    BY <2>1, OneOp
  <2> QED BY <1>4, <2>1, <2>2, <2>3 DEF Reads, Idle
<1>14. CASE ScanDoc(s)
  <2> DEFINE d == DocOrder[srv[s].scanned + 1]
             next == [srv[s] EXCEPT !.scanned = @ + 1,
                        !.met = IF docs[d] = None THEN @ ELSE @ \cup {d}]
  <2>1. \/ Proceed(s, next)
        \/ Proceed(s, [next EXCEPT !.doc = d, !.copy = docs[d],
             !.steps = << Head(@), <<"store", "global">>, <<"cache", "global">> >> \o Tail(@)])
    BY <1>14 DEF ScanDoc
  <2>2. \A f \in DOMAIN Idle \ {"steps", "doc", "copy", "scanned", "met"} : srv'[s][f] = srv[s][f]
    BY <1>1, <2>1 DEF Proceed
  <2>3. /\ At(s, "scan") /\ ~At(s, "last") /\ ~At(s, "rows") /\ ~At(s, "exists")
        /\ ~At(s, "event")
    BY <1>14, OneOp DEF ScanDoc
  <2> QED BY <1>4, <2>2, <2>3 DEF Reads, Idle
<1> QED BY <1>6, <1>7, <1>8, <1>9, <1>10, <1>11, <1>12, <1>13, <1>14 DEF Step

-----------------------------------------------------------------------------
(***************************************************************************)
(* The hook.  What had been extracted when it began has been written, and  *)
(* so has what it extracted itself, once it is to save the last id.        *)
(***************************************************************************)
InHook(s) ==
  \/ At(s, "rows") \/ At(s, "read") \/ At(s, "save")
  \/ (At(s, "truncate") \/ At(s, "write")) /\ Resource(s) = "inbox"

HookWrote(s) ==
  /\ InHook(s) => 1 .. srv[s].last \subseteq written
  /\ At(s, "save") => 1 .. srv[s].seen \subseteq written

\* No server has read an id that is not there.
IdsRead ==
  /\ observations \in Nat /\ lastExtracted \in 0 .. observations
  /\ \A s \in Servers : srv[s].last \in 0 .. observations /\ srv[s].seen \in 0 .. observations

Extracted ==
  /\ Settled /\ IdsRead
  /\ 1 .. lastExtracted \subseteq written
  /\ \A s \in Servers : HookWrote(s)

LEMMA IdsReadByCall ==
  ASSUME Extracted, NEW s \in Servers, NEW request \in menu.requests, Call(s, request)
  PROVE  IdsRead' /\ ExtractedWereWritten' /\ \A t \in Servers : HookWrote(t)'
<1>1. Called(s, request) /\ Serving' /\ UNCHANGED <<observations, lastExtracted, written>>
  BY CallShaped DEF Extracted, Settled, Call, tables, ghosts
<1>2. srv'[s].last = 0 /\ srv'[s].seen = 0
  <2>1. CASE srv'[s] = Idle
    BY <2>1 DEF Idle
  <2>2. CASE srv'[s] = [Idle EXCEPT !.request = request, !.call = calls + 1,
                                    !.key = KeyOf(request), !.steps = Program(request)]
    BY <2>2 DEF Idle
  <2> QED BY <1>1, <2>1, <2>2 DEF Called
<1>3. 1 .. 0 = {} /\ 0 \in 0 .. observations
  BY DEF Extracted, IdsRead
<1>4. ASSUME NEW t \in Servers, t # s
      PROVE  srv'[t].last = srv[t].last /\ srv'[t].seen = srv[t].seen /\ HookWrote(t)'
  BY <1>1, <1>4 DEF Called, Extracted, HookWrote, InHook, At, Resource
<1>5. IdsRead'
  BY <1>1, <1>2, <1>3, <1>4 DEF Extracted, IdsRead
<1> QED BY <1>1, <1>2, <1>3, <1>4, <1>5 DEF Extracted, HookWrote, ExtractedWereWritten

\* What becomes of the observations.
LEMMA IdsChange ==
  ASSUME NEW s \in Servers, Step(s) \/ CutShort(s) \/ AppendFails(s)
  PROVE  /\ observations' = observations \/ (At(s, "observe") /\ observations' = observations + 1)
         /\ lastExtracted' = lastExtracted
            \/ (At(s, "save") /\ srv' = [srv EXCEPT ![s] = Idle] /\ lastExtracted' = srv[s].seen)
         /\ \/ written' = written
            \/ At(s, "write") /\ written' = written \cup (srv[s].last + 1 .. srv[s].seen)
         /\ \/ ~At(s, "write") \/ Resource(s) # "inbox" \/ srv' = [srv EXCEPT ![s] = Idle]
            \/ written' = written \cup (srv[s].last + 1 .. srv[s].seen)
<1>1. CASE CutShort(s) \/ AppendFails(s)
  BY <1>1 DEF CutShort, AppendFails, Finish, tables, ghosts, At
<1>2. CASE Step(s)
  BY <1>2 DEF Step, SaveObservation, ReadLast, SelectRows, ReadInbox, Truncate, Write,
         SaveExtracted, Load, CheckSize, Rename, AppendLine, Exists, UpsertMemory, DeleteOld, Find,
         Touch, WriteContract, FindEvent, RecordEvent, ScanDoc, StoreDoc, CacheDoc, ListStale,
         ForgetDoc, UncacheDoc, tables, ghosts, Finish, At
<1> QED BY <1>1, <1>2

LEMMA ExtractedByStep ==
  ASSUME Extracted, NEW s \in Servers, Step(s) \/ CutShort(s) \/ AppendFails(s)
  PROVE  IdsRead' /\ ExtractedWereWritten' /\ \A t \in Servers : HookWrote(t)'
<1> USE DEF Extracted
<1>1. Calling(s) /\ Turn(s) /\ Serving
  BY StepTurns DEF Settled
<1>2. written \subseteq written' /\ observations \in Nat /\ observations' \in Nat
      /\ observations <= observations'
  BY IdsChange DEF IdsRead
<1>3. ASSUME NEW t \in Servers, t # s
      PROVE  /\ HookWrote(t)'
             /\ srv'[t].last \in 0 .. observations' /\ srv'[t].seen \in 0 .. observations'
  <2>1. srv'[t].last = srv[t].last /\ srv'[t].seen = srv[t].seen
    BY <1>1, <1>3, Onward
  <2>2. (InHook(t)' <=> InHook(t)) /\ (At(t, "save")' <=> At(t, "save"))
    BY <1>1, <1>3, Onward DEF InHook
  <2> QED BY <1>2, <2>1, <2>2 DEF HookWrote, IdsRead
<1>4. lastExtracted' \in 0 .. observations' /\ 1 .. lastExtracted' \subseteq written'
  BY <1>2, IdsChange DEF IdsRead, HookWrote
<1>5. HookWrote(s)' /\ srv'[s].last \in 0 .. observations' /\ srv'[s].seen \in 0 .. observations'
  <2>1. CASE srv'[s] = Idle
    <3>1. srv'[s].last = 0 /\ srv'[s].seen = 0 /\ ~InHook(s)' /\ ~At(s, "save")'
      BY <2>1 DEF Idle, InHook, At
    <3> QED BY <1>2, <3>1 DEF HookWrote
  <2>2. CASE srv'[s] # Idle
    <3>1. Reads(s)
      BY <2>2, StepReads
    <3>2. srv'[s].last \in 0 .. observations' /\ srv'[s].seen \in 0 .. observations'
      BY <1>2, <3>1 DEF Reads, IdsRead
    <3>3. ASSUME InHook(s)'
          PROVE  1 .. srv'[s].last \subseteq written'
      <4>1. CASE At(s, "last")
        BY <1>2, <3>1, <4>1 DEF Reads
      <4>2. CASE ~At(s, "last")
        <5>1. InHook(s)
          BY <1>1, <3>3, <4>2, Heads DEF InHook
        <5> QED BY <1>2, <3>1, <4>2, <5>1 DEF Reads, HookWrote
      <4> QED BY <4>1, <4>2
    <3>4. ASSUME At(s, "save")'
          PROVE  1 .. srv'[s].seen \subseteq written'
      <4>1. At(s, "write") /\ Resource(s) = "inbox" /\ ~At(s, "last") /\ ~At(s, "rows")
        <5>1. At(s, "write") /\ Resource(s) = "inbox"
          BY <1>1, <3>4, Heads
        <5> QED BY <5>1, OneOp
      <4>2. srv' # [srv EXCEPT ![s] = Idle]
        BY <1>1, <2>2 DEF Serving
      <4>3. written' = written \cup (srv[s].last + 1 .. srv[s].seen)
        BY <4>1, <4>2, IdsChange
      <4>4. srv'[s].seen = srv[s].seen /\ 1 .. srv[s].last \subseteq written
        BY <3>1, <4>1 DEF Reads, HookWrote, InHook
      <4>5. srv[s].last \in Nat /\ srv[s].seen \in Nat
        BY DEF IdsRead
      <4>6. 1 .. srv[s].seen \subseteq 1 .. srv[s].last \cup (srv[s].last + 1 .. srv[s].seen)
        BY <4>5
      <4> QED BY <4>3, <4>4, <4>6
    <3> QED BY <3>2, <3>3, <3>4 DEF HookWrote
  <2> QED BY <2>1, <2>2
<1> QED BY <1>2, <1>3, <1>4, <1>5 DEF IdsRead, ExtractedWereWritten

LEMMA ExtractedAlways == Spec => []Extracted
<1>1. Init => Extracted
  <2> SUFFICES ASSUME Init
               PROVE  Extracted
    OBVIOUS
  <2>1. Settled
    BY Begun
  <2>2. 1 .. 0 = {} /\ lastExtracted = 0 /\ observations = 0
    BY DEF Init
  <2>3. \A s \in Servers : srv[s].last = 0 /\ srv[s].seen = 0 /\ HookWrote(s)
    BY <2>2 DEF Init, Idle, HookWrote
  <2> QED BY <2>1, <2>2, <2>3 DEF Extracted, IdsRead
<1>2. Extracted /\ [Next]_vars => Extracted'
  <2> SUFFICES ASSUME Extracted, [Next]_vars
               PROVE  Extracted'
    OBVIOUS
  <2>1. Settled'
    BY StillSettled DEF Extracted
  <2>2. CASE UNCHANGED vars \/ Tick \/ \E d \in Docs : EditDoc(d)
    <3>1. UNCHANGED <<srv, observations, lastExtracted, written>>
      BY <2>2 DEF vars, Tick, EditDoc, tables, ghosts
    <3> QED BY <2>1, <3>1 DEF Extracted, IdsRead, HookWrote, InHook, At, Resource
  <2>3. ASSUME NEW s \in Servers, NEW request \in menu.requests, Call(s, request)
        PROVE  Extracted'
    BY <2>1, <2>3, IdsReadByCall DEF Extracted, ExtractedWereWritten
  <2>4. ASSUME NEW s \in Servers, Step(s) \/ CutShort(s) \/ AppendFails(s)
        PROVE  Extracted'
    BY <2>1, <2>4, ExtractedByStep DEF Extracted, ExtractedWereWritten
  <2> QED BY <2>2, <2>3, <2>4 DEF Next
<1> QED BY <1>1, <1>2, PTL DEF Spec

\* However the hooks of several servers interleave and are cut short, what
\* last_extracted_obs_id says has been extracted has been written to the inbox
\* (after_save_observation).
THEOREM NothingPassedOver == Spec => []ExtractedWereWritten
<1>1. Extracted => ExtractedWereWritten
  BY DEF Extracted, ExtractedWereWritten
<1> QED BY <1>1, ExtractedAlways, PTL

-----------------------------------------------------------------------------
(***************************************************************************)
(* The global database: one server at most is between its two tables, and  *)
(* they differ by what it has stored or forgotten.                         *)
(***************************************************************************)
Between(s) == At(s, "cache") \/ At(s, "uncache")

Stored ==
  "global" \notin disturbed =>
    /\ \A s, t \in Servers : Between(s) /\ Between(t) => s = t
    /\ \A s \in Servers :
         /\ At(s, "cache") => knowledge = With(cached, srv[s].doc, srv[s].copy)
         /\ At(s, "uncache") => knowledge = Without(cached, Head(srv[s].copy))
    /\ (\A s \in Servers : ~Between(s)) => cached = knowledge

LEMMA HeldGlobal ==
  ASSUME Settled, NEW s \in Servers
  PROVE  Held(s) = "global" <=> Between(s)
<1>1. CASE ~Calling(s)
  BY <1>1, McAssumption DEF Calling, Held, Between, At
<1>2. CASE Calling(s)
  <2>1. srv[s].steps[1] \in Steps /\ Resource(s) = srv[s].steps[1][2]
        /\ \A op : At(s, op) <=> srv[s].steps[1][1] = op
    BY <1>2, FirstStep DEF Settled
  <2> QED BY <2>1, McAssumption DEF Held, Between, Steps, Logs
<1> QED BY <1>1, <1>2

\* Who stores a document is to put it into the cache, who forgets it to take it out.
LEMMA CacheComes ==
  ASSUME Settled, NEW s \in Servers, StoreDoc(s) \/ ForgetDoc(s)
  PROVE  /\ srv'[s] # Idle
         /\ StoreDoc(s) => At(s, "cache")' /\ ~At(s, "uncache")'
         /\ ForgetDoc(s) => At(s, "uncache")' /\ ~At(s, "cache")'
<1> DEFINE old == srv[s].steps
           new == srv'[s].steps
<1>1. Calling(s) /\ Turn(s) /\ Step(s) /\ Proceed(s, srv[s]) /\ DOMAIN srv[s] = DOMAIN Idle
  BY StepTurns DEF Settled, Serving, Step, StoreDoc, ForgetDoc
<1>2. /\ old \in Seq(Steps) /\ Len(old) \in Nat /\ Len(old) >= 1 /\ Shaped(old)
      /\ \A op : At(s, op) <=> old[1][1] = op
  BY <1>1, FirstStep DEF Settled, Serving, Shapes, ShapedCall, Calling
<1>3. old[1][1] \in {"store", "forget"}
  BY <1>2 DEF StoreDoc, ForgetDoc
<1>4. Len(old) # 1
  BY <1>3 , <1>2 DEF Shaped, Ended
<1>5. Rest(new, old, 1)
  BY <1>1, <1>4, ProceedTurns DEF Settled
<1>6. new # <<>> /\ new \in Seq(Steps) /\ new[1] = old[2] /\ Follows(old[1], old[2])
  <2>1. Len(new) \in Nat /\ Len(new) >= 1
    BY <1>5, LenProperties, EmptySeq DEF Rest
  <2>2. Follows(old[1], old[1 + 1])
    <3>1. \A n \in Nat : n >= 1 /\ n # 1 => 1 \in 1 .. n - 1
      OBVIOUS
    <3>2. 1 \in 1 .. Len(old) - 1
      BY <1>2, <1>4, <3>1
    <3> QED BY <1>2, <3>2 DEF Shaped, Linked
  <2> QED BY <1>5, <2>1, <2>2 DEF Rest
<1>7. \A op : At(s, op)' <=> new[1][1] = op
  BY <1>6, HeadTailProperties DEF At
<1>8. srv'[s] # Idle
  BY <1>6 DEF Idle
<1>9. StoreDoc(s) => old[1][1] = "store"
  BY <1>2 DEF StoreDoc
<1>10. ForgetDoc(s) => old[1][1] = "forget"
  BY <1>2 DEF ForgetDoc
<1> HIDE DEF old, new
<1> QED BY <1>6, <1>7, <1>8, <1>9, <1>10 DEF Follows

LEMMA GlobalSteps ==
  ASSUME Settled, NEW s \in Servers, Step(s) \/ CutShort(s) \/ AppendFails(s),
         "global" \notin disturbed'
  PROVE  /\ "global" \notin disturbed
         /\ \/ StoreDoc(s) \/ ForgetDoc(s) \/ CacheDoc(s) \/ UncacheDoc(s)
            \/ UNCHANGED <<knowledge, cached>> /\ ~Between(s) /\ ~Between(s)'
<1>1. "global" \notin disturbed
  <2>1. CASE CutShort(s) \/ AppendFails(s)
    BY <2>1 DEF CutShort, AppendFails, Tear, ghosts
  <2>2. CASE Step(s)
    BY <2>2 DEF Step, SaveObservation, ReadLast, SelectRows, ReadInbox, Truncate, Write,
         SaveExtracted, Load, CheckSize, Rename, AppendLine, Exists, UpsertMemory, DeleteOld, Find,
         Touch, WriteContract, FindEvent, RecordEvent, ScanDoc, StoreDoc, CacheDoc, ListStale,
         ForgetDoc, UncacheDoc, ghosts, Begin
  <2> QED BY <2>1, <2>2
<1>2. Calling(s) /\ Turn(s)
  BY StepTurns DEF Settled
<1>3. CASE CutShort(s)
  <2>1. UNCHANGED <<knowledge, cached>> /\ srv'[s] = Idle
    BY <1>3 DEF CutShort, Finish, Settled, Serving, global
  <2>2. ~Between(s)'
    BY <2>1 DEF Between, At, Idle
  <2>3. Held(s) = Resource(s) => ~Between(s)
    BY <1>3, HeldGlobal DEF CutShort, Tear, Between
  <2>4. ~Between(s)
    BY <2>3 DEF Held, Between
  <2> QED BY <1>1, <2>1, <2>2, <2>4
<1>4. CASE ~CutShort(s) /\ ~(StoreDoc(s) \/ ForgetDoc(s) \/ CacheDoc(s) \/ UncacheDoc(s))
  <2>1. UNCHANGED <<knowledge, cached>> /\ ~At(s, "store") /\ ~At(s, "forget") /\ ~Between(s)
    <3>1. CASE AppendFails(s)
      BY <3>1 DEF AppendFails, global, At, Between
    <3>2. CASE Step(s)
      BY <1>4, <3>2 DEF Step, SaveObservation, ReadLast, SelectRows, ReadInbox, Truncate, Write,
         SaveExtracted, Load, CheckSize, Rename, AppendLine, Exists, UpsertMemory, DeleteOld, Find,
         Touch, WriteContract, FindEvent, RecordEvent, ScanDoc, ListStale, global, At, Between
    <3> QED BY <1>4, <3>1, <3>2
  <2>2. ~Between(s)'
    BY <1>2, <2>1, Heads DEF Between
  <2> QED BY <1>1, <2>1, <2>2
<1> QED BY <1>1, <1>3, <1>4

LEMMA StoredByStep ==
  ASSUME Settled, Stored, NEW s \in Servers, Step(s) \/ CutShort(s) \/ AppendFails(s)
  PROVE  Stored'
<1> SUFFICES ASSUME "global" \notin disturbed'
             PROVE  Stored'
  BY DEF Stored
<1>1. "global" \notin disturbed
  BY GlobalSteps
<1>2. Calling(s) /\ Turn(s) /\ Serving
  BY StepTurns DEF Settled
<1>3. ASSUME NEW t \in Servers, t # s
      PROVE  /\ At(t, "cache")' <=> At(t, "cache")
             /\ At(t, "uncache")' <=> At(t, "uncache")
             /\ Between(t)' <=> Between(t)
             /\ srv'[t].doc = srv[t].doc /\ srv'[t].copy = srv[t].copy
  BY <1>2, <1>3, Onward DEF Between
<1>4. CASE UNCHANGED <<knowledge, cached>> /\ ~Between(s) /\ ~Between(s)'
  <2>1. ~At(s, "cache")' /\ ~At(s, "uncache")'
    BY <1>4 DEF Between
  <2> QED BY <1>1, <1>3, <1>4, <2>1 DEF Stored
<1>5. CASE StoreDoc(s) \/ ForgetDoc(s)
  <2>1. \A t \in Servers \ {s} : ~Between(t)
    BY <1>5, HeldGlobal DEF StoreDoc, ForgetDoc, Begin
  <2>2. ~Between(s)
    BY <1>5 DEF StoreDoc, ForgetDoc, Between, At
  <2>3. cached = knowledge
    BY <1>1, <2>1, <2>2 DEF Stored
  <2>4. srv'[s].doc = srv[s].doc /\ srv'[s].copy = srv[s].copy
    <3>1. Reads(s)
      BY <1>5, CacheComes, StepReads
    <3>2. \A op \in {"scan", "read", "load", "stale", "uncache"} : ~At(s, op)
      BY <1>5 DEF StoreDoc, ForgetDoc, At
    <3> QED BY <3>1, <3>2 DEF Reads
  <2>5. /\ At(s, "cache")' => knowledge' = With(cached', srv'[s].doc, srv'[s].copy)
        /\ At(s, "uncache")' => knowledge' = Without(cached', Head(srv'[s].copy))
    BY <1>5, <2>3, <2>4, CacheComes DEF StoreDoc, ForgetDoc
  <2>6. Between(s)'
    BY <1>5, CacheComes DEF Between
  <2> QED BY <1>3, <2>1, <2>5, <2>6 DEF Stored, Between
<1>6. CASE CacheDoc(s) \/ UncacheDoc(s)
  <2>1. Between(s)
    BY <1>6 DEF CacheDoc, UncacheDoc, Between
  <2>2. \A t \in Servers \ {s} : ~Between(t)
    BY <1>1, <2>1 DEF Stored
  <2>3. ~Between(s)'
    <3>1. ~At(s, "store") /\ ~At(s, "forget")
      BY <1>6 DEF CacheDoc, UncacheDoc, At
    <3> QED BY <1>2, <3>1, Heads DEF Between
  <2>4. cached' = knowledge'
    BY <1>1, <1>6 DEF Stored, CacheDoc, UncacheDoc
  <2> QED BY <1>3, <2>2, <2>3, <2>4 DEF Stored, Between
<1> QED BY <1>4, <1>5, <1>6, GlobalSteps

\* What the global database says it has copied of rules/ and knowledge/ is what
\* it has, unless two searches overlapped in it or one was cut short
\* (sync_global_knowledge).
THEOREM CacheAgrees == Spec => []CachedAreStored
<1>1. Init => Settled /\ Stored
  <2> SUFFICES ASSUME Init
               PROVE  Stored
    BY Begun
  <2>1. cached = knowledge /\ \A s \in Servers : srv[s].steps = <<>>
    BY DEF Init, Idle
  <2> QED BY <2>1 DEF Stored, Between, At
<1>2. Settled /\ Stored /\ [Next]_vars => (Settled /\ Stored)'
  <2> SUFFICES ASSUME Settled, Stored, [Next]_vars
               PROVE  Stored'
    BY StillSettled
  <2>1. CASE UNCHANGED vars \/ Tick \/ \E d \in Docs : EditDoc(d)
    <3>1. UNCHANGED <<srv, knowledge, cached, disturbed>>
      BY <2>1 DEF vars, Tick, EditDoc, ghosts, global
    <3> QED BY <3>1 DEF Stored, Between, At
  <2>2. ASSUME NEW s \in Servers, NEW request \in menu.requests, Call(s, request)
        PROVE  Stored'
    <3>1. /\ Called(s, request) /\ ~Calling(s)
          /\ UNCHANGED <<knowledge, cached, disturbed>>
      BY <2>2, CallShaped DEF Settled, Call, global, ghosts
    <3>2. \A t \in Servers \ {s} : srv'[t] = srv[t]
      BY <3>1 DEF Called
    <3>3. ~Between(s) /\ ~Between(s)'
      BY <2>2, <3>1, CallShaped DEF Between, At, Calling, Settled, Firsts
    <3> QED BY <3>1, <3>2, <3>3 DEF Stored, Between, At
  <2>3. ASSUME NEW s \in Servers, Step(s) \/ CutShort(s) \/ AppendFails(s)
        PROVE  Stored'
    BY <2>3, StoredByStep
  <2> QED BY <2>1, <2>2, <2>3 DEF Next
<1>3. Settled /\ Stored => CachedAreStored
  BY HeldGlobal DEF Stored, CachedAreStored, Undisturbed
<1> QED BY <1>1, <1>2, <1>3, PTL DEF Spec

-----------------------------------------------------------------------------
(***************************************************************************)
(* The steps ahead of a call that change the memories or the observations. *)
(***************************************************************************)
LEMMA StepsAhead ==
  ASSUME Settled, NEW s \in Servers, Calling(s), Turn(s),
         NEW ops \in SUBSET {"observe", "upsert", "touch", "delete"}
  PROVE  /\ Has(srv'[s].steps, ops) => Has(srv[s].steps, ops)
         /\ Has(srv'[s].steps, ops) /\ Once(srv[s].steps, ops) =>
              \A op \in ops : ~At(s, op)
         /\ Has(srv[s].steps, {"upsert"}) /\ ~At(s, "upsert") /\ srv'[s] # Idle =>
              Has(srv'[s].steps, {"upsert"})
<1> DEFINE old == srv[s].steps
           new == srv'[s].steps
<1>1. /\ old \in Seq(Steps) /\ Len(old) \in Nat /\ Len(old) >= 1 /\ Shaped(old)
      /\ DOMAIN old = 1 .. Len(old) /\ \A op : At(s, op) <=> old[1][1] = op
  BY FirstStep, LenProperties DEF Settled, Serving, Shapes, ShapedCall, Calling
<1>2. CASE srv'[s] = Idle
  BY <1>2 DEF Idle, Has
<1>3. CASE \E n \in 1 .. 2 : Rest(new, old, n) /\ (n = 2 => At(s, "size"))
  <2>1. PICK n \in 1 .. 2 : Rest(new, old, n) /\ (n = 2 => At(s, "size"))
    BY <1>3
  <2>2. /\ Len(new) \in Nat /\ DOMAIN new = 1 .. Len(new) /\ Len(new) = Len(old) - n
        /\ \A i \in 1 .. Len(new) : new[i] = old[i + n]
    BY <2>1, LenProperties DEF Rest
  <2> HIDE DEF old, new
  <2>3. \A i \in DOMAIN new : i + n \in DOMAIN old /\ i + n # 1 /\ new[i] = old[i + n]
    BY <1>1, <2>2
  <2>4. \A i \in DOMAIN old : i > n => i - n \in DOMAIN new /\ (i - n) + n = i
    BY <1>1, <2>2
  <2>5. Has(new, ops) => Has(old, ops)
    BY <2>3 DEF Has
  <2>6. Has(new, ops) /\ Once(old, ops) => \A op \in ops : ~At(s, op)
    <3>1. 1 \in DOMAIN old
      BY <1>1
    <3> QED BY <1>1, <2>3, <3>1 DEF Has, Once
  <2>7. ASSUME NEW i \in DOMAIN old, old[i][1] = "upsert", ~At(s, "upsert")
        PROVE  Has(new, {"upsert"})
    <3>1. i # 1
      BY <1>1, <2>7
    <3>2. i > n
      <4>1. CASE n = 1
        BY <1>1, <3>1, <4>1
      <4>2. CASE n = 2
        <5>1. 1 \in DOMAIN old /\ 1 < i /\ old[1][1] = "size"
          BY <1>1, <2>1, <3>1, <4>2
        <5> QED BY <1>1, <2>7, <5>1 DEF Shaped, UpsertsFirst
      <4> QED BY <4>1, <4>2
    <3>3. i - n \in DOMAIN new /\ new[i - n] = old[i]
      <4>1. i - n \in DOMAIN new /\ (i - n) + n = i
        BY <2>4, <3>2
      <4> QED BY <2>3, <4>1
    <3> QED BY <2>7, <3>3 DEF Has
  <2>8. Has(old, {"upsert"}) /\ ~At(s, "upsert") => Has(new, {"upsert"})
    BY <2>7 DEF Has
  <2> QED BY <2>5, <2>6, <2>8 DEF old, new
<1>4. CASE Found(new, old)
  <2>1. old[1][1] \in {"scan", "stale", "uncache"}
    BY <1>4 DEF Found
  <2>2. ~Has(old, {"upsert"})
    <3>1. \A i \in DOMAIN old : 1 \in DOMAIN old /\ (i = 1 \/ 1 < i)
      BY <1>1
    <3> QED BY <1>1, <2>1, <3>1 DEF Shaped, UpsertsFirst, Has
  <2>3. \A op \in ops : ~At(s, op)
    BY <1>1, <2>1
  <2>4. Has(new, ops) => Has(old, ops)
    <3>1. CASE new = << <<"forget", "global">>, <<"uncache", "global">> >>
      BY <3>1 DEF Has
    <3>2. CASE /\ new \in Seq(Steps) /\ Len(new) = Len(old) + 1
               /\ new[1] = <<"store", "global">> /\ new[2] = <<"cache", "global">>
               /\ \A i \in 3 .. Len(new) : new[i] = old[i - 1]
      <4>1. DOMAIN new = 1 .. Len(new) /\ Len(new) = Len(old) + 1
        BY <3>2
      <4> HIDE DEF old, new
      <4>2. \A i \in DOMAIN new : \/ new[i][1] \in {"store", "cache"}
                                  \/ i - 1 \in DOMAIN old /\ new[i] = old[i - 1]
        BY <1>1, <3>2, <4>1
      <4> QED BY <4>2 DEF Has
    <3> QED BY <1>4, <3>1, <3>2 DEF Found
  <2> QED BY <2>2, <2>3, <2>4
<1> QED BY <1>2, <1>3, <1>4 DEF Turn

-----------------------------------------------------------------------------
(***************************************************************************)
(* The memories: one server at most is between looking its key up and      *)
(* writing it, and what it has found is so; and for every deletion of an   *)
(* old memory the new one is yet to be written, has an empty key, or has   *)
(* been written and not been deleted by the same call.                     *)
(***************************************************************************)
Numbered ==
  /\ calls \in Nat /\ faults \in Nat
  /\ \A s \in Servers : Calling(s) => srv[s].call \in 1 .. calls
  /\ \A s, t \in Servers : Calling(s) /\ Calling(t) /\ srv[s].call = srv[t].call => s = t

Ops == performed["memories"]

OpsKept ==
  /\ DOMAIN performed = Files \cup {"memories"}
  /\ \E S : Ops \in Seq(S)
  /\ \A i \in DOMAIN Ops : Ops[i].by \in 1 .. calls
  /\ \A s \in Servers : Has(srv[s].steps, {"upsert"}) =>
       \A i \in DOMAIN Ops : Ops[i].do = "put" => Ops[i].by # srv[s].call

Looking ==
  /\ \A s, t \in Servers : At(s, "upsert") /\ At(t, "upsert") => s = t
  /\ \A s \in Servers : At(s, "upsert") => srv[s].exists = (srv[s].key \in DOMAIN memories)

Consolidated(i) ==
  \/ \E s \in Servers : /\ srv[s].call = Ops[i].by /\ srv[s].key = Ops[i].new
                        /\ Has(srv[s].steps, {"upsert"})
  \/ Ops[i].new[1] = ""
  \/ \E j \in DOMAIN Ops :
       /\ Ops[j].do = "put" /\ Ops[j].by = Ops[i].by
       /\ \A k \in j .. Len(Ops) : Ops[k].do = "delete" => Ops[k].by # Ops[i].by

AllConsolidated == \A i \in DOMAIN Ops : Ops[i].do = "delete" => Consolidated(i)

Consolidating ==
  /\ Settled /\ Numbered /\ OpsKept
  /\ "memories" \notin disturbed => /\ Looking
                                    /\ faults = 0 => AllConsolidated

LEMMA HeldMemories ==
  ASSUME Settled, NEW s \in Servers
  PROVE  Held(s) = "memories" <=> At(s, "upsert")
<1>1. CASE ~Calling(s)
  BY <1>1, McAssumption DEF Calling, Held, At
<1>2. CASE Calling(s)
  <2>1. srv[s].steps[1] \in Steps /\ Resource(s) = srv[s].steps[1][2]
        /\ \A op : At(s, op) <=> srv[s].steps[1][1] = op
    BY <1>2, FirstStep DEF Settled
  <2> QED BY <2>1, McAssumption DEF Held, Steps, Logs
<1> QED BY <1>1, <1>2

\* Who has an upsert ahead of him is calling.
LEMMA AheadCalls ==
  ASSUME NEW s, NEW ops, Has(srv[s].steps, ops)
  PROVE  Calling(s)
BY DEF Has, Calling

\* What a step does to the memories, and to what has been performed on them.
Unmoved(s) ==
  /\ UNCHANGED memories /\ Ops' = Ops
  /\ \/ srv'[s] = Idle /\ faults' = faults + 1
     \/ /\ ~At(s, "exists") /\ ~At(s, "upsert") /\ ~At(s, "delete")
        /\ UNCHANGED faults \/ faults' = faults + 1

LEMMA MemorySteps ==
  ASSUME Settled, DOMAIN performed = Files \cup {"memories"}, NEW s \in Servers,
         Step(s) \/ CutShort(s) \/ AppendFails(s)
  PROVE  /\ "memories" \notin disturbed' => "memories" \notin disturbed
         /\ UNCHANGED calls /\ DOMAIN performed' = DOMAIN performed
         /\ Exists(s) \/ UpsertMemory(s) \/ DeleteOld(s) \/ Touch(s) \/ Unmoved(s)
<1>1. "memories" \notin disturbed' => "memories" \notin disturbed
  <2>1. CASE CutShort(s) \/ AppendFails(s)
    BY <2>1 DEF CutShort, AppendFails, Tear, ghosts
  <2>2. CASE Step(s)
    BY <2>2 DEF Step, SaveObservation, ReadLast, SelectRows, ReadInbox, Truncate, Write,
         SaveExtracted, Load, CheckSize, Rename, AppendLine, Exists, UpsertMemory, DeleteOld, Find,
         Touch, WriteContract, FindEvent, RecordEvent, ScanDoc, StoreDoc, CacheDoc, ListStale,
         ForgetDoc, UncacheDoc, ghosts, Begin
  <2> QED BY <2>1, <2>2
<1>2. UNCHANGED calls
  <2>1. CASE CutShort(s) \/ AppendFails(s)
    BY <2>1 DEF CutShort, AppendFails
  <2>2. CASE Step(s)
    BY <2>2 DEF Step, SaveObservation, ReadLast, SelectRows, ReadInbox, Truncate, Write,
         SaveExtracted, Load, CheckSize, Rename, AppendLine, Exists, UpsertMemory, DeleteOld, Find,
         Touch, WriteContract, FindEvent, RecordEvent, ScanDoc, StoreDoc, CacheDoc, ListStale,
         ForgetDoc, UncacheDoc
  <2> QED BY <2>1, <2>2
<1>3. CASE CutShort(s)
  <2>1. srv'[s] = Idle
    BY <1>3 DEF CutShort, Finish, Settled, Serving
  <2> QED BY <1>1, <1>2, <1>3, <2>1 DEF CutShort, tables, Ops, Unmoved
<1>4. CASE AppendFails(s)
  BY <1>1, <1>2, <1>4 DEF AppendFails, tables, ghosts, Ops, Unmoved, At
<1>5. ASSUME Write(s) \/ AppendLine(s)
      PROVE  Ops' = Ops /\ DOMAIN performed' = DOMAIN performed
  <2>1. Resource(s) \in Files
    <3>1. Calling(s) /\ (At(s, "write") \/ At(s, "append"))
      BY <1>5 DEF Write, AppendLine, At, Calling
    <3> QED BY <3>1, FirstStep DEF Settled, Steps, Files, Logs
  <2>2. Resource(s) # "memories"
    BY <2>1 DEF Files, Logs
  <2> QED BY <1>5, <2>2 DEF Write, AppendLine, Performed, Ops
<1>6. CASE Write(s) \/ AppendLine(s)
  <2>1. UNCHANGED <<memories, faults>> /\ ~At(s, "exists") /\ ~At(s, "upsert") /\ ~At(s, "delete")
    BY <1>6 DEF Write, AppendLine, tables, At
  <2> QED BY <1>1, <1>2, <1>5, <1>6, <2>1 DEF Unmoved
<1>7. CASE Exists(s) \/ UpsertMemory(s) \/ DeleteOld(s) \/ Touch(s)
  BY <1>1, <1>2, <1>7 DEF Exists, UpsertMemory, DeleteOld, Touch, Performed
<1>8. CASE Step(s) /\ ~Write(s) /\ ~AppendLine(s)
           /\ ~(Exists(s) \/ UpsertMemory(s) \/ DeleteOld(s) \/ Touch(s))
  <2>1. /\ UNCHANGED <<memories, faults, performed>>
        /\ ~At(s, "exists") /\ ~At(s, "upsert") /\ ~At(s, "delete")
    BY <1>8 DEF Step, SaveObservation, ReadLast, SelectRows, ReadInbox, Truncate,
         SaveExtracted, Load, CheckSize, Rename, Find,
         WriteContract, FindEvent, RecordEvent, ScanDoc, StoreDoc, CacheDoc, ListStale,
         ForgetDoc, UncacheDoc, tables, ghosts, At
  <2> QED BY <1>1, <1>2, <2>1 DEF Unmoved, Ops
<1> QED BY <1>3, <1>4, <1>6, <1>7, <1>8

\* An operation performed on the memories.
Performing(op) ==
  /\ \E S : Ops' \in Seq(S)
  /\ Len(Ops) \in Nat /\ Len(Ops') = Len(Ops) + 1
  /\ DOMAIN Ops = 1 .. Len(Ops) /\ DOMAIN Ops' = 1 .. Len(Ops')
  /\ \A i \in DOMAIN Ops : i \in DOMAIN Ops' /\ Ops'[i] = Ops[i]
  /\ Ops'[Len(Ops')] = op
  /\ \A i \in DOMAIN Ops' : i \in DOMAIN Ops \/ i = Len(Ops')

LEMMA PerformedOps ==
  ASSUME OpsKept, NEW op, Performed("memories", op)
  PROVE  Performing(op)
<1>1. PICK S : Ops \in Seq(S)
  BY DEF OpsKept
<1>2. Ops' = Append(Ops, op)
  BY DEF Performed, Ops, OpsKept
<1>3. Ops \in Seq(S \cup {op}) /\ Ops' \in Seq(S \cup {op})
  <2>1. Ops \in Seq(S \cup {op})
    BY <1>1, SeqMonotonic
  <2> QED BY <1>2, <2>1, AppendProperties
<1>4. /\ Len(Ops) \in Nat /\ Len(Ops') = Len(Ops) + 1
      /\ DOMAIN Ops = 1 .. Len(Ops) /\ DOMAIN Ops' = 1 .. Len(Ops')
  BY <1>2, <1>3, AppendProperties, LenProperties
<1>5. /\ \A i \in 1 .. Len(Ops) : Ops'[i] = Ops[i]
      /\ Ops'[Len(Ops) + 1] = op
  BY <1>2, <1>3, AppendProperties
<1> HIDE DEF Ops
<1>6. \E T : Ops' \in Seq(T)
  BY <1>3
<1>7. \A i \in 1 .. Len(Ops) : i \in 1 .. Len(Ops')
  BY <1>4
<1>8. \A i \in 1 .. Len(Ops') : i \in 1 .. Len(Ops) \/ i = Len(Ops')
  BY <1>4
<1> QED BY <1>4, <1>5, <1>6, <1>7, <1>8 DEF Performing

\* What the four operations on the memories append to those performed.
LEMMA MemoryOps ==
  ASSUME Settled, Numbered, OpsKept, NEW s \in Servers,
         Exists(s) \/ UpsertMemory(s) \/ DeleteOld(s) \/ Touch(s)
  PROVE  /\ Calling(s) /\ UNCHANGED faults
         /\ \/ Ops' = Ops
            \/ \E op : /\ Performing(op) /\ op.by = srv[s].call
                       /\ op.do = "delete" => DeleteOld(s) /\ op.new = srv[s].key
                       /\ op.do = "put" => At(s, "upsert")
         /\ DeleteOld(s) => /\ \E op : Performing(op) /\ op.by = srv[s].call /\ op.do = "delete"
                                      /\ op.new = srv[s].key
         /\ UpsertMemory(s) /\ (srv[s].exists <=> srv[s].key \in DOMAIN memories) =>
              \E op : Performing(op) /\ op.by = srv[s].call /\ op.do = "put"
<1>1. Calling(s) /\ UNCHANGED faults
  BY DEF Exists, UpsertMemory, DeleteOld, Touch, At, Calling
<1>2. CASE Exists(s)
  BY <1>1, <1>2 DEF Exists, Ops, DeleteOld, UpsertMemory, At
<1>3. CASE UpsertMemory(s)
  <2> DEFINE op == [do |-> "put", key |-> srv[s].key, by |-> srv[s].call]
  <2>1. op.do = "put" /\ op.by = srv[s].call /\ At(s, "upsert")
    BY <1>3 DEF UpsertMemory
  <2>2. ~DeleteOld(s)
    BY <1>3 DEF UpsertMemory, DeleteOld, At
  <2>3. \/ Performed("memories", op)
        \/ UNCHANGED performed /\ ~srv[s].exists /\ srv[s].key \in DOMAIN memories
    BY <1>3 DEF UpsertMemory
  <2> HIDE DEF op
  <2>4. CASE Performed("memories", op)
    BY <1>1, <2>1, <2>2, <2>4, PerformedOps
  <2>5. CASE UNCHANGED performed /\ ~srv[s].exists /\ srv[s].key \in DOMAIN memories
    BY <1>1, <2>2, <2>5 DEF Ops
  <2> QED BY <2>3, <2>4, <2>5
<1>4. CASE DeleteOld(s)
  <2>1. PICK key : Performed("memories", [do |-> "delete", key |-> key, by |-> srv[s].call,
                                          new |-> srv[s].key])
    BY <1>4 DEF DeleteOld
  <2> DEFINE op == [do |-> "delete", key |-> key, by |-> srv[s].call, new |-> srv[s].key]
  <2>2. op.do = "delete" /\ op.by = srv[s].call /\ op.new = srv[s].key
    OBVIOUS
  <2>3. ~UpsertMemory(s)
    BY <1>4 DEF UpsertMemory, DeleteOld, At
  <2>4. Performing(op)
    BY <2>1, PerformedOps
  <2> HIDE DEF op
  <2> QED BY <1>1, <1>4, <2>2, <2>3, <2>4
<1>5. CASE Touch(s)
  <2> DEFINE op == [do |-> "touch", key |-> srv[s].key, by |-> srv[s].call]
  <2>1. op.do = "touch" /\ op.by = srv[s].call /\ Performed("memories", op)
    BY <1>5 DEF Touch
  <2>2. ~UpsertMemory(s) /\ ~DeleteOld(s)
    BY <1>5 DEF UpsertMemory, DeleteOld, Touch, At
  <2> HIDE DEF op
  <2> QED BY <1>1, <2>1, <2>2, PerformedOps
<1> QED BY <1>2, <1>3, <1>4, <1>5

LEMMA NumberedByStep ==
  ASSUME Settled, Numbered, DOMAIN performed = Files \cup {"memories"}, NEW s \in Servers,
         Step(s) \/ CutShort(s) \/ AppendFails(s)
  PROVE  Numbered'
<1>1. Calling(s) /\ Turn(s) /\ UNCHANGED calls
  BY StepTurns, MemorySteps DEF Settled
<1>2. faults' \in Nat
  <2>1. faults' = faults \/ faults' = faults + 1
    <3>1. CASE CutShort(s) \/ AppendFails(s)
      BY <3>1 DEF CutShort, AppendFails
    <3>2. CASE Step(s)
      BY <3>2 DEF Step, SaveObservation, ReadLast, SelectRows, ReadInbox, Truncate, Write,
         SaveExtracted, Load, CheckSize, Rename, AppendLine, Exists, UpsertMemory, DeleteOld, Find,
         Touch, WriteContract, FindEvent, RecordEvent, ScanDoc, StoreDoc, CacheDoc, ListStale,
         ForgetDoc, UncacheDoc
    <3> QED BY <3>1, <3>2
  <2> QED BY <2>1 DEF Numbered
<1>3. ASSUME NEW t \in Servers, Calling(t)'
      PROVE  Calling(t) /\ srv'[t].call = srv[t].call
  <2>1. CASE t # s
    BY <1>1, <1>3, <2>1, Onward DEF Calling
  <2>2. CASE t = s
    <3>1. srv'[s] # Idle
      BY <1>3, <2>2 DEF Calling, Idle
    <3> QED BY <1>1, <2>2, <3>1 DEF Turn, Same
  <2> QED BY <2>1, <2>2
<1> QED BY <1>1, <1>2, <1>3 DEF Numbered

LEMMA OpsByStep ==
  ASSUME Settled, Numbered, OpsKept, NEW s \in Servers, Step(s) \/ CutShort(s) \/ AppendFails(s)
  PROVE  OpsKept'
<1>1. /\ Calling(s) /\ Turn(s) /\ UNCHANGED calls /\ DOMAIN performed' = DOMAIN performed
      /\ srv[s].call \in 1 .. calls
  BY StepTurns, MemorySteps DEF Settled, OpsKept, Numbered
<1>2. ASSUME NEW t \in Servers, Has(srv'[t].steps, {"upsert"})
      PROVE  Has(srv[t].steps, {"upsert"}) /\ srv'[t].call = srv[t].call
  <2>1. CASE t # s
    BY <1>1, <1>2, <2>1, Onward
  <2>2. CASE t = s
    <3>1. srv'[s] # Idle
      BY <1>2, <2>2 DEF Has, Idle
    <3>2. {"upsert"} \in SUBSET {"observe", "upsert", "touch", "delete"}
      OBVIOUS
    <3> QED BY <1>1, <1>2, <2>2, <3>1, <3>2, StepsAhead DEF Turn, Same
  <2> QED BY <2>1, <2>2
<1>3. CASE Ops' = Ops
  BY <1>1, <1>2, <1>3 DEF OpsKept
<1>4. ASSUME NEW op, Performing(op), op.by = srv[s].call, op.do = "put" => At(s, "upsert")
      PROVE  OpsKept'
  <2>1. \A i \in DOMAIN Ops' : Ops'[i].by \in 1 .. calls'
    BY <1>1, <1>4 DEF Performing, OpsKept
  <2>2. ASSUME NEW t \in Servers, Has(srv'[t].steps, {"upsert"}), op.do = "put"
        PROVE  op.by # srv'[t].call
    <3>1. CASE t # s
      <4>1. Calling(t)
        BY <1>2, <2>2, AheadCalls
      <4> QED BY <1>1, <1>2, <1>4, <2>2, <3>1, <4>1 DEF Numbered
    <3>2. CASE t = s
      <4>1. {"upsert", "touch"} \in SUBSET {"observe", "upsert", "touch", "delete"}
        OBVIOUS
      <4>2. Once(srv[s].steps, {"upsert", "touch"})
        BY <1>1 DEF Settled, Shapes, ShapedCall, Shaped, Calling
      <4>3. Has(srv'[s].steps, {"upsert", "touch"})
        BY <2>2, <3>2 DEF Has
      <4>4. ~At(s, "upsert")
        BY <1>1, <4>1, <4>2, <4>3, StepsAhead
      <4> QED BY <1>4, <2>2, <4>4
    <3> QED BY <3>1, <3>2
  <2>3. \A t \in Servers : Has(srv'[t].steps, {"upsert"}) =>
          \A i \in DOMAIN Ops' : Ops'[i].do = "put" => Ops'[i].by # srv'[t].call
    BY <1>2, <1>4, <2>2 DEF Performing, OpsKept
  <2> QED BY <1>1, <1>4, <2>1, <2>3 DEF OpsKept, Performing
<1> QED BY <1>3, <1>4, MemorySteps, MemoryOps DEF OpsKept, Unmoved

LEMMA LookingByStep ==
  ASSUME Consolidating, "memories" \notin disturbed', NEW s \in Servers,
         Step(s) \/ CutShort(s) \/ AppendFails(s)
  PROVE  "memories" \notin disturbed /\ Looking'
<1> USE DEF Consolidating
<1>1. /\ "memories" \notin disturbed /\ Looking /\ Calling(s) /\ Turn(s)
      /\ Exists(s) \/ UpsertMemory(s) \/ DeleteOld(s) \/ Touch(s) \/ Unmoved(s)
  BY StepTurns, MemorySteps DEF Settled, OpsKept
<1>2. ASSUME NEW t \in Servers, t # s
      PROVE  /\ At(t, "upsert")' <=> At(t, "upsert")
             /\ srv'[t].exists = srv[t].exists /\ srv'[t].key = srv[t].key
  BY <1>1, <1>2, Onward
<1>3. At(s, "upsert")' => Exists(s) /\ srv'[s] # Idle
  <2>1. At(s, "upsert")' => At(s, "exists") /\ srv'[s] # Idle
    BY <1>1, Heads DEF At, Idle
  <2> QED BY <1>1, <2>1 DEF UpsertMemory, DeleteOld, Touch, Unmoved, At
<1>4. CASE Exists(s)
  <2>1. UNCHANGED memories
    BY <1>4 DEF Exists, tables
  <2>2. CASE srv'[s] = Idle
    <3>1. ~At(s, "upsert")'
      BY <2>2 DEF At, Idle
    <3> QED BY <1>1, <1>2, <2>1, <3>1 DEF Looking
  <2>3. CASE srv'[s] # Idle
    <3>1. Begin(s, "memories")
      BY <1>1, <1>4, <2>3 DEF Exists, Finish, Settled, Serving
    <3>2. \A t \in Servers \ {s} : ~At(t, "upsert")
      BY <3>1, HeldMemories DEF Begin
    <3>3. srv'[s].exists = (srv[s].key \in DOMAIN memories)
      BY <1>4, <2>3, StepReads DEF Reads, Exists, Step
    <3>4. srv'[s].key = srv[s].key
      BY <1>1, <2>3 DEF Turn, Same
    <3>5. \A t \in Servers \ {s} : ~At(t, "upsert")'
      BY <1>2, <3>2
    <3>6. srv'[s].exists = (srv'[s].key \in DOMAIN memories')
      BY <2>1, <3>3, <3>4
    <3>7. \A t \in Servers : At(t, "upsert")' => t = s
      BY <3>5
    <3> QED BY <1>1, <3>6, <3>7 DEF Looking
  <2> QED BY <2>2, <2>3
<1>5. CASE UpsertMemory(s)
  <2>1. \A t \in Servers \ {s} : ~At(t, "upsert")
    BY <1>1, <1>5 DEF UpsertMemory, Looking
  <2>2. ~At(s, "upsert")'
    BY <1>3, <1>5 DEF UpsertMemory, Exists, At
  <2>3. \A t \in Servers : ~At(t, "upsert")'
    BY <1>2, <2>1, <2>2
  <2> QED BY <1>1, <2>3 DEF Looking
<1>6. CASE DeleteOld(s)
  <2>1. \A t \in Servers \ {s} : ~At(t, "upsert")
    BY <1>6, HeldMemories DEF DeleteOld, Begin
  <2>2. ~At(s, "upsert")'
    BY <1>3, <1>6 DEF DeleteOld, Exists, At
  <2>3. \A t \in Servers : ~At(t, "upsert")'
    BY <1>2, <2>1, <2>2
  <2> QED BY <1>1, <2>3 DEF Looking
<1>7. CASE Touch(s)
  <2>1. DOMAIN memories' = DOMAIN memories
    BY <1>7 DEF Touch, OnMemories
  <2>2. ~At(s, "upsert")'
    BY <1>3, <1>7 DEF Touch, Exists, At
  <2> QED BY <1>1, <1>2, <2>1, <2>2 DEF Looking
<1>8. CASE Unmoved(s)
  <2>1. ~At(s, "upsert")'
    BY <1>3, <1>8 DEF Unmoved, Exists
  <2> QED BY <1>1, <1>2, <1>8, <2>1 DEF Looking, Unmoved
<1> QED BY <1>1, <1>4, <1>5, <1>6, <1>7, <1>8

\* An upsert ahead comes at once, or after deletions and the look at the key.
LEMMA FirstAhead ==
  ASSUME Settled, NEW s \in Servers, Has(srv[s].steps, {"upsert"}), ~At(s, "upsert")
  PROVE  (At(s, "delete") \/ At(s, "exists")) /\ Len(srv[s].steps) # 1
<1>1. Calling(s)
  BY AheadCalls
<1>2. /\ Len(srv[s].steps) \in Nat /\ Len(srv[s].steps) >= 1 /\ UpsertsFirst(srv[s].steps)
      /\ \A op : At(s, op) <=> srv[s].steps[1][1] = op
      /\ DOMAIN srv[s].steps = 1 .. Len(srv[s].steps)
  BY <1>1, FirstStep, LenProperties
     DEF Settled, Serving, Shapes, ShapedCall, Calling, Shaped
<1>3. PICK i \in DOMAIN srv[s].steps : srv[s].steps[i][1] = "upsert"
  BY DEF Has
<1>4. i # 1 /\ 1 \in DOMAIN srv[s].steps /\ 1 < i
  <2>1. i # 1
    BY <1>2, <1>3
  <2> QED BY <1>2, <2>1
<1>5. srv[s].steps[1][1] \in {"delete", "exists"}
  BY <1>2, <1>3, <1>4 DEF UpsertsFirst
<1>6. Len(srv[s].steps) # 1
  <2>1. i \in 1 .. Len(srv[s].steps) /\ i # 1
    BY <1>2, <1>3, <1>4
  <2> QED BY <2>1
<1> QED BY <1>2, <1>5, <1>6

LEMMA DeletesAhead ==
  ASSUME Settled, NEW s \in Servers, At(s, "delete")
  PROVE  Has(srv[s].steps, {"upsert"})
<1>1. Calling(s)
  BY DEF At, Calling
<1>2. /\ Shaped(srv[s].steps) /\ 1 \in DOMAIN srv[s].steps /\ srv[s].steps[1][1] = "delete"
  BY <1>1, FirstStep, LenProperties DEF Settled, Serving, Shapes, ShapedCall, Calling
<1> QED BY <1>2 DEF Shaped, Has

\* A deletion that has been made good stays so.
LEMMA ConsolidatedByStep ==
  ASSUME Consolidating, "memories" \notin disturbed', faults' = 0, NEW s \in Servers,
         Step(s) \/ CutShort(s) \/ AppendFails(s)
  PROVE  AllConsolidated'
<1> USE DEF Consolidating
<1>1. /\ "memories" \notin disturbed /\ Looking /\ Calling(s) /\ Turn(s) /\ Serving
      /\ Exists(s) \/ UpsertMemory(s) \/ DeleteOld(s) \/ Touch(s) \/ Unmoved(s)
  BY StepTurns, MemorySteps DEF Settled, OpsKept
<1>2. faults = 0 /\ (Unmoved(s) => UNCHANGED faults)
  BY <1>1, MemoryOps DEF Unmoved, Numbered
<1>3. AllConsolidated
  BY <1>1, <1>2
<1>4. ASSUME NEW t \in Servers, Has(srv[t].steps, {"upsert"}), t # s \/ ~UpsertMemory(s)
      PROVE  \/ /\ srv'[t].call = srv[t].call /\ srv'[t].key = srv[t].key
                /\ Has(srv'[t].steps, {"upsert"})
             \/ t = s /\ Exists(s) /\ srv[s].key[1] = ""
  <2>1. CASE t # s
    BY <1>1, <1>4, <2>1, Onward
  <2>2. CASE t = s
    <3>1. ~At(s, "upsert")
        <4>1. CASE Exists(s) \/ DeleteOld(s) \/ Touch(s)
        BY <4>1 DEF Exists, DeleteOld, Touch, At
      <4>2. CASE Unmoved(s)
        BY <1>2, <4>2 DEF Unmoved
      <4> QED BY <1>1, <1>4, <2>2, <4>1, <4>2
    <3>2. CASE srv'[s] # Idle
      <4>1. {"upsert"} \in SUBSET {"observe", "upsert", "touch", "delete"}
        OBVIOUS
      <4>2. Has(srv'[s].steps, {"upsert"})
        BY <1>1, <1>4, <2>2, <3>1, <3>2, <4>1, StepsAhead
      <4> QED BY <1>1, <2>2, <3>2, <4>2 DEF Turn, Same
    <3>3. CASE srv'[s] = Idle
      <4>1. At(s, "delete") \/ At(s, "exists")
        BY <1>1, <1>4, <2>2, <3>1, FirstAhead
      <4>2. Exists(s) \/ DeleteOld(s)
        BY <1>1, <1>2, <3>1, <4>1 DEF UpsertMemory, Touch, Unmoved, Numbered, At
      <4>3. Len(srv[s].steps) # 1
        BY <1>1, <1>4, <2>2, <3>1, FirstAhead
      <4>4. ASSUME NEW read, DOMAIN read = DOMAIN Idle, read.steps = srv[s].steps, Proceed(s, read)
            PROVE  FALSE
        <5>1. Rest(srv'[s].steps, srv[s].steps, 1)
          BY <1>1, <4>3, <4>4, ProceedTurns
        <5> QED BY <3>3, <5>1 DEF Rest, Idle
      <4>5. ~Proceed(s, srv[s]) /\ \A v : ~Proceed(s, [srv[s] EXCEPT !.exists = v])
        BY <1>1, <4>4 DEF Serving, Idle
      <4> QED BY <2>2, <4>2, <4>5 DEF Exists, DeleteOld
    <3> QED BY <3>2, <3>3
  <2> QED BY <2>1, <2>2
<1>5. ASSUME NEW i \in DOMAIN Ops, Ops[i].do = "delete", i \in DOMAIN Ops', Ops'[i] = Ops[i],
             Ops' = Ops \/ \E op : /\ Performing(op) /\ op.by = srv[s].call
                                   /\ op.do = "delete" => DeleteOld(s)
      PROVE  Consolidated(i)'
  <2>1. CASE Ops[i].new[1] = ""
    BY <1>5, <2>1 DEF Consolidated
  <2>2. ASSUME NEW t \in Servers, srv[t].call = Ops[i].by, srv[t].key = Ops[i].new,
               Has(srv[t].steps, {"upsert"})
        PROVE  Consolidated(i)'
    <3>1. CASE t # s \/ ~UpsertMemory(s)
      BY <1>4, <1>5, <2>1, <2>2, <3>1 DEF Consolidated
    <3>2. CASE t = s /\ UpsertMemory(s)
      <4>1. PICK op : Performing(op) /\ op.by = srv[s].call /\ op.do = "put"
        BY <1>1, <3>2, MemoryOps DEF UpsertMemory, Looking
      <4>2. Len(Ops') \in DOMAIN Ops' /\ \A k \in Len(Ops') .. Len(Ops') : k = Len(Ops')
        BY <4>1 DEF Performing
      <4> QED BY <1>5, <2>2, <3>2, <4>1, <4>2 DEF Consolidated, Performing
    <3> QED BY <3>1, <3>2
  <2>3. ASSUME NEW j \in DOMAIN Ops, Ops[j].do = "put", Ops[j].by = Ops[i].by,
               \A k \in j .. Len(Ops) : Ops[k].do = "delete" => Ops[k].by # Ops[i].by
        PROVE  Consolidated(i)'
    <3>1. CASE Ops' = Ops
      BY <1>5, <2>3, <3>1 DEF Consolidated
    <3>2. ASSUME NEW op, Performing(op), op.by = srv[s].call, op.do = "delete" => DeleteOld(s)
          PROVE  Consolidated(i)'
      <4>1. op.do = "delete" => op.by # Ops[i].by
        <5>1. DeleteOld(s) => Has(srv[s].steps, {"upsert"})
          BY <1>1, DeletesAhead DEF DeleteOld
        <5> QED BY <2>3, <3>2, <5>1 DEF OpsKept
      <4>2. ASSUME NEW k \in j .. Len(Ops'), Ops'[k].do = "delete"
            PROVE  Ops'[k].by # Ops[i].by
        <5>1. CASE k = Len(Ops')
          BY <3>2, <4>1, <4>2, <5>1 DEF Performing
        <5>2. CASE k # Len(Ops')
          <6>1. k \in j .. Len(Ops) /\ k \in DOMAIN Ops
            BY <3>2, <5>2 DEF Performing
          <6> QED BY <2>3, <3>2, <4>2, <6>1 DEF Performing
        <5> QED BY <5>1, <5>2
      <4>3. j \in DOMAIN Ops' /\ Ops'[j] = Ops[j]
        BY <3>2 DEF Performing
      <4> QED BY <1>5, <2>3, <4>2, <4>3 DEF Consolidated
    <3> QED BY <1>5, <3>1, <3>2
  <2> QED BY <1>3, <1>5, <2>1, <2>2, <2>3 DEF AllConsolidated, Consolidated
<1>6. CASE Ops' = Ops
  BY <1>5, <1>6 DEF AllConsolidated
<1>7. ASSUME NEW op, Performing(op), op.by = srv[s].call,
             op.do = "delete" => DeleteOld(s) /\ op.new = srv[s].key
      PROVE  AllConsolidated'
  <2> SUFFICES ASSUME NEW i \in DOMAIN Ops', Ops'[i].do = "delete"
               PROVE  Consolidated(i)'
    BY DEF AllConsolidated
  <2>1. CASE i \in DOMAIN Ops
    BY <1>5, <1>7, <2>1 DEF Performing
  <2>2. CASE i = Len(Ops')
    <3>1. Ops'[i] = op /\ DeleteOld(s)
      BY <1>7, <2>2 DEF Performing
    <3>2. Has(srv[s].steps, {"upsert"}) /\ ~UpsertMemory(s) /\ ~Exists(s)
      BY <1>1, <3>1, DeletesAhead DEF DeleteOld, UpsertMemory, Exists, At
    <3> QED BY <1>4, <1>7, <3>1, <3>2 DEF Consolidated
  <2> QED BY <1>7, <2>1, <2>2 DEF Performing
<1> QED BY <1>1, <1>6, <1>7, MemoryOps DEF Unmoved

LEMMA ConsolidatingByCall ==
  ASSUME Consolidating, NEW s \in Servers, NEW request \in menu.requests, Call(s, request)
  PROVE  Consolidating'
<1> USE DEF Consolidating
<1>1. /\ Settled' /\ Called(s, request) /\ ~Calling(s) /\ Serving
      /\ calls' = calls + 1 /\ UNCHANGED <<memories, performed, disturbed, faults>> /\ Ops' = Ops
  <2>1. [Next]_vars
    BY DEF Next
  <2>2. Settled'
    BY <2>1, StillSettled
  <2> QED BY <2>2, CallShaped DEF Settled, Call, tables, ghosts, Ops
<1>2. \A t \in Servers \ {s} : srv'[t] = srv[t]
  BY <1>1 DEF Called
<1>3. Calling(s)' => srv'[s].call = calls + 1
  <2>1. CASE srv'[s] = Idle
    BY <2>1 DEF Calling, Idle
  <2>2. CASE srv'[s] = [Idle EXCEPT !.request = request, !.call = calls + 1,
                                    !.key = KeyOf(request), !.steps = Program(request)]
    BY <2>2 DEF Idle
  <2> QED BY <1>1, <2>1, <2>2 DEF Called
<1>4. ~At(s, "upsert")'
  BY CallShaped DEF Settled, Firsts
<1>5. calls \in Nat /\ calls' \in Nat /\ calls < calls'
  BY <1>1 DEF Numbered
<1>6. Numbered'
  <2>1. ASSUME NEW t \in Servers \ {s}, Calling(t)'
        PROVE  Calling(t) /\ srv'[t].call = srv[t].call /\ srv'[t].call \in 1 .. calls
    BY <1>2, <2>1 DEF Calling, Numbered
  <2>2. \A t \in Servers \ {s} : Calling(t)' => srv'[t].call < calls'
    BY <1>1, <1>5, <2>1
  <2>3. \A t \in Servers : Calling(t)' => srv'[t].call \in 1 .. calls'
    BY <1>1, <1>3, <1>5, <2>1
  <2>4. \A t \in Servers \ {s} : Calling(t)' /\ Calling(s)' => srv'[t].call # srv'[s].call
    BY <1>1, <1>3, <1>5, <2>2, <2>3
  <2>5. \A t, u \in Servers \ {s} : Calling(t)' /\ Calling(u)' /\ srv'[t].call = srv'[u].call
          => t = u
    BY <2>1 DEF Numbered
  <2> QED BY <1>1, <1>5, <2>3, <2>4, <2>5 DEF Numbered
<1>7. OpsKept'
  <2>1. \A i \in DOMAIN Ops : Ops[i].by \in 1 .. calls' /\ Ops[i].by # calls + 1
    BY <1>1, <1>5 DEF OpsKept
  <2>2. ASSUME NEW t \in Servers, Has(srv'[t].steps, {"upsert"}), NEW i \in DOMAIN Ops,
               Ops[i].do = "put"
        PROVE  Ops[i].by # srv'[t].call
    <3>1. CASE t = s
      <4>1. Calling(s)'
        BY <2>2, <3>1 DEF Has, Calling
      <4> QED BY <1>3, <2>1, <3>1, <4>1
    <3>2. CASE t # s
      BY <1>2, <2>2, <3>2 DEF OpsKept
    <3> QED BY <3>1, <3>2
  <2> QED BY <1>1, <2>1, <2>2 DEF OpsKept
<1>8. Looking => Looking'
  BY <1>1, <1>2, <1>4 DEF Looking, At
<1>9. AllConsolidated => AllConsolidated'
  <2> SUFFICES ASSUME NEW i \in DOMAIN Ops, Consolidated(i)
               PROVE  Consolidated(i)'
    BY <1>1 DEF AllConsolidated
  <2>1. ASSUME NEW t \in Servers, Has(srv[t].steps, {"upsert"})
        PROVE  srv'[t] = srv[t]
    BY <1>1, <1>2, <2>1, AheadCalls
  <2> QED BY <1>1, <2>1 DEF Consolidated
<1> QED BY <1>1, <1>6, <1>7, <1>8, <1>9

LEMMA ConsolidatingAlways == Spec => []Consolidating
<1>1. Init => Consolidating
  <2> SUFFICES ASSUME Init
               PROVE  Consolidating
    OBVIOUS
  <2>1. Settled
    BY Begun
  <2>2. \A s \in Servers : ~Calling(s) /\ ~Has(srv[s].steps, {"upsert"}) /\ ~At(s, "upsert")
    BY DEF Init, Idle, Calling, Has, At
  <2>3. Ops = <<>> /\ DOMAIN performed = Files \cup {"memories"} /\ calls = 0 /\ faults = 0
    BY DEF Init, Ops
  <2>4. Numbered /\ Looking
    BY <2>2, <2>3 DEF Numbered, Looking
  <2>5. OpsKept /\ AllConsolidated
    <3>1. <<>> \in Seq({}) /\ DOMAIN <<>> = {}
      OBVIOUS
    <3> QED BY <2>2, <2>3, <3>1 DEF OpsKept, AllConsolidated
  <2> QED BY <2>1, <2>4, <2>5 DEF Consolidating
<1>2. Consolidating /\ [Next]_vars => Consolidating'
  <2> SUFFICES ASSUME Consolidating, [Next]_vars
               PROVE  Consolidating'
    OBVIOUS
  <2>1. CASE UNCHANGED vars \/ Tick \/ \E d \in Docs : EditDoc(d)
    <3>1. UNCHANGED <<menu, srv, memories, calls, faults, performed, disturbed>>
      BY <2>1 DEF vars, Tick, EditDoc, tables, ghosts
    <3>2. Ops' = Ops
      BY <3>1 DEF Ops
    <3>3. Settled' /\ Numbered' /\ OpsKept'
      BY <3>1, <3>2, StillSettled DEF Consolidating, Numbered, OpsKept, Calling
    <3>4. Looking => Looking'
      BY <3>1 DEF Looking, At
    <3>5. AllConsolidated => AllConsolidated'
      <4>1. \A i : Consolidated(i) => Consolidated(i)'
        BY <3>1, <3>2 DEF Consolidated
      <4> QED BY <3>2, <4>1 DEF AllConsolidated
    <3> QED BY <3>1, <3>3, <3>4, <3>5 DEF Consolidating
  <2>2. ASSUME NEW s \in Servers, NEW request \in menu.requests, Call(s, request)
        PROVE  Consolidating'
    BY <2>2, ConsolidatingByCall
  <2>3. ASSUME NEW s \in Servers, Step(s) \/ CutShort(s) \/ AppendFails(s)
        PROVE  Consolidating'
    <3>1. Settled' /\ Numbered' /\ OpsKept'
      BY <2>3, StillSettled, NumberedByStep, OpsByStep DEF Consolidating, OpsKept
    <3> QED BY <2>3, <3>1, LookingByStep, ConsolidatedByStep DEF Consolidating
  <2> QED BY <2>1, <2>2, <2>3 DEF Next
<1> QED BY <1>1, <1>2, PTL DEF Spec

\* A consolidation that is over, was not cut short and did not lose its key to
\* another server has written the consolidated memory and left it there
\* (consolidate_memory deletes first).
THEOREM ConsolidationsKeep == Spec => []ConsolidationsKeepMemory
<1>1. Consolidating => ConsolidationsKeepMemory
  <2> SUFFICES ASSUME Consolidating, faults = 0, Undisturbed("memories")
               PROVE  LET ops == performed["memories"]
                      IN \A i \in DOMAIN ops : ops[i].do = "delete" =>
                           \/ \E s \in Servers : srv[s].call = ops[i].by
                           \/ ops[i].new[1] = ""
                           \/ \E j \in DOMAIN ops :
                                /\ ops[j].do = "put" /\ ops[j].by = ops[i].by
                                /\ \A k \in j .. Len(ops) :
                                      ops[k].do = "delete" /\ ops[k].by = ops[i].by
                                                               => ops[k].key # ops[j].key
    BY DEF ConsolidationsKeepMemory
  <2>1. AllConsolidated
    BY DEF Consolidating, Undisturbed
  <2>2. ASSUME NEW i \in DOMAIN Ops, Ops[i].do = "delete"
        PROVE  \/ \E s \in Servers : srv[s].call = Ops[i].by
               \/ Ops[i].new[1] = ""
               \/ \E j \in DOMAIN Ops :
                    /\ Ops[j].do = "put" /\ Ops[j].by = Ops[i].by
                    /\ \A k \in j .. Len(Ops) : Ops[k].do = "delete" /\ Ops[k].by = Ops[i].by
                                                   => Ops[k].key # Ops[j].key
    <3>1. Consolidated(i)
      BY <2>1, <2>2 DEF AllConsolidated
    <3>2. ASSUME NEW j \in DOMAIN Ops, Ops[j].do = "put", Ops[j].by = Ops[i].by,
                 \A k \in j .. Len(Ops) : Ops[k].do = "delete" => Ops[k].by # Ops[i].by
          PROVE  \A k \in j .. Len(Ops) : Ops[k].do = "delete" /\ Ops[k].by = Ops[i].by
                                            => Ops[k].key # Ops[j].key
      BY <3>2
    <3> QED BY <3>1, <3>2 DEF Consolidated
  <2> QED BY <2>2 DEF Ops
<1> QED BY <1>1, ConsolidatingAlways, PTL

-----------------------------------------------------------------------------
(***************************************************************************)
(* What the operators return.                                              *)
(***************************************************************************)
LEMMA LeastOf ==
  ASSUME NEW T \in SUBSET Nat, T # {}
  PROVE  \E n \in T : \A m \in T : n <= m
<1> DEFINE R == OpToRel(<, Nat)
<1>1. IsWellFoundedOn(R, Nat)
  BY NatLessThanWellFounded
<1> HIDE DEF R
<1>2. PICK n \in T : \A m \in T : ~(<<m, n>> \in R)
  BY <1>1, WFMin
<1>3. \A m \in Nat : m < n => <<m, n>> \in R
  BY DEF R, OpToRel
<1>4. ASSUME NEW m \in T
      PROVE  n <= m
  <2>1. n \in Nat /\ m \in Nat
    OBVIOUS
  <2>2. ~(m < n)
    BY <1>2, <1>3, <2>1
  <2> QED BY <2>1, <2>2
<1> QED BY <1>4

\* The ids of todo items have a largest one.
LEMMA NextIdType ==
  ASSUME NEW todos \in Seq(TodoItem)
  PROVE  NextId(todos) \in Nat
<1> DEFINE n == Len(todos)
           id(i) == todos[i].id
           Bounds(m) == {b \in Nat : \A i \in 1 .. m : id(i) <= b}
           Unbounded == {m \in 0 .. n : Bounds(m) = {}}
           ids == {0} \cup {id(i) : i \in DOMAIN todos}
<1>1. n \in Nat /\ DOMAIN todos = 1 .. n /\ \A i \in 1 .. n : id(i) \in Nat
  <2>1. n \in Nat /\ DOMAIN todos = 1 .. n /\ \A i \in 1 .. n : todos[i] \in TodoItem
    BY ElementOfSeq, LenProperties
  <2> QED BY <2>1 DEF TodoItem
<1> HIDE DEF n, id
<1>2. Unbounded = {}
  <2> SUFFICES ASSUME Unbounded # {}
               PROVE  FALSE
    OBVIOUS
  <2>1. Unbounded \in SUBSET Nat
    BY <1>1
  <2> HIDE DEF Unbounded
  <2>2. PICK m \in Unbounded : \A k \in Unbounded : m <= k
    BY <2>1, LeastOf
  <2>3. m \in 0 .. n /\ m \in Nat /\ Bounds(m) = {}
    BY <2>1 DEF Unbounded
  <2>4. m # 0
    <3>1. 0 \in Bounds(0)
      OBVIOUS
    <3> QED BY <2>3, <3>1
  <2>5. m - 1 \in 0 .. n /\ m - 1 \notin Unbounded
    BY <1>1, <2>2, <2>3, <2>4
  <2>6. PICK b : b \in Bounds(m - 1)
    BY <2>5 DEF Unbounded
  <2>7. id(m) \in Nat
    BY <1>1, <2>3, <2>4
  <2>8. (IF b <= id(m) THEN id(m) ELSE b) \in Bounds(m)
    <3>1. ASSUME NEW i \in 1 .. m
          PROVE  id(i) <= IF b <= id(m) THEN id(m) ELSE b
      <4>1. b \in Nat /\ id(i) \in Nat
        BY <1>1, <2>3, <2>6
      <4>2. i = m \/ id(i) <= b
        BY <2>3, <2>6
      <4> QED BY <2>7, <4>1, <4>2
    <3> QED BY <2>6, <2>7, <3>1
  <2> QED BY <2>3, <2>8
<1>3. Bounds(n) # {} /\ Bounds(n) \in SUBSET Nat
  <2>1. n \in 0 .. n
    BY <1>1
  <2> QED BY <1>2, <2>1
<1>4. PICK b \in Bounds(n) : \A c \in Bounds(n) : b <= c
  BY <1>3, LeastOf
<1>5. b \in Nat /\ \A i \in 1 .. n : id(i) <= b
  OBVIOUS
<1>6. b \in ids
  <2> SUFFICES ASSUME b \notin ids
               PROVE  FALSE
    OBVIOUS
  <2>1. b - 1 \in Nat /\ \A i \in 1 .. n : id(i) <= b - 1
    BY <1>1, <1>5
  <2>2. b - 1 \in Bounds(n)
    BY <2>1
  <2> QED BY <1>4, <1>5, <2>2
<1>7. ids \subseteq Nat /\ \A c \in ids : b >= c
  BY <1>1, <1>5
<1> HIDE DEF ids
<1>8. Max(ids) \in ids
  BY <1>6, <1>7 DEF Max
<1>9. \E m \in Nat : Max(ids) = m
  BY <1>7, <1>8
<1> QED BY <1>9 DEF NextId, ids, id

LEMMA TodoType ==
  ASSUME NEW todos \in Seq(TodoItem), NEW request
  PROVE  Todo(todos, request) \in Seq(TodoItem)
<1>1. Len(todos) \in Nat
  BY LenProperties
<1>2. CASE request.action = "add"
  <2>1. [id |-> NextId(todos), done |-> FALSE] \in TodoItem
    BY NextIdType DEF TodoItem
  <2>2. Todo(todos, request) = Append(todos, [id |-> NextId(todos), done |-> FALSE])
    BY <1>2 DEF Todo
  <2> QED BY <2>1, <2>2, AppendProperties
<1>3. CASE request.action = "check"
  <2> DEFINE item(i) == IF todos[i].id = request.id
                        THEN [todos[i] EXCEPT !.done = TRUE] ELSE todos[i]
  <2>1. \A i \in 1 .. Len(todos) : item(i) \in TodoItem
    <3>1. \A i \in 1 .. Len(todos) : todos[i] \in TodoItem
      BY ElementOfSeq
    <3>2. \A todo \in TodoItem : [todo EXCEPT !.done = TRUE] \in TodoItem
      BY DEF TodoItem
    <3> QED BY <3>1, <3>2
  <2>2. Todo(todos, request) = [i \in 1 .. Len(todos) |-> item(i)]
    BY <1>3 DEF Todo
  <2> HIDE DEF item
  <2>3. [i \in 1 .. Len(todos) |-> item(i)] \in Seq(TodoItem)
    BY <1>1, <2>1, IsASeq
  <2> QED BY <2>2, <2>3
<1>4. CASE request.action = "clear"
  BY <1>4, EmptySeq DEF Todo
<1>5. CASE request.action \notin {"add", "check", "clear"}
  BY <1>5 DEF Todo
<1> QED BY <1>2, <1>3, <1>4, <1>5

LEMMA ReplaceType ==
  ASSUME NEW text \in Seq(Blocks), NEW request, request.new \in Blocks
  PROVE  Replace(text, request) \in Seq(Blocks)
<1>1. \A x : [text EXCEPT ![x] = request.new] \in Seq(Blocks)
  <2> TAKE x
  <2>1. CASE x \in 1 .. Len(text)
    BY <2>1, ExceptSeq
  <2>2. CASE x \notin 1 .. Len(text)
    <3>1. DOMAIN text = 1 .. Len(text) /\ text \in [1 .. Len(text) -> Blocks]
      BY LenProperties
    <3>2. [text EXCEPT ![x] = request.new] = text
      BY <2>2, <3>1
    <3> QED BY <3>2
  <2> QED BY <2>1, <2>2
<1> QED BY <1>1 DEF Replace

LEMMA OverlayType ==
  ASSUME NEW S, NEW lines \in Seq(S), NEW old \in Seq(S)
  PROVE  Overlay(lines, old) \in Seq(S)
<1>1. Len(lines) \in Nat /\ Len(old) \in Nat
  BY LenProperties
<1>2. \A i \in Len(lines) + 1 .. Len(old) : old[i] \in S
  <2>1. \A i \in Len(lines) + 1 .. Len(old) : i \in 1 .. Len(old)
    BY <1>1
  <2> QED BY <2>1, ElementOfSeq
<1>3. SubSeq(old, Len(lines) + 1, Len(old)) \in Seq(S)
  BY <1>1, <1>2, SubSeqProperties
<1> QED BY <1>3, ConcatProperties DEF Overlay

\* The lines the hook adds to the inbox.
LEMMA NewLinesType ==
  ASSUME NEW m \in Nat, NEW n \in Nat
  PROVE  [i \in 1 .. n - m |-> [kind |-> "observation", id |-> m + i]] \in Seq(LogLine)
<1> DEFINE line(i) == [kind |-> "observation", id |-> m + i]
<1>1. \A i \in Nat : line(i) \in LogLine
  BY DEF LogLine
<1>2. \E k \in Nat : 1 .. n - m = 1 .. k
  <2>1. CASE m <= n
    <3>1. n - m \in Nat
      BY <2>1
    <3> QED BY <3>1
  <2>2. CASE n < m
    <3>1. 1 .. n - m = 1 .. 0
      BY <2>2
    <3> QED BY <3>1
  <2> QED BY <2>1, <2>2
<1>3. PICK k \in Nat : 1 .. n - m = 1 .. k
  BY <1>2
<1>4. \A i \in 1 .. k : line(i) \in LogLine
  BY <1>1
<1> HIDE DEF line
<1>5. [i \in 1 .. k |-> line(i)] \in Seq(LogLine)
  BY <1>4, IsASeq
<1> QED BY <1>3, <1>5 DEF line

-----------------------------------------------------------------------------
(***************************************************************************)
(* The types.  A call saves one observation at most and counts one access  *)
(* at most: what has been counted and what is yet to be is no more than    *)
(* there have been calls.                                                  *)
(***************************************************************************)
Going(ops) == {s \in Servers : Has(srv[s].steps, ops)}

Counted ==
  /\ observations + Cardinality(Going({"observe"})) <= calls
  /\ Cardinality(Going({"upsert", "touch"})) <= calls
  /\ \A k \in DOMAIN memories :
       memories[k].hits + Cardinality(Going({"upsert", "touch"})) <= calls

MemoriesUpTo(m, n) ==
  /\ m = [k \in DOMAIN m |-> m[k]]
  /\ \A k \in DOMAIN m : m[k] \in [by : 0 .. n, hits : Nat]

Tabled ==
  /\ Counted /\ MemoriesUpTo(memories, calls)
  /\ \A c \in contracts : c.by \in 1 .. calls

LEMMA OnMemoriesType ==
  ASSUME NEW n \in Nat, NEW m, MemoriesUpTo(m, n), NEW op, op.by \in 0 .. n,
         op.do \in {"put", "delete", "touch"}
  PROVE  /\ MemoriesUpTo(OnMemories(m, op), n)
         /\ \A k \in DOMAIN OnMemories(m, op) :
              \/ OnMemories(m, op)[k].hits = 0
              \/ k \in DOMAIN m /\ OnMemories(m, op)[k].hits = m[k].hits
              \/ /\ k \in DOMAIN m /\ op.do # "delete"
                 /\ OnMemories(m, op)[k].hits = m[k].hits + 1
<1>1. \A k \in DOMAIN m : m[k].by \in 0 .. n /\ m[k].hits \in Nat
                          /\ m[k] = [by |-> m[k].by, hits |-> m[k].hits]
  BY DEF MemoriesUpTo
<1>2. CASE op.do = "put"
  <2> DEFINE new(k) == IF k # op.key THEN m[k]
                       ELSE [by   |-> op.by,
                             hits |-> IF k \in DOMAIN m THEN m[k].hits + 1 ELSE 0]
  <2>1. OnMemories(m, op) = [k \in DOMAIN m \cup {op.key} |-> new(k)]
    BY <1>2 DEF OnMemories
  <2>2. \A k \in DOMAIN m \cup {op.key} :
          /\ new(k) \in [by : 0 .. n, hits : Nat]
          /\ \/ new(k).hits = 0
             \/ k \in DOMAIN m /\ new(k).hits = m[k].hits
             \/ k \in DOMAIN m /\ new(k).hits = m[k].hits + 1
    BY <1>1
  <2> HIDE DEF new
  <2> QED BY <1>2, <2>1, <2>2 DEF MemoriesUpTo
<1>3. CASE op.do = "delete"
  <2>1. OnMemories(m, op) = [k \in DOMAIN m \ {op.key} |-> m[k]]
    BY <1>3 DEF OnMemories
  <2> QED BY <2>1 DEF MemoriesUpTo
<1>4. CASE op.do = "touch"
  <2> DEFINE new(k) == IF k = op.key THEN [m[k] EXCEPT !.hits = m[k].hits + 1] ELSE m[k]
  <2>1. OnMemories(m, op) = [k \in DOMAIN m |-> new(k)]
    BY <1>4 DEF OnMemories
  <2>2. \A k \in DOMAIN m : /\ new(k) \in [by : 0 .. n, hits : Nat]
                            /\ new(k).hits = m[k].hits \/ new(k).hits = m[k].hits + 1
    <3>1. \A r \in [by : 0 .. n, hits : Nat] :
            /\ [r EXCEPT !.hits = r.hits + 1] \in [by : 0 .. n, hits : Nat]
            /\ [r EXCEPT !.hits = r.hits + 1].hits = r.hits + 1
      OBVIOUS
    <3> QED BY <3>1 DEF MemoriesUpTo
  <2> HIDE DEF new
  <2> QED BY <1>4, <2>1, <2>2 DEF MemoriesUpTo
<1> QED BY <1>2, <1>3, <1>4

LEMMA GoingOn ==
  ASSUME Settled, NEW s \in Servers, Calling(s), Turn(s),
         NEW ops \in SUBSET {"observe", "upsert", "touch", "delete"}
  PROVE  /\ Cardinality(Going(ops)) \in Nat /\ Cardinality(Going(ops)') \in Nat
         /\ Cardinality(Going(ops)') <= Cardinality(Going(ops))
         /\ \A op \in ops : At(s, op) /\ Once(srv[s].steps, ops) =>
              Cardinality(Going(ops)') + 1 <= Cardinality(Going(ops))
<1>1. IsFiniteSet(Servers)
  BY McAssumption
<1>2. Going(ops) \in SUBSET Servers /\ IsFiniteSet(Going(ops)) /\ Cardinality(Going(ops)) \in Nat
  <2>1. Going(ops) \in SUBSET Servers
    BY DEF Going
  <2> QED BY <1>1, <2>1, FS_Subset, FS_CardinalityType
<1>3. Going(ops)' \in SUBSET Going(ops)
  <2>1. \A t \in Servers : Has(srv'[t].steps, ops) => Has(srv[t].steps, ops)
    BY Onward, StepsAhead
  <2> QED BY <2>1 DEF Going
<1>4. Cardinality(Going(ops)') \in Nat /\ Cardinality(Going(ops)') <= Cardinality(Going(ops))
  BY <1>2, <1>3, FS_Subset, FS_CardinalityType
<1>5. ASSUME NEW op \in ops, At(s, op), Once(srv[s].steps, ops)
      PROVE  Cardinality(Going(ops)') + 1 <= Cardinality(Going(ops))
  <2>1. s \in Going(ops)
    <3>1. 1 \in DOMAIN srv[s].steps /\ srv[s].steps[1][1] = op
      BY <1>5, FirstStep, LenProperties DEF Settled, Serving
    <3> QED BY <3>1 DEF Going, Has
  <2>2. s \notin Going(ops)'
    BY <1>5, StepsAhead DEF Going
  <2>3. Going(ops)' \in SUBSET (Going(ops) \ {s})
    BY <1>3, <2>2
  <2>4. /\ IsFiniteSet(Going(ops) \ {s})
        /\ Cardinality(Going(ops) \ {s}) = Cardinality(Going(ops)) - 1
    BY <1>2, <2>1, FS_RemoveElement
  <2>5. Cardinality(Going(ops)') <= Cardinality(Going(ops) \ {s})
    BY <2>3, <2>4, FS_Subset
  <2> QED BY <1>2, <1>4, <2>4, <2>5
<1> QED BY <1>2, <1>4, <1>5

LEMMA TabledByStep ==
  ASSUME Consolidating, Extracted, Tabled, NEW s \in Servers,
         Step(s) \/ CutShort(s) \/ AppendFails(s)
  PROVE  Tabled'
<1> DEFINE counts == Cardinality(Going({"upsert", "touch"}))
           saves == Cardinality(Going({"observe"}))
<1>1. /\ Settled /\ Calling(s) /\ Turn(s) /\ UNCHANGED calls /\ calls \in Nat
      /\ srv[s].call \in 1 .. calls /\ observations \in Nat
  BY StepTurns, MemorySteps DEF Consolidating, Settled, OpsKept, Numbered, Extracted, IdsRead
<1>2. /\ Once(srv[s].steps, {"observe"}) /\ Once(srv[s].steps, {"upsert", "touch"})
  BY <1>1 DEF Settled, Shapes, ShapedCall, Shaped, Calling
<1>3. /\ saves \in Nat /\ saves' \in Nat /\ saves' <= saves
      /\ At(s, "observe") => saves' + 1 <= saves
  BY <1>1, <1>2, GoingOn
<1>4. /\ counts \in Nat /\ counts' \in Nat /\ counts' <= counts
      /\ At(s, "upsert") \/ At(s, "touch") => counts' + 1 <= counts
  BY <1>1, <1>2, GoingOn
<1> HIDE DEF saves, counts
<1>5. observations' + saves' <= calls'
  <2>1. observations + saves <= calls
    BY DEF Tabled, Counted, saves
  <2>2. observations' = observations \/ (At(s, "observe") /\ observations' = observations + 1)
    BY IdsChange
  <2>3. calls' = calls /\ calls \in Nat /\ observations \in Nat
    BY <1>1
  <2>4. CASE observations' = observations
    <3>1. \A o, v, w, c \in Nat : o + v <= c /\ w <= v => o + w <= c
      OBVIOUS
    <3>2. saves \in Nat /\ saves' \in Nat /\ saves' <= saves
      BY <1>3
    <3> QED BY <2>1, <2>3, <2>4, <3>1, <3>2
  <2>5. CASE At(s, "observe") /\ observations' = observations + 1
    <3>1. saves' + 1 <= saves
      BY <1>3, <2>5
    <3>2. \A o, v, w, c \in Nat : o + v <= c /\ w + 1 <= v => (o + 1) + w <= c
      OBVIOUS
    <3>3. saves \in Nat /\ saves' \in Nat
      BY <1>3
    <3> QED BY <2>1, <2>3, <2>5, <3>1, <3>2, <3>3
  <2> QED BY <2>2, <2>4, <2>5
<1>6. counts <= calls /\ \A k \in DOMAIN memories : memories[k].hits + counts <= calls
  BY DEF Tabled, Counted, counts
<1>7. /\ MemoriesUpTo(memories', calls)
      /\ \A k \in DOMAIN memories' : memories'[k].hits + counts' <= calls
  <2>1. CASE memories' = memories
    <3>1. \A k \in DOMAIN memories : memories[k].hits \in Nat
      BY DEF Tabled, MemoriesUpTo
    <3> QED BY <1>1, <1>4, <1>6, <2>1, <3>1 DEF Tabled
  <2>2. ASSUME NEW op, memories' = OnMemories(memories, op), op.by = srv[s].call,
               op.do \in {"put", "delete", "touch"},
               op.do # "delete" => At(s, "upsert") \/ At(s, "touch")
        PROVE  /\ MemoriesUpTo(memories', calls)
               /\ \A k \in DOMAIN memories' : memories'[k].hits + counts' <= calls
    <3>1. MemoriesUpTo(memories, calls) /\ op.by \in 0 .. calls
      BY <1>1, <2>2 DEF Tabled
    <3>2. /\ MemoriesUpTo(memories', calls)
          /\ \A k \in DOMAIN memories' :
               \/ memories'[k].hits = 0
               \/ k \in DOMAIN memories /\ memories'[k].hits = memories[k].hits
               \/ /\ k \in DOMAIN memories /\ op.do # "delete"
                  /\ memories'[k].hits = memories[k].hits + 1
      BY <1>1, <2>2, <3>1, OnMemoriesType
    <3>3. \A k \in DOMAIN memories : memories[k].hits \in Nat
      BY DEF Tabled, MemoriesUpTo
    <3>4. ASSUME NEW k \in DOMAIN memories'
          PROVE  memories'[k].hits + counts' <= calls
      <4>1. CASE memories'[k].hits = 0
        BY <1>1, <1>4, <1>6, <4>1
      <4>2. CASE k \in DOMAIN memories /\ memories'[k].hits = memories[k].hits
        BY <1>1, <1>4, <1>6, <3>3, <4>2
      <4>3. CASE /\ k \in DOMAIN memories /\ op.do # "delete"
                 /\ memories'[k].hits = memories[k].hits + 1
        <5>1. /\ counts' + 1 <= counts /\ memories[k].hits + counts <= calls
              /\ memories[k].hits \in Nat
          BY <1>4, <1>6, <2>2, <3>3, <4>3
        <5>2. calls \in Nat /\ counts \in Nat /\ counts' \in Nat
          BY <1>1, <1>4
        <5>3. \A a, b, c, n \in Nat : b + 1 <= a /\ n + a <= c => (n + 1) + b <= c
          OBVIOUS
        <5>4. memories[k].hits + 1 + counts' <= calls
          BY <5>1, <5>2, <5>3
        <5> QED BY <4>3, <5>4
      <4> QED BY <3>2, <4>1, <4>2, <4>3
    <3> QED BY <3>2, <3>4
  <2>3. CASE UpsertMemory(s)
    <3> DEFINE put == [do |-> "put", key |-> srv[s].key, by |-> srv[s].call]
    <3>1. At(s, "upsert") /\ (memories' = OnMemories(memories, put) \/ memories' = memories)
      BY <2>3 DEF UpsertMemory
    <3>2. put.by = srv[s].call /\ put.do = "put"
      OBVIOUS
    <3> HIDE DEF put
    <3> QED BY <2>1, <2>2, <3>1, <3>2
  <2>4. CASE DeleteOld(s)
    <3>1. PICK key : memories' = OnMemories(memories, [do |-> "delete", key |-> key,
                                   by |-> srv[s].call, new |-> srv[s].key])
      BY <2>4 DEF DeleteOld
    <3> DEFINE op == [do |-> "delete", key |-> key, by |-> srv[s].call, new |-> srv[s].key]
    <3>2. memories' = OnMemories(memories, op) /\ op.by = srv[s].call /\ op.do = "delete"
      BY <3>1
    <3> HIDE DEF op
    <3> QED BY <2>2, <3>2
  <2>5. CASE Touch(s)
    <3> DEFINE op == [do |-> "touch", key |-> srv[s].key, by |-> srv[s].call]
    <3>1. At(s, "touch") /\ memories' = OnMemories(memories, op)
      BY <2>5 DEF Touch
    <3>2. op.by = srv[s].call /\ op.do = "touch"
      OBVIOUS
    <3> HIDE DEF op
    <3> QED BY <2>2, <3>1, <3>2
  <2>6. CASE Exists(s) \/ Unmoved(s)
    BY <2>1, <2>6 DEF Exists, tables, Unmoved
  <2> QED BY <1>1, <2>3, <2>4, <2>5, <2>6, MemorySteps DEF Consolidating, OpsKept
<1>8. \A c \in contracts' : c \in contracts \/ c.by = srv[s].call
  <2>1. CASE CutShort(s) \/ AppendFails(s)
    BY <2>1 DEF CutShort, AppendFails, disk
  <2>2. CASE Step(s) /\ ~WriteContract(s)
    BY <2>2 DEF Step, SaveObservation, ReadLast, SelectRows, ReadInbox, Truncate, Write,
         SaveExtracted, Load, CheckSize, Rename, AppendLine, Exists, UpsertMemory, DeleteOld, Find,
         Touch, FindEvent, RecordEvent, ScanDoc, StoreDoc, CacheDoc, ListStale,
         ForgetDoc, UncacheDoc, disk
  <2>3. CASE WriteContract(s)
    BY <2>3 DEF WriteContract
  <2> QED BY <2>1, <2>2, <2>3
<1>9. \A c \in contracts' : c.by \in 1 .. calls'
  BY <1>1, <1>8 DEF Tabled
<1>10. Counted'
  <2>1. counts' <= calls'
    BY <1>1, <1>4, <1>6
  <2> QED BY <1>1, <1>5, <1>7, <2>1 DEF Counted, saves, counts
<1> QED BY <1>1, <1>7, <1>9, <1>10 DEF Tabled

LEMMA TabledByCall ==
  ASSUME Consolidating, Extracted, Tabled, NEW s \in Servers, NEW request \in menu.requests,
         Call(s, request)
  PROVE  Tabled'
<1>1. /\ Called(s, request) /\ calls' = calls + 1 /\ calls \in Nat /\ observations \in Nat
      /\ UNCHANGED <<memories, contracts, observations>>
  BY CallShaped DEF Consolidating, Settled, Call, tables, disk, Numbered, Extracted, IdsRead
<1>2. ASSUME NEW ops
      PROVE  /\ Cardinality(Going(ops)) \in Nat /\ Cardinality(Going(ops)') \in Nat
             /\ Cardinality(Going(ops)') <= Cardinality(Going(ops)) + 1
  <2>1. IsFiniteSet(Servers) /\ Going(ops) \in SUBSET Servers
    BY McAssumption DEF Going
  <2>2. IsFiniteSet(Going(ops)) /\ Cardinality(Going(ops)) \in Nat
    BY <2>1, FS_Subset, FS_CardinalityType
  <2>3. Going(ops)' \in SUBSET (Going(ops) \cup {s})
    BY <1>1 DEF Going, Called
  <2>4. /\ IsFiniteSet(Going(ops) \cup {s})
        /\ \/ Cardinality(Going(ops) \cup {s}) = Cardinality(Going(ops))
           \/ Cardinality(Going(ops) \cup {s}) = Cardinality(Going(ops)) + 1
    BY <2>2, FS_AddElement
  <2>5. /\ Cardinality(Going(ops)') \in Nat
        /\ Cardinality(Going(ops)') <= Cardinality(Going(ops) \cup {s})
    BY <2>3, <2>4, FS_Subset, FS_CardinalityType
  <2> QED BY <2>2, <2>4, <2>5
<1>3. Counted'
  <2> DEFINE counts == Cardinality(Going({"upsert", "touch"}))
             saves == Cardinality(Going({"observe"}))
  <2>1. /\ saves \in Nat /\ saves' \in Nat /\ saves' <= saves + 1
        /\ counts \in Nat /\ counts' \in Nat /\ counts' <= counts + 1
    BY <1>2
  <2>2. /\ observations + saves <= calls /\ counts <= calls
        /\ \A k \in DOMAIN memories : memories[k].hits + counts <= calls
        /\ \A k \in DOMAIN memories : memories[k].hits \in Nat
    BY DEF Tabled, Counted, MemoriesUpTo
  <2> HIDE DEF saves, counts
  <2>3. /\ observations' + saves' <= calls' /\ counts' <= calls'
        /\ \A k \in DOMAIN memories' : memories'[k].hits + counts' <= calls'
    <3>1. \A o, v, w, n \in Nat : o + v <= n /\ w <= v + 1 => o + w <= n + 1
      OBVIOUS
    <3>2. \A v, w, n \in Nat : v <= n /\ w <= v + 1 => w <= n + 1
      OBVIOUS
    <3>3. /\ calls \in Nat /\ calls' = calls + 1
          /\ observations \in Nat /\ observations' = observations /\ memories' = memories
      BY <1>1
    <3>4. observations' + saves' <= calls'
      BY <2>1, <2>2, <3>1, <3>3
    <3>5. counts' <= calls'
      BY <2>1, <2>2, <3>2, <3>3
    <3>6. ASSUME NEW k \in DOMAIN memories
          PROVE  memories[k].hits + counts' <= calls'
      BY <2>1, <2>2, <3>1, <3>3
    <3> QED BY <3>3, <3>4, <3>5, <3>6
  <2> QED BY <2>3 DEF Counted, saves, counts
<1>4. \A n : n \in 0 .. calls => n \in 0 .. calls'
  BY <1>1
<1>5. \A n : n \in 1 .. calls => n \in 1 .. calls'
  BY <1>1
<1>6. MemoriesUpTo(memories', calls')
  <2>1. \A m \in [by : 0 .. calls, hits : Nat] : m \in [by : 0 .. calls', hits : Nat]
    BY <1>4
  <2> QED BY <1>1, <2>1 DEF Tabled, MemoriesUpTo
<1> QED BY <1>1, <1>3, <1>5, <1>6 DEF Tabled

-----------------------------------------------------------------------------
(***************************************************************************)
(* What has been read is what may be written, also to a log that has been  *)
(* renamed since it was opened.                                            *)
(***************************************************************************)
Staged(s) ==
  /\ At(s, "truncate") \/ At(s, "write") => srv[s].copy \in Seq(Line(Resource(s)))
  /\ At(s, "store") \/ At(s, "cache") => srv[s].doc \in Docs
  /\ srv[s].moved # None =>
       /\ srv[s].moved \in Seconds
       /\ \/ At(s, "save")
          \/ /\ At(s, "write") /\ Resource(s) = "inbox"
             /\ archives["inbox"][srv[s].moved] \in Seq(LogLine)

FilesOK == DOMAIN files = Files /\ \A f \in Files : files[f] \in Seq(Line(f)) \cup {None}
ArchivesOK == archives \in [Logs -> [Seconds -> Seq(LogLine) \cup {None}]]
GlobalOK == DOMAIN cached \subseteq Docs /\ DOMAIN knowledge \subseteq Docs

Filed ==
  /\ clock \in Seconds /\ FilesOK /\ ArchivesOK /\ GlobalOK
  /\ \A s \in Servers : Staged(s)

\* The files a step may be about.
LEMMA StepFiles ==
  ASSUME Settled, NEW s \in Servers
  PROVE  /\ At(s, "truncate") \/ At(s, "write") \/ At(s, "load") => Resource(s) \in Files
         /\ At(s, "rename") \/ At(s, "append") => Resource(s) \in Logs
         /\ At(s, "write") /\ Resource(s) \in Logs => Resource(s) = "inbox"
         /\ At(s, "load") => Resource(s) \in {"todo", "source"}
         /\ At(s, "read") => Resource(s) = "inbox"
         /\ At(s, "load") /\ Resource(s) = "source" => srv[s].request.new \in Blocks
<1> SUFFICES ASSUME Calling(s)
             PROVE  /\ At(s, "truncate") \/ At(s, "write") \/ At(s, "load") => Resource(s) \in Files
                    /\ At(s, "rename") \/ At(s, "append") => Resource(s) \in Logs
                    /\ At(s, "write") /\ Resource(s) \in Logs => Resource(s) = "inbox"
                    /\ At(s, "load") => Resource(s) \in {"todo", "source"}
                    /\ At(s, "read") => Resource(s) = "inbox"
                    /\ At(s, "load") /\ Resource(s) = "source" => srv[s].request.new \in Blocks
  BY DEF At, Calling
<1>1. /\ srv[s].steps[1] \in Steps /\ \A op : At(s, op) <=> srv[s].steps[1][1] = op
      /\ Resource(s) = srv[s].steps[1][2]
  BY FirstStep DEF Settled
<1>2. ASSUME At(s, "load"), Resource(s) = "source"
      PROVE  srv[s].request.new \in Blocks
  <2>1. srv[s].steps[1] = <<"load", "source">>
    <3>1. \A x \in Steps : x = <<x[1], x[2]>>
      BY DEF Steps
    <3> QED BY <1>1, <1>2, <3>1
  <2>2. 1 \in DOMAIN srv[s].steps
    BY FirstStep, LenProperties DEF Settled, Serving
  <2>3. srv[s].request \in Requests /\ srv[s].request.tool = "replace_exact_text"
    BY <2>1, <2>2 DEF Settled, Shapes, ShapedCall, Calling
  <2> QED BY <2>3 DEF Blocks
<1> QED BY <1>1, <1>2 DEF Steps, Files, Logs

LEMMA LinesType ==
  ASSUME FilesOK, NEW f \in Files
  PROVE  Lines(f) \in Seq(Line(f))
BY EmptySeq DEF FilesOK, Lines

LEMMA LogLines ==
  ASSUME NEW f \in Logs
  PROVE  Line(f) = LogLine /\ f \in Files
BY DEF Line, Logs, Files

LEMMA EditedType ==
  ASSUME FilesOK, NEW f \in {"todo", "source"}, NEW request,
         f = "source" => request.new \in Blocks
  PROVE  Edited(f, Lines(f), request) \in Seq(Line(f))
<1>1. Lines(f) \in Seq(Line(f))
  BY LinesType DEF Files
<1>2. CASE f = "todo"
  BY <1>1, <1>2, TodoType DEF Edited, Line
<1>3. CASE f = "source"
  BY <1>1, <1>3, ReplaceType DEF Edited, Line
<1> QED BY <1>2, <1>3

\* Only who renames a log changes what another server has.
LEMMA OthersStay ==
  ASSUME Settled, NEW s \in Servers, Step(s) \/ CutShort(s) \/ AppendFails(s),
         NEW t \in Servers, t # s
  PROVE  \/ srv'[t] = srv[t]
         \/ /\ Rename(s) /\ At(t, "write") /\ Resource(t) = Resource(s)
            /\ srv'[t] = [srv[t] EXCEPT !.moved = clock]
            /\ files[Resource(s)] # None
<1>1. DOMAIN srv = Servers
  BY DEF Settled, Serving
<1>2. CASE Rename(s)
  <2>1. CASE Proceed(s, srv[s])
    BY <1>1, <2>1 DEF Proceed
  <2>2. CASE ~Proceed(s, srv[s])
    BY <1>1, <1>2, <2>2 DEF Rename
  <2> QED BY <2>1, <2>2
<1>3. CASE CutShort(s) \/ AppendFails(s)
  BY <1>1, <1>3 DEF CutShort, AppendFails, Finish, Skip
<1>4. CASE Step(s) /\ ~Rename(s)
  <2>1. \/ \E read : Proceed(s, read)
        \/ Finish(s) \/ (\E n : Skip(s, n))
        \/ \E call : srv' = [srv EXCEPT ![s] = call]
    BY <1>4 DEF Step, SaveObservation, ReadLast, SelectRows, ReadInbox, Truncate, Write,
         SaveExtracted, Load, CheckSize, AppendLine, Exists, UpsertMemory, DeleteOld, Find,
         Touch, WriteContract, FindEvent, RecordEvent, ScanDoc, StoreDoc, CacheDoc, ListStale,
         ForgetDoc, UncacheDoc
  <2> QED BY <1>1, <2>1 DEF Proceed, Finish, Skip
<1> QED BY <1>2, <1>3, <1>4

\* What is written to a log is lines of a log, wherever the log is.
LEMMA ArchivedType ==
  ASSUME ArchivesOK, NEW f \in Logs, NEW u \in Seconds, NEW lines \in Seq(LogLine),
         archives' = [archives EXCEPT ![f][u] = lines]
  PROVE  /\ ArchivesOK' /\ archives'[f][u] = lines
         /\ \A g \in Logs, v \in Seconds :
              archives[g][v] \in Seq(LogLine) => archives'[g][v] \in Seq(LogLine)
<1>1. archives' \in [Logs -> [Seconds -> Seq(LogLine) \cup {None}]]
  BY DEF ArchivesOK
<1>2. \A g \in Logs, v \in Seconds :
        archives'[g][v] = IF g = f /\ v = u THEN lines ELSE archives[g][v]
  BY DEF ArchivesOK
<1> QED BY <1>1, <1>2 DEF ArchivesOK

LEMMA RenamedType ==
  ASSUME Settled, Filed, NEW s \in Servers, Rename(s), files[Resource(s)] # None
  PROVE  /\ Resource(s) \in Logs /\ files[Resource(s)] \in Seq(LogLine)
         /\ archives' = [archives EXCEPT ![Resource(s)][clock] = files[Resource(s)]]
         /\ files' = [files EXCEPT ![Resource(s)] = None]
<1>1. Resource(s) \in Logs
  BY StepFiles DEF Rename
<1>2. files[Resource(s)] \in Seq(LogLine)
  BY <1>1, LogLines DEF Filed, FilesOK
<1> QED BY <1>1, <1>2 DEF Rename

\* What a step does to the files.
LEMMA FilesByStep ==
  ASSUME Settled, Numbered, Filed, NEW s \in Servers, Step(s) \/ CutShort(s) \/ AppendFails(s)
  PROVE  /\ FilesOK' /\ ArchivesOK'
         /\ \A u \in Seconds : archives["inbox"][u] \in Seq(LogLine) =>
              archives'["inbox"][u] \in Seq(LogLine)
<1> USE DEF Filed
<1>1. ASSUME NEW f \in Files, NEW lines \in Seq(Line(f)) \cup {None},
             files' = [files EXCEPT ![f] = lines]
      PROVE  FilesOK'
  BY <1>1 DEF FilesOK
<1>2. "inbox" \in Logs
  BY DEF Logs
<1>3. CASE UNCHANGED <<files, archives>>
  BY <1>3 DEF FilesOK, ArchivesOK
<1>4. CASE Truncate(s)
  <2>1. Resource(s) \in Files /\ <<>> \in Seq(Line(Resource(s)))
    BY <1>4, StepFiles, EmptySeq DEF Truncate
  <2> QED BY <1>1, <1>4, <2>1 DEF Truncate, ArchivesOK
<1>5. CASE Write(s)
  <2> DEFINE f == Resource(s)
  <2>1. At(s, "write") /\ f \in Files /\ srv[s].copy \in Seq(Line(f))
    BY <1>5, StepFiles DEF Write, Staged
  <2>2. CASE srv[s].moved = None
    <3>1. Overlay(srv[s].copy, Lines(f)) \in Seq(Line(f))
      BY <2>1, LinesType, OverlayType
    <3>2. files' = [files EXCEPT ![f] = Overlay(srv[s].copy, Lines(f))] /\ UNCHANGED archives
      BY <1>5, <2>2 DEF Write
    <3> HIDE DEF f
    <3> QED BY <1>1, <2>1, <3>1, <3>2 DEF ArchivesOK
  <2>3. CASE srv[s].moved # None
    <3>1. /\ f = "inbox" /\ srv[s].moved \in Seconds
          /\ archives["inbox"][srv[s].moved] \in Seq(LogLine)
      <4>1. ~At(s, "save")
        BY <2>1, OneOp
      <4> QED BY <2>3, <4>1 DEF Staged
    <3>2. Overlay(srv[s].copy, archives["inbox"][srv[s].moved]) \in Seq(LogLine)
      <4>1. Line("inbox") = LogLine
        BY <1>2, LogLines
      <4> QED BY <2>1, <3>1, <4>1, OverlayType
    <3>3. /\ archives' = [archives EXCEPT !["inbox"][srv[s].moved] =
                             Overlay(srv[s].copy, archives["inbox"][srv[s].moved])]
          /\ UNCHANGED files
      <4>1. archives' = [archives EXCEPT ![f][srv[s].moved] =
                           Overlay(srv[s].copy, archives[f][srv[s].moved])] /\ UNCHANGED files
        BY <1>2, <1>5, <2>3, <3>1 DEF Write, ArchivesOK
      <4> QED BY <3>1, <4>1
    <3> QED BY <1>2, <3>1, <3>2, <3>3, ArchivedType DEF FilesOK
  <2> QED BY <2>2, <2>3
<1>6. CASE Rename(s) /\ files[Resource(s)] # None
  <2>1. /\ Resource(s) \in Logs /\ files[Resource(s)] \in Seq(LogLine)
        /\ archives' = [archives EXCEPT ![Resource(s)][clock] = files[Resource(s)]]
        /\ files' = [files EXCEPT ![Resource(s)] = None]
    BY <1>6, RenamedType
  <2> QED BY <1>1, <1>2, <2>1, ArchivedType, LogLines
<1>7. CASE AppendLine(s)
  <2> DEFINE line == [kind |-> "call", id |-> srv[s].call]
  <2>1. Resource(s) \in Logs
    BY <1>7, StepFiles DEF AppendLine
  <2>2. srv[s].call \in Nat
    <3>1. Calling(s) /\ calls \in Nat
      BY <1>7 DEF AppendLine, At, Calling, Numbered
    <3> QED BY <3>1 DEF Numbered
  <2>3. line \in LogLine
    BY <2>2 DEF LogLine
  <2>4. files' = [files EXCEPT ![Resource(s)] = Append(Lines(Resource(s)), line)]
        /\ UNCHANGED archives
    BY <1>7 DEF AppendLine
  <2> HIDE DEF line
  <2>5. Append(Lines(Resource(s)), line) \in Seq(Line(Resource(s)))
    BY <2>1, <2>3, LogLines, LinesType, AppendProperties
  <2> QED BY <1>1, <2>1, <2>4, <2>5, LogLines DEF ArchivesOK
<1>8. \/ UNCHANGED <<files, archives>> \/ Truncate(s) \/ Write(s)
      \/ (Rename(s) /\ files[Resource(s)] # None) \/ AppendLine(s)
  <2>1. CASE CutShort(s) \/ AppendFails(s)
    BY <2>1 DEF CutShort, AppendFails, disk
  <2>2. CASE Step(s)
    BY <2>2 DEF Step, SaveObservation, ReadLast, SelectRows, ReadInbox,
         SaveExtracted, Load, CheckSize, Rename, Exists, UpsertMemory, DeleteOld, Find,
         Touch, WriteContract, FindEvent, RecordEvent, ScanDoc, StoreDoc, CacheDoc, ListStale,
         ForgetDoc, UncacheDoc, disk
  <2> QED BY <2>1, <2>2
<1> QED BY <1>3, <1>4, <1>5, <1>6, <1>7, <1>8

\* Who is at a step takes it, or is cut short in it.
LEMMA WhoIsAt ==
  ASSUME NEW s \in Servers, Step(s) \/ CutShort(s) \/ AppendFails(s), srv'[s] # Idle, Settled
  PROVE  /\ At(s, "read") => ReadInbox(s)
         /\ At(s, "load") => Load(s)
         /\ At(s, "scan") => ScanDoc(s)
         /\ ~At(s, "save")
         /\ At(s, "write") => Proceed(s, srv[s])
<1>1. ~Finish(s) /\ ~CutShort(s)
  BY DEF Finish, CutShort, Settled, Serving
<1>2. CASE AppendFails(s)
  BY <1>2 DEF AppendFails, At
<1>3. CASE Step(s)
  BY <1>1, <1>3 DEF Step, SaveObservation, ReadLast, SelectRows, ReadInbox, Truncate, Write,
         SaveExtracted, Load, CheckSize, Rename, AppendLine, Exists, UpsertMemory, DeleteOld, Find,
         Touch, WriteContract, FindEvent, RecordEvent, ScanDoc, StoreDoc, CacheDoc, ListStale,
         ForgetDoc, UncacheDoc, At
<1> QED BY <1>1, <1>2, <1>3

\* What has been read.
LEMMA CopyRead ==
  ASSUME Settled, NEW s \in Servers, Step(s) \/ CutShort(s) \/ AppendFails(s), srv'[s] # Idle
  PROVE  /\ At(s, "read") =>
              srv'[s].copy = Lines("inbox") \o
                [i \in 1 .. srv[s].seen - srv[s].last |->
                   [kind |-> "observation", id |-> srv[s].last + i]]
         /\ At(s, "load") =>
              srv'[s].copy = Edited(Resource(s), Lines(Resource(s)), srv[s].request)
<1>1. Calling(s) /\ DOMAIN srv = Servers /\ DOMAIN srv[s] = DOMAIN Idle
  BY StepTurns DEF Settled, Serving
<1>2. ASSUME NEW read, DOMAIN read = DOMAIN Idle, read.steps = srv[s].steps, Proceed(s, read)
      PROVE  srv'[s].copy = read.copy
  <2>1. "copy" \in DOMAIN Idle \ {"steps"}
    BY DEF Idle
  <2> QED BY <1>1, <1>2, <2>1, ProceedTurns DEF Settled
<1>3. ASSUME At(s, "read")
      PROVE  srv'[s].copy = Lines("inbox") \o
               [i \in 1 .. srv[s].seen - srv[s].last |->
                  [kind |-> "observation", id |-> srv[s].last + i]]
  <2> DEFINE lines == Lines("inbox") \o
               [i \in 1 .. srv[s].seen - srv[s].last |->
                  [kind |-> "observation", id |-> srv[s].last + i]]
             read == [srv[s] EXCEPT !.copy = lines]
  <2>1. Proceed(s, read)
    BY <1>3, WhoIsAt DEF ReadInbox
  <2> HIDE DEF lines
  <2>2. DOMAIN read = DOMAIN Idle /\ read.steps = srv[s].steps /\ read.copy = lines
    BY <1>1 DEF Idle
  <2> QED BY <1>2, <2>1, <2>2 DEF lines
<1>4. ASSUME At(s, "load")
      PROVE  srv'[s].copy = Edited(Resource(s), Lines(Resource(s)), srv[s].request)
  <2> DEFINE lines == Edited(Resource(s), Lines(Resource(s)), srv[s].request)
             read == [srv[s] EXCEPT !.before = Lines(Resource(s)), !.copy = lines]
  <2>1. ~Finish(s)
    BY <1>1 DEF Finish
  <2>2. Proceed(s, read)
    BY <1>4, <2>1, WhoIsAt DEF Load
  <2> HIDE DEF lines
  <2>3. DOMAIN read = DOMAIN Idle /\ read.steps = srv[s].steps /\ read.copy = lines
    BY <1>1 DEF Idle
  <2> QED BY <1>2, <2>2, <2>3 DEF lines
<1> QED BY <1>3, <1>4

\* Who goes on from a step without finding out more is at what follows it.
LEMMA NextStep ==
  ASSUME Settled, NEW s \in Servers, Calling(s), NEW read, DOMAIN read = DOMAIN Idle,
         read.steps = srv[s].steps, Proceed(s, read), srv'[s] # Idle
  PROVE  /\ ~At(s, "store")'
         /\ At(s, "write") /\ Resource(s) = "inbox" => At(s, "save")'
         /\ At(s, "truncate") => At(s, "write")'
<1> DEFINE old == srv[s].steps
           new == srv'[s].steps
<1>1. /\ old \in Seq(Steps) /\ Len(old) \in Nat /\ Len(old) >= 1 /\ Shaped(old)
      /\ \A op : At(s, op) <=> old[1][1] = op
      /\ Resource(s) = old[1][2] /\ old[1] \in Steps
  BY FirstStep DEF Settled, Serving, Shapes, ShapedCall, Calling
<1>2. Rest(new, old, 1)
  BY ProceedTurns DEF Settled
<1>3. new # <<>> /\ new \in Seq(Steps) /\ new[1] = old[2] /\ Follows(old[1], old[2])
  <2>1. Len(new) \in Nat /\ Len(new) >= 1 /\ Len(new) = Len(old) - 1
    BY <1>2, LenProperties, EmptySeq DEF Rest
  <2>2. 1 \in 1 .. Len(old) - 1
    BY <1>1, <2>1
  <2>3. Follows(old[1], old[1 + 1])
    BY <1>1, <2>2 DEF Shaped, Linked
  <2> QED BY <1>2, <2>1, <2>3 DEF Rest
<1>4. \A op : At(s, op)' <=> new[1][1] = op
  BY <1>3, HeadTailProperties DEF At
<1> HIDE DEF old, new
<1>5. old[1][1] = "write" /\ old[1][2] = "inbox" => old[1] = <<"write", "inbox">>
  BY <1>1 DEF Steps
<1> QED BY <1>1, <1>3, <1>4, <1>5 DEF Follows

\* Between truncation and write, and between a write of the inbox and the id that
\* is saved, a call is not over.
LEMMA NotOver ==
  ASSUME Settled, NEW s \in Servers, Proceed(s, srv[s]),
         At(s, "truncate") \/ (At(s, "write") /\ Resource(s) = "inbox")
  PROVE  srv'[s] # Idle
<1> DEFINE old == srv[s].steps
<1>1. Calling(s) /\ DOMAIN srv = Servers /\ DOMAIN srv[s] = DOMAIN Idle
  BY DEF At, Calling, Settled, Serving
<1>2. /\ old \in Seq(Steps) /\ old # <<>> /\ Len(old) \in Nat /\ Len(old) >= 1 /\ Ended(old)
      /\ \A op : At(s, op) <=> old[1][1] = op
      /\ Resource(s) = old[1][2] /\ old[1] \in Steps
  BY <1>1, FirstStep DEF Settled, Serving, Shapes, ShapedCall, Calling, Shaped
<1>3. Len(old) # 1
  <2>1. old[1][1] = "write" /\ old[1][2] = "inbox" => old[1] = <<"write", "inbox">>
    BY <1>2 DEF Steps
  <2> HIDE DEF old
  <2> QED BY <1>2, <2>1 DEF Ended
<1>4. srv'[s] = [srv[s] EXCEPT !.steps = Tail(old)]
  BY <1>1, <1>3 DEF Proceed
<1>5. srv'[s].steps = Tail(old)
  BY <1>1, <1>4 DEF Idle
<1>6. Len(Tail(old)) = Len(old) - 1
  BY <1>2, HeadTailProperties
<1>7. Len(<<>>) = 0 /\ Idle.steps = <<>>
  BY EmptySeq DEF Idle
<1> HIDE DEF old
<1>8. Len(old) - 1 # 0
  BY <1>2, <1>3
<1>9. Tail(old) # <<>>
  BY <1>6, <1>7, <1>8
<1> QED BY <1>5, <1>7, <1>9

\* The document to be stored is the next one.
LEMMA StoreComes ==
  ASSUME Settled, NEW s \in Servers, Step(s) \/ CutShort(s) \/ AppendFails(s), srv'[s] # Idle,
         At(s, "store")'
  PROVE  srv'[s].doc \in Docs
<1>1. Calling(s) /\ Turn(s) /\ DOMAIN srv = Servers /\ DOMAIN srv[s] = DOMAIN Idle
  BY StepTurns DEF Settled, Serving
<1>2. At(s, "scan")
  <2> DEFINE old == srv[s].steps
             new == srv'[s].steps
  <2>1. /\ old \in Seq(Steps) /\ Len(old) \in Nat /\ Shaped(old)
        /\ \A op : At(s, op) <=> old[1][1] = op
    BY <1>1, FirstStep DEF Settled, Serving, Shapes, ShapedCall, Calling
  <2>2. new[1][1] = "store"
    <3>1. srv'[s].steps \in Seq(Steps) /\ srv'[s].steps # <<>>
      BY <1>1, TurnKeeps DEF Settled, Serving, Turn
    <3> QED BY <3>1, HeadTailProperties DEF At
  <2>3. ASSUME NEW n \in 1 .. 2, Rest(new, old, n)
        PROVE  FALSE
    <3>1. Len(new) \in Nat /\ Len(new) >= 1 /\ Len(new) = Len(old) - n
      BY <2>3, LenProperties, EmptySeq DEF Rest
    <3>2. new[1] = old[1 + n] /\ n \in 1 .. Len(old) - 1
      BY <2>1, <2>3, <3>1 DEF Rest
    <3>3. Follows(old[n], old[n + 1])
      BY <2>1, <3>2 DEF Shaped, Linked
    <3>4. old[n + 1] = old[1 + n]
      OBVIOUS
    <3> HIDE DEF old, new
    <3> QED BY <2>2, <3>2, <3>3, <3>4 DEF Follows
  <2>4. Found(new, old)
    BY <1>1, <2>3 DEF Turn
  <2> HIDE DEF old, new
  <2>5. old[1][1] = "scan"
    BY <2>2, <2>4 DEF Found
  <2> QED BY <2>1, <2>5
<1>3. ScanDoc(s)
  BY <1>2, WhoIsAt
<1> DEFINE d == DocOrder[srv[s].scanned + 1]
           next == [srv[s] EXCEPT !.scanned = @ + 1,
                      !.met = IF docs[d] = None THEN @ ELSE @ \cup {d}]
           found == [next EXCEPT !.doc = d, !.copy = docs[d],
             !.steps = << Head(@), <<"store", "global">>, <<"cache", "global">> >> \o Tail(@)]
<1>4. Proceed(s, next) \/ Proceed(s, found)
  BY <1>3 DEF ScanDoc
<1>5. DOMAIN next = DOMAIN Idle /\ next.steps = srv[s].steps /\ found.doc = d
  BY <1>1 DEF Idle
<1> HIDE DEF next
<1>6. ~Proceed(s, next)
  BY <1>1, <1>5, NextStep
<1>7. srv'[s].doc = d
  <2>1. DOMAIN found = DOMAIN Idle
    BY <1>5
  <2> HIDE DEF found, d
  <2>2. srv'[s] = [found EXCEPT !.steps = Tail(@)]
    BY <1>1, <1>4, <1>6 DEF Proceed
  <2>3. "doc" \in DOMAIN Idle
    BY DEF Idle
  <2> QED BY <1>5, <2>1, <2>2, <2>3
<1>8. srv[s].scanned + 1 \in 1 .. Len(DocOrder)
  <2>1. Len(srv[s].steps) \in Nat /\ Len(srv[s].steps) > 1
    BY <1>1, <1>2, FirstStep, EnoughSteps DEF Settled
  <2>2. 1 \in DOMAIN srv[s].steps /\ srv[s].steps[1][1] = "scan"
    BY <1>1, <1>2, <2>1, FirstStep, LenProperties DEF Settled, Serving
  <2>3. Len(srv[s].steps) - 1 + srv[s].scanned \in 1 .. Len(DocOrder) /\ srv[s].scanned \in Nat
    BY <1>1, <2>2 DEF Settled, Shapes, ShapedCall, Calling
  <2>4. Len(DocOrder) \in Nat
    BY McAssumption, LenProperties
  <2> QED BY <2>1, <2>3, <2>4
<1>9. d \in Docs
  BY <1>8, McAssumption, ElementOfSeq
<1> QED BY <1>7, <1>9

LEMMA StagedByStep ==
  ASSUME Settled, Numbered, IdsRead, Filed, NEW s \in Servers,
         Step(s) \/ CutShort(s) \/ AppendFails(s), NEW t \in Servers
  PROVE  Staged(t)'
<1> USE DEF Filed
<1>1. Calling(s) /\ Turn(s) /\ DOMAIN srv = Servers
  BY StepTurns DEF Settled, Serving
<1>2. /\ FilesOK' /\ ArchivesOK'
      /\ \A u \in Seconds : archives["inbox"][u] \in Seq(LogLine) =>
           archives'["inbox"][u] \in Seq(LogLine)
  BY FilesByStep
<1>3. CASE t # s
  <2>1. /\ \A op : At(t, op)' <=> At(t, op)
        /\ Resource(t)' = Resource(t) /\ srv'[t].copy = srv[t].copy /\ srv'[t].doc = srv[t].doc
    BY <1>1, <1>3, Onward
  <2>2. CASE srv'[t] = srv[t]
    BY <1>2, <2>1, <2>2 DEF Staged
  <2>3. CASE /\ Rename(s) /\ At(t, "write") /\ Resource(t) = Resource(s)
             /\ srv'[t] = [srv[t] EXCEPT !.moved = clock]
             /\ files[Resource(s)] # None
    <3>1. srv'[t].moved = clock
      BY <2>3 DEF Settled, Serving, Idle
    <3>2. /\ Resource(s) \in Logs
          /\ archives'[Resource(s)][clock] \in Seq(LogLine)
      BY <2>3, RenamedType, ArchivedType
    <3>3. Resource(t) = "inbox" /\ Resource(s) = "inbox"
      BY <2>3, <3>2, StepFiles
    <3> QED BY <2>1, <2>3, <3>1, <3>2, <3>3 DEF Staged
  <2> QED BY <1>3, <2>2, <2>3, OthersStay
<1>4. CASE t = s /\ srv'[s] = Idle
  <2>1. srv'[s].moved = None /\ \A op : ~At(s, op)'
    BY <1>4 DEF Idle, At
  <2> QED BY <1>4, <2>1 DEF Staged
<1>5. CASE t = s /\ srv'[s] # Idle
  <2>1. Reads(s)
    BY <1>5, StepReads
  <2>2. ASSUME At(s, "truncate")'
        PROVE  srv'[s].copy \in Seq(Line(Resource(s)))
    <3>1. CASE At(s, "read")
      <4>1. srv'[s].copy = Lines("inbox") \o
              [i \in 1 .. srv[s].seen - srv[s].last |->
                 [kind |-> "observation", id |-> srv[s].last + i]]
        BY <1>5, <3>1, CopyRead
      <4>2. srv[s].seen \in Nat /\ srv[s].last \in Nat
        BY DEF IdsRead
      <4>3. Resource(s) = "inbox" /\ Line("inbox") = LogLine /\ "inbox" \in Files
        BY <3>1, StepFiles, LogLines DEF Logs
      <4>4. Lines("inbox") \in Seq(LogLine)
        BY <4>3, LinesType
      <4> DEFINE new == [i \in 1 .. srv[s].seen - srv[s].last |->
                          [kind |-> "observation", id |-> srv[s].last + i]]
      <4>5. new \in Seq(LogLine)
        BY <4>2, NewLinesType
      <4>6. srv'[s].copy = Lines("inbox") \o new
        BY <4>1
      <4> HIDE DEF new
      <4>7. Lines("inbox") \o new \in Seq(LogLine)
        BY <4>4, <4>5, ConcatProperties
      <4> QED BY <4>3, <4>6, <4>7
    <3>2. CASE At(s, "load")
      BY <1>5, <3>2, CopyRead, EditedType, StepFiles
    <3> QED BY <1>1, <2>2, <3>1, <3>2, Heads
  <2>3. At(s, "truncate")' => Resource(s)' = Resource(s)
    BY <1>1, Heads
  <2>4. ASSUME At(s, "write")'
        PROVE  srv'[s].copy \in Seq(Line(Resource(s)')) /\ srv'[s].moved = None
    <3>1. At(s, "truncate") /\ Resource(s)' = Resource(s)
      BY <1>1, <2>4, Heads
    <3>2. /\ ~At(s, "scan") /\ ~At(s, "read") /\ ~At(s, "load") /\ ~At(s, "stale")
          /\ ~At(s, "uncache") /\ ~At(s, "save") /\ ~At(s, "write")
      BY <3>1, OneOp
    <3> QED BY <2>1, <3>1, <3>2 DEF Reads, Staged
  <2>5. At(s, "store")' => srv'[s].doc \in Docs
    BY <1>5, StoreComes
  <2>6. ASSUME At(s, "cache")'
        PROVE  srv'[s].doc \in Docs
    <3>1. At(s, "store") /\ ~At(s, "scan")
      BY <1>1, <2>6, Heads, OneOp
    <3> QED BY <2>1, <3>1 DEF Reads, Staged
  <2>7. ASSUME srv'[s].moved # None
        PROVE  srv'[s].moved \in Seconds /\ At(s, "save")'
    <3>1. srv[s].moved # None /\ srv[s].moved \in Seconds /\ srv'[s].moved = srv[s].moved
      BY <2>1, <2>7 DEF Reads, Staged
    <3>2. At(s, "write") /\ Resource(s) = "inbox" /\ Proceed(s, srv[s])
      BY <1>5, <3>1, WhoIsAt DEF Staged
    <3>3. At(s, "save")'
      BY <1>1, <1>5, <3>2, NextStep DEF Settled, Serving
    <3> QED BY <3>1, <3>3
  <2> QED BY <1>5, <2>2, <2>3, <2>4, <2>5, <2>6, <2>7 DEF Staged
<1> QED BY <1>3, <1>4, <1>5

LEMMA GlobalByStep ==
  ASSUME Settled, Filed, NEW s \in Servers, Step(s) \/ CutShort(s) \/ AppendFails(s)
  PROVE  GlobalOK'
<1>1. CASE CutShort(s) \/ AppendFails(s)
  BY <1>1 DEF CutShort, AppendFails, global, GlobalOK, Filed
<1>2. CASE StoreDoc(s)
  BY <1>2 DEF StoreDoc, With, GlobalOK, Filed, Staged
<1>3. CASE CacheDoc(s)
  BY <1>3 DEF CacheDoc, With, GlobalOK, Filed, Staged
<1>4. CASE ForgetDoc(s) \/ UncacheDoc(s)
  BY <1>4 DEF ForgetDoc, UncacheDoc, Without, GlobalOK, Filed
<1>5. CASE Step(s) /\ ~(StoreDoc(s) \/ CacheDoc(s) \/ ForgetDoc(s) \/ UncacheDoc(s))
  <2>1. UNCHANGED <<cached, knowledge>>
    BY <1>5 DEF Step, SaveObservation, ReadLast, SelectRows, ReadInbox, Truncate, Write,
         SaveExtracted, Load, CheckSize, Rename, AppendLine, Exists, UpsertMemory, DeleteOld, Find,
         Touch, WriteContract, FindEvent, RecordEvent, ScanDoc, ListStale, global
  <2> QED BY <2>1 DEF GlobalOK, Filed
<1> QED BY <1>1, <1>2, <1>3, <1>4, <1>5

\* How much there may be of everything.
Bounded ==
  /\ calls \in 0 .. menu.calls /\ edits \in 0 .. menu.edits /\ faults \in 0 .. menu.faults
  /\ docs \in [Docs -> DocTexts \cup {None}]

LEMMA BoundedByStep ==
  ASSUME Settled, Bounded, NEW s \in Servers, Step(s) \/ CutShort(s) \/ AppendFails(s)
  PROVE  Bounded' /\ UNCHANGED clock
<1>1. menu.calls \in Nat /\ menu.edits \in Nat /\ menu.faults \in Nat
  BY McAssumption DEF Settled
<1>2. CASE CutShort(s) \/ AppendFails(s)
  BY <1>1, <1>2 DEF CutShort, AppendFails, Bounded, global
<1>3. CASE Step(s)
  <2>1. UNCHANGED <<menu, clock, calls, edits, faults, docs>>
    BY <1>3 DEF Step, SaveObservation, ReadLast, SelectRows, ReadInbox, Truncate, Write,
         SaveExtracted, Load, CheckSize, Rename, AppendLine, Exists, UpsertMemory, DeleteOld, Find,
         Touch, WriteContract, FindEvent, RecordEvent, ScanDoc, StoreDoc, CacheDoc, ListStale,
         ForgetDoc, UncacheDoc, global
  <2> QED BY <2>1 DEF Bounded
<1> QED BY <1>2, <1>3

Typed == Tabled /\ Filed /\ Bounded

LEMMA TypedInit == Init => Typed
<1> SUFFICES ASSUME Init
             PROVE  Typed
  OBVIOUS
<1>1. /\ menu \in Menus /\ clock = 0 /\ calls = 0 /\ observations = 0 /\ edits = 0 /\ faults = 0
      /\ contracts = {} /\ memories = StoredMemories /\ srv = [s \in Servers |-> Idle]
  BY DEF Init
<1>2. Counted
  <2>1. Going({"observe"}) = {} /\ Going({"upsert", "touch"}) = {}
    BY <1>1 DEF Going, Has, Idle
  <2>2. Cardinality(Going({"observe"})) = 0 /\ Cardinality(Going({"upsert", "touch"})) = 0
    BY <2>1, FS_EmptySet
  <2>3. \A k \in DOMAIN memories : memories[k].hits = 0
    BY <1>1 DEF StoredMemories
  <2> QED BY <1>1, <2>2, <2>3 DEF Counted
<1>3. MemoriesUpTo(memories, calls)
  BY <1>1 DEF MemoriesUpTo, StoredMemories
<1>4. FilesOK
  <2> DEFINE CallLine == [kind : {"call"}, id : Nat]
  <2>1. CallLine \subseteq LogLine
    BY DEF LogLine
  <2>2. SourceText \in Seq(Blocks) /\ menu.inbox \in Seq(CallLine) \cup {None}
    BY <1>1, McAssumption
  <2> HIDE DEF CallLine
  <2>3. /\ SourceText \in Seq(Blocks) /\ menu.inbox \in Seq(LogLine) \cup {None}
        /\ Line("source") = Blocks /\ Line("inbox") = LogLine
    BY <2>1, <2>2, SeqMonotonic DEF Line
  <2> QED BY <2>3 DEF Init, FilesOK
<1>5. ArchivesOK
  BY DEF Init, ArchivesOK
<1>6. GlobalOK
  BY DEF Init, GlobalOK
<1>7. \A s \in Servers : Staged(s)
  BY <1>1 DEF Staged, At, Idle
<1>8. Bounded /\ clock \in Seconds
  BY <1>1, McAssumption DEF Init, Bounded, Seconds
<1> QED BY <1>1, <1>2, <1>3, <1>4, <1>5, <1>6, <1>7, <1>8 DEF Typed, Tabled, Filed

LEMMA TypedByCall ==
  ASSUME Consolidating, Extracted, Typed, NEW s \in Servers, NEW request \in menu.requests,
         Call(s, request)
  PROVE  Typed'
<1> USE DEF Typed
<1>1. /\ Called(s, request) /\ calls < menu.calls /\ calls' = calls + 1
      /\ UNCHANGED <<menu, clock, files, archives, cached, knowledge, docs, edits, faults>>
  BY CallShaped DEF Consolidating, Settled, Call, disk, global
<1>2. Bounded'
  <2>1. menu.calls \in Nat
    BY McAssumption DEF Consolidating, Settled
  <2> QED BY <1>1, <2>1 DEF Bounded
<1>3. \A t \in Servers : Staged(t)'
  <2>1. ASSUME NEW t \in Servers \ {s}
        PROVE  Staged(t)'
    <3>1. srv'[t] = srv[t]
      BY <1>1 DEF Called
    <3> QED BY <1>1, <3>1 DEF Filed, Staged, At, Resource
  <2>2. /\ ~At(s, "truncate")' /\ ~At(s, "write")' /\ ~At(s, "store")' /\ ~At(s, "cache")'
    BY CallShaped DEF Consolidating, Settled, Firsts
  <2>3. srv'[s].moved = None
    <3>1. CASE srv'[s] = Idle
      BY <3>1 DEF Idle
    <3>2. CASE srv'[s] = [Idle EXCEPT !.request = request, !.call = calls + 1,
                                      !.key = KeyOf(request), !.steps = Program(request)]
      BY <3>2 DEF Idle
    <3> QED BY <1>1, <3>1, <3>2 DEF Called
  <2> QED BY <2>1, <2>2, <2>3 DEF Staged
<1>4. FilesOK' /\ ArchivesOK' /\ GlobalOK'
  BY <1>1 DEF Filed, FilesOK, ArchivesOK, GlobalOK
<1> QED BY <1>1, <1>2, <1>3, <1>4, TabledByCall DEF Filed

LEMMA TypedAlways == Spec => [](Consolidating /\ Extracted /\ Typed)
<1>1. Consolidating /\ Extracted /\ Typed /\ [Next]_vars => Typed'
  <2> SUFFICES ASSUME Consolidating, Extracted, Typed, [Next]_vars
               PROVE  Typed'
    OBVIOUS
  <2>1. CASE UNCHANGED vars \/ Tick \/ \E d \in Docs : EditDoc(d)
    <3>1. UNCHANGED <<menu, srv, observations, memories, contracts, files, archives, knowledge,
                      cached, calls, faults>>
      BY <2>1 DEF vars, Tick, EditDoc, tables, disk, global
    <3>2. clock' \in Seconds
      <4>1. clock' = clock \/ (clock < MaxClock /\ clock' = clock + 1)
        BY <2>1 DEF vars, Tick, EditDoc
      <4> QED BY <4>1, McAssumption DEF Typed, Filed, Seconds
    <3>3. Bounded'
      <4>1. UNCHANGED <<docs, edits>> \/ \E d \in Docs : EditDoc(d)
        BY <2>1 DEF vars, Tick, global
      <4>2. CASE UNCHANGED <<docs, edits>>
        BY <3>1, <4>2 DEF Typed, Bounded
      <4>3. ASSUME NEW d \in Docs, EditDoc(d)
            PROVE  Bounded'
        <5>1. menu.edits \in Nat
          BY McAssumption DEF Consolidating, Settled
        <5>2. docs' \in [Docs -> DocTexts \cup {None}]
          BY <4>3 DEF EditDoc, Typed, Bounded
        <5> QED BY <3>1, <4>3, <5>1, <5>2 DEF EditDoc, Typed, Bounded
      <4> QED BY <4>1, <4>2, <4>3
    <3>4. Tabled'
      BY <3>1 DEF Typed, Tabled, Counted, Going
    <3>5. Filed'
      BY <3>1, <3>2 DEF Typed, Filed, FilesOK, ArchivesOK, GlobalOK, Staged, At, Resource
    <3> QED BY <3>3, <3>4, <3>5 DEF Typed
  <2>2. ASSUME NEW s \in Servers, NEW request \in menu.requests, Call(s, request)
        PROVE  Typed'
    BY <2>2, TypedByCall
  <2>3. ASSUME NEW s \in Servers, Step(s) \/ CutShort(s) \/ AppendFails(s)
        PROVE  Typed'
    <3>1. Settled /\ Numbered /\ IdsRead
      BY DEF Consolidating, Extracted
    <3>2. Tabled'
      BY <2>3, TabledByStep DEF Typed
    <3>3. Bounded' /\ UNCHANGED clock
      BY <2>3, <3>1, BoundedByStep DEF Typed
    <3>4. FilesOK' /\ ArchivesOK' /\ GlobalOK' /\ \A t \in Servers : Staged(t)'
      BY <2>3, <3>1, FilesByStep, GlobalByStep, StagedByStep DEF Typed
    <3> QED BY <3>2, <3>3, <3>4 DEF Typed, Filed
  <2> QED BY <2>1, <2>2, <2>3 DEF Next
<1> QED BY <1>1, TypedInit, ExtractedAlways, ConsolidatingAlways, PTL DEF Spec

\* The types: of the tables, the files and what the servers have read.
THEOREM McTypes == Spec => []TypeOK
<1>2. Consolidating /\ Extracted /\ Typed => TypeOK
  <2> SUFFICES ASSUME Consolidating, Extracted, Typed
               PROVE  TypeOK
    OBVIOUS
  <2>1. /\ menu \in Menus /\ Serving /\ Shapes /\ calls \in Nat /\ observations \in Nat
        /\ lastExtracted \in 0 .. observations
    BY DEF Consolidating, Extracted, Settled, Numbered, IdsRead
  <2>2. observations \in 0 .. calls
    <3>1. Cardinality(Going({"observe"})) \in Nat
      <4>1. Going({"observe"}) \in SUBSET Servers
        BY DEF Going
      <4> QED BY <4>1, McAssumption, FS_Subset, FS_CardinalityType
    <3> QED BY <2>1, <3>1 DEF Typed, Tabled, Counted
  <2>3. memories \in [DOMAIN memories -> [by : 0 .. calls, hits : 0 .. calls]]
    <3>1. Cardinality(Going({"upsert", "touch"})) \in Nat
      <4>1. Going({"upsert", "touch"}) \in SUBSET Servers
        BY DEF Going
      <4> QED BY <4>1, McAssumption, FS_Subset, FS_CardinalityType
    <3>2. ASSUME NEW k \in DOMAIN memories
          PROVE  memories[k] \in [by : 0 .. calls, hits : 0 .. calls]
      <4>1. memories[k] \in [by : 0 .. calls, hits : Nat]
        BY DEF Typed, Tabled, MemoriesUpTo
      <4>2. memories[k].hits + Cardinality(Going({"upsert", "touch"})) <= calls
        BY DEF Typed, Tabled, Counted
      <4>3. memories[k].hits \in Nat
        BY <4>1
      <4>4. memories[k].hits \in 0 .. calls
        BY <2>1, <3>1, <4>2, <4>3
      <4> QED BY <4>1, <4>4
    <3> QED BY <3>2 DEF Typed, Tabled, MemoriesUpTo
  <2>4. ASSUME NEW s \in Servers
        PROVE  /\ DOMAIN srv[s] = DOMAIN Idle
               /\ srv[s].steps \in Seq(Steps)
               /\ (srv[s] = Idle) = (srv[s].steps = <<>>)
               /\ srv[s].request \in Requests \cup {None}
               /\ srv[s].call \in 0 .. calls
               /\ srv[s].last \in 0 .. observations /\ srv[s].seen \in 0 .. observations
               /\ srv[s].moved \in Seconds \cup {None}
    <3>1. /\ DOMAIN srv[s] = DOMAIN Idle /\ srv[s].steps \in Seq(Steps)
          /\ (srv[s] = Idle) = (srv[s].steps = <<>>)
      BY <2>1 DEF Serving
    <3>2. srv[s].request \in Requests \cup {None} /\ srv[s].call \in 0 .. calls
      <4>1. CASE Calling(s)
        BY <2>1, <4>1 DEF Shapes, ShapedCall, Calling, Consolidating, Numbered
      <4>2. CASE ~Calling(s)
        BY <2>1, <3>1, <4>2 DEF Calling, Idle
      <4> QED BY <4>1, <4>2
    <3>3. srv[s].last \in 0 .. observations /\ srv[s].seen \in 0 .. observations
      BY DEF Extracted, IdsRead
    <3>4. srv[s].moved \in Seconds \cup {None}
      BY DEF Typed, Filed, Staged
    <3> QED BY <3>1, <3>2, <3>3, <3>4
  <2> QED BY <2>1, <2>2, <2>3, <2>4
        DEF TypeOK, Typed, Tabled, Filed, FilesOK, ArchivesOK, GlobalOK, Bounded, Serving
<1> QED BY <1>2, TypedAlways, PTL

-----------------------------------------------------------------------------
(***************************************************************************)
(* What the recursive functions of McServers compute: AfterAll, Ids and    *)
(* Archived go through a sequence from left to right and combine a value   *)
(* with each of its elements.                                              *)
(***************************************************************************)
\* Induction, with a set for the property.
LEMMA Induction ==
  ASSUME NEW I \in SUBSET Nat, 0 \in I, \A k \in I : k + 1 \in I
  PROVE  I = Nat
<1> SUFFICES ASSUME Nat \ I # {}
             PROVE  FALSE
  OBVIOUS
<1> DEFINE R == OpToRel(<, Nat)
           T == Nat \ I
<1>1. PICK x \in T : \A y \in T : ~ (<<y, x>> \in R)
  <2>1. T \subseteq Nat /\ T # {} /\ IsWellFoundedOn(R, Nat)
    BY NatLessThanWellFounded
  <2> HIDE DEF R, T
  <2> QED BY <2>1, WFMin
<1>2. x \in Nat /\ x # 0
  OBVIOUS
<1>3. x - 1 \in Nat /\ x - 1 < x /\ (x - 1) + 1 = x
  BY <1>2
<1>4. <<x - 1, x>> \in R
  BY <1>2, <1>3 DEF OpToRel
<1>5. x - 1 \in I
  BY <1>1, <1>3, <1>4
<1> QED BY <1>3, <1>5

\* No lines, as a name: what starts a combination is any value to the provers.
Nothing == <<>>

Text(lines) == IF lines = None THEN <<>> ELSE lines

Combine(how, arg, value, x) ==
  CASE how = "after"    -> Applied(arg, value, x)
    [] how = "ids"      -> IF x.kind = arg THEN Append(value, x.id) ELSE value
    [] how = "archived" -> value \o Ids(Text(x), arg)

\* f gives what there is after each of the first n elements of xs.
Combines(f, how, arg, first, xs, n) ==
  f = [i \in 0 .. n |-> IF i = 0 THEN first ELSE Combine(how, arg, f[i - 1], xs[i])]

\* There is one such function,
LEMMA CombinesExists ==
  ASSUME NEW how, NEW arg, NEW first, NEW xs, NEW n \in Nat
  PROVE  \E f : Combines(f, how, arg, first, xs, n)
<1> DEFINE I == {i \in Nat : \E f : Combines(f, how, arg, first, xs, i)}
<1>1. 0 \in I
  <2>1. Combines([i \in 0 .. 0 |-> first], how, arg, first, xs, 0)
    BY DEF Combines
  <2> QED BY <2>1
<1>2. ASSUME NEW i \in I
      PROVE  i + 1 \in I
  <2>1. PICK f : Combines(f, how, arg, first, xs, i)
    OBVIOUS
  <2> DEFINE g == [j \in 0 .. i + 1 |-> IF j = i + 1 THEN Combine(how, arg, f[i], xs[i + 1]) ELSE f[j]]
  <2>2. \A j \in 0 .. i : f[j] = IF j = 0 THEN first ELSE Combine(how, arg, f[j - 1], xs[j])
    BY <2>1 DEF Combines
  <2>3. \A j \in 0 .. i + 1 : g[j] = IF j = 0 THEN first ELSE Combine(how, arg, g[j - 1], xs[j])
    <3> SUFFICES ASSUME NEW j \in 0 .. i + 1
                 PROVE  g[j] = IF j = 0 THEN first ELSE Combine(how, arg, g[j - 1], xs[j])
      OBVIOUS
    <3>1. CASE j = i + 1
      BY <3>1
    <3>2. CASE j # i + 1
      <4>1. j \in 0 .. i /\ (j # 0 => j - 1 \in 0 .. i)
        BY <3>2
      <4>2. g[j] = f[j] /\ (j # 0 => g[j - 1] = f[j - 1])
        BY <3>2, <4>1
      <4> QED BY <2>2, <4>1, <4>2
    <3> QED BY <3>1, <3>2
  <2>4. Combines(g, how, arg, first, xs, i + 1)
    <3>1. g = [j \in 0 .. i + 1 |-> g[j]]
      OBVIOUS
    <3> HIDE DEF g
    <3> QED BY <2>3, <3>1 DEF Combines
  <2> QED BY <2>4
<1>3. I = Nat
  <2> HIDE DEF I
  <2>1. I \in SUBSET Nat
    BY DEF I
  <2> QED BY <1>1, <1>2, <2>1, Induction
<1> QED BY <1>3

\* and it depends on the elements it has met only.
LEMMA CombinesOnce ==
  ASSUME NEW how, NEW arg, NEW first, NEW xs, NEW ys, NEW j \in Nat, NEW k \in Nat, NEW f, NEW g,
         Combines(f, how, arg, first, xs, j), Combines(g, how, arg, first, ys, k),
         \A i \in Nat \ {0} : i <= j /\ i <= k => xs[i] = ys[i]
  PROVE  \A i \in Nat : i <= j /\ i <= k => f[i] = g[i]
<1> DEFINE I == {i \in Nat : i <= j /\ i <= k => f[i] = g[i]}
<1>1. /\ \A i \in 0 .. j : f[i] = IF i = 0 THEN first ELSE Combine(how, arg, f[i - 1], xs[i])
      /\ \A i \in 0 .. k : g[i] = IF i = 0 THEN first ELSE Combine(how, arg, g[i - 1], ys[i])
  BY DEF Combines
<1>2. 0 \in I
  <2>1. 0 \in 0 .. j /\ 0 \in 0 .. k
    OBVIOUS
  <2>2. f[0] = first /\ g[0] = first
    BY <1>1, <2>1
  <2> QED BY <2>2
<1>3. ASSUME NEW i \in I
      PROVE  i + 1 \in I
  <2> SUFFICES ASSUME i + 1 <= j, i + 1 <= k
               PROVE  f[i + 1] = g[i + 1]
    OBVIOUS
  <2>1. i \in Nat /\ f[i] = g[i] /\ i + 1 # 0 /\ (i + 1) - 1 = i
    OBVIOUS
  <2>2. i + 1 \in 0 .. j /\ i + 1 \in 0 .. k /\ xs[i + 1] = ys[i + 1]
    BY <2>1
  <2> QED BY <1>1, <2>1, <2>2
<1>4. I = Nat
  <2> HIDE DEF I
  <2>1. I \in SUBSET Nat
    BY DEF I
  <2> QED BY <1>2, <1>3, <2>1, Induction
<1> QED BY <1>4

\* What is combined of the first n elements.
Combined(how, arg, first, xs, n) ==
  (CHOOSE f : Combines(f, how, arg, first, xs, n))[n]

LEMMA CombinedStart ==
  ASSUME NEW how, NEW arg, NEW first, NEW xs
  PROVE  Combined(how, arg, first, xs, 0) = first
<1>1. Combines(CHOOSE f : Combines(f, how, arg, first, xs, 0), how, arg, first, xs, 0)
  BY CombinesExists
<1> QED BY <1>1 DEF Combined, Combines

LEMMA CombinedStep ==
  ASSUME NEW how, NEW arg, NEW first, NEW xs, NEW n \in Nat, NEW k \in Nat, k = n + 1
  PROVE  Combined(how, arg, first, xs, k) =
           Combine(how, arg, Combined(how, arg, first, xs, n), xs[k])
<1> DEFINE f == CHOOSE h : Combines(h, how, arg, first, xs, n)
           g == CHOOSE h : Combines(h, how, arg, first, xs, k)
<1>1. Combines(f, how, arg, first, xs, n) /\ Combines(g, how, arg, first, xs, k)
  BY CombinesExists
<1>2. Combined(how, arg, first, xs, n) = f[n] /\ Combined(how, arg, first, xs, k) = g[k]
  BY DEF Combined
<1> HIDE DEF f, g
<1>3. g[n] = f[n]
  BY <1>1, CombinesOnce
<1>4. g[k] = Combine(how, arg, g[n], xs[k])
  <2>1. k \in 0 .. k /\ k # 0 /\ k - 1 = n
    OBVIOUS
  <2> QED BY <1>1, <2>1 DEF Combines
<1> QED BY <1>2, <1>3, <1>4

\* Equal elements make equal results.
LEMMA CombinedSame ==
  ASSUME NEW how, NEW arg, NEW first, NEW xs, NEW ys, NEW n \in Nat,
         \A i \in Nat \ {0} : i <= n => xs[i] = ys[i]
  PROVE  Combined(how, arg, first, xs, n) = Combined(how, arg, first, ys, n)
<1> DEFINE f(zs) == CHOOSE h : Combines(h, how, arg, first, zs, n)
<1>1. Combines(f(xs), how, arg, first, xs, n) /\ Combines(f(ys), how, arg, first, ys, n)
  BY CombinesExists
<1>2. Combined(how, arg, first, xs, n) = f(xs)[n] /\ Combined(how, arg, first, ys, n) = f(ys)[n]
  BY DEF Combined
<1> HIDE DEF f
<1> QED BY <1>1, <1>2, CombinesOnce

\* The three functions are such combinations.
LEMMA AfterAllIs ==
  ASSUME NEW r, NEW ops, Len(ops) \in Nat
  PROVE  AfterAll(r, ops) = Combined("after", r, Initially(r), ops, Len(ops))
<1>1. \A f : Combines(f, "after", r, Initially(r), ops, Len(ops)) <=>
        f = [i \in 0 .. Len(ops) |-> IF i = 0 THEN Initially(r) ELSE Applied(r, f[i - 1], ops[i])]
  BY DEF Combines, Combine
<1> DEFINE g == CHOOSE f : f = [i \in 0 .. Len(ops) |->
                              IF i = 0 THEN Initially(r) ELSE Applied(r, f[i - 1], ops[i])]
           h == CHOOSE f : Combines(f, "after", r, Initially(r), ops, Len(ops))
<1>2. AfterAll(r, ops) = g[Len(ops)]
  BY DEF AfterAll
<1>3. /\ Combines(g, "after", r, Initially(r), ops, Len(ops))
      /\ Combines(h, "after", r, Initially(r), ops, Len(ops))
  BY <1>1, CombinesExists
<1>4. Combined("after", r, Initially(r), ops, Len(ops)) = h[Len(ops)]
  BY DEF Combined
<1> HIDE DEF g, h
<1>5. g[Len(ops)] = h[Len(ops)]
  BY <1>3, CombinesOnce
<1> QED BY <1>2, <1>4, <1>5

LEMMA IdsIs ==
  ASSUME NEW lines, NEW kind, Len(lines) \in Nat
  PROVE  Ids(lines, kind) = Combined("ids", kind, Nothing, lines, Len(lines))
<1>1. \A f : Combines(f, "ids", kind, Nothing, lines, Len(lines)) <=>
        f = [i \in 0 .. Len(lines) |->
               IF i = 0 THEN <<>>
               ELSE IF lines[i].kind = kind THEN Append(f[i - 1], lines[i].id) ELSE f[i - 1]]
  BY DEF Combines, Combine, Nothing
<1> DEFINE g == CHOOSE f : f = [i \in 0 .. Len(lines) |->
               IF i = 0 THEN <<>>
               ELSE IF lines[i].kind = kind THEN Append(f[i - 1], lines[i].id) ELSE f[i - 1]]
           h == CHOOSE f : Combines(f, "ids", kind, Nothing, lines, Len(lines))
<1>2. Ids(lines, kind) = g[Len(lines)]
  BY DEF Ids
<1>3. /\ Combines(g, "ids", kind, Nothing, lines, Len(lines))
      /\ Combines(h, "ids", kind, Nothing, lines, Len(lines))
  BY <1>1, CombinesExists
<1>4. Combined("ids", kind, Nothing, lines, Len(lines)) = h[Len(lines)]
  BY DEF Combined
<1> HIDE DEF g, h
<1>5. g[Len(lines)] = h[Len(lines)]
  BY <1>3, CombinesOnce
<1> QED BY <1>2, <1>4, <1>5

\* The archives of the seconds, in a sequence.
InOrder(dated) == [i \in 1 .. MaxClock + 1 |-> dated[i - 1]]

LEMMA ArchivedIs ==
  ASSUME NEW dated, NEW kind
  PROVE  Archived(dated, kind) = Combined("archived", kind, Nothing, InOrder(dated), MaxClock + 1)
<1> DEFINE m == MaxClock + 1
           xs == InOrder(dated)
<1>1. m \in Nat /\ \A i \in 0 .. m : i # 0 => xs[i] = dated[i - 1]
  BY McAssumption DEF InOrder
<1>2. \A f : Combines(f, "archived", kind, Nothing, xs, m) <=>
        f = [t \in 0 .. m |->
               IF t = 0 THEN <<>>
               ELSE f[t - 1] \o Ids(IF dated[t - 1] = None THEN <<>> ELSE dated[t - 1], kind)]
  <2> HIDE DEF m, xs
  <2> QED BY <1>1 DEF Combines, Combine, Text, Nothing
<1> DEFINE g == CHOOSE f : f = [t \in 0 .. m |->
               IF t = 0 THEN <<>>
               ELSE f[t - 1] \o Ids(IF dated[t - 1] = None THEN <<>> ELSE dated[t - 1], kind)]
           h == CHOOSE f : Combines(f, "archived", kind, Nothing, xs, m)
<1>3. Archived(dated, kind) = g[m]
  BY DEF Archived
<1>4. Combines(g, "archived", kind, Nothing, xs, m) /\ Combines(h, "archived", kind, Nothing, xs, m)
  <2> HIDE DEF xs, m
  <2> QED BY <1>1, <1>2, CombinesExists
<1>5. Combined("archived", kind, Nothing, xs, m) = h[m]
  BY DEF Combined
<1> HIDE DEF g, h, m, xs
<1>6. g[m] = h[m]
  <2>1. m \in Nat /\ Combines(g, "archived", kind, Nothing, xs, m)
        /\ Combines(h, "archived", kind, Nothing, xs, m) /\ m <= m
    BY <1>1, <1>4
  <2>2. \A i \in Nat : i <= m /\ i <= m => g[i] = h[i]
    BY ONLY <2>1, CombinesOnce
  <2> QED BY <2>1, <2>2
<1> QED BY <1>3, <1>5, <1>6 DEF m, xs

LEMMA EmptyText ==
  /\ Len(<<>>) = 0 /\ \A S : \A s \in Seq(S) : s \o <<>> = s
BY ConcatEmptySeq

LEMMA AppendedSeq ==
  ASSUME NEW S, NEW s \in Seq(S), NEW x
  PROVE  /\ Len(s) \in Nat /\ Len(Append(s, x)) = Len(s) + 1
         /\ Append(s, x)[Len(s) + 1] = x
         /\ \A i \in Nat \ {0} : i <= Len(s) => Append(s, x)[i] = s[i]
<1>1. s \in Seq(S \cup {x}) /\ x \in S \cup {x}
  BY SeqMonotonic
<1> QED BY <1>1, AppendProperties, LenProperties

\* What the operations make of a resource, one more at a time.
LEMMA AfterAllStart ==
  ASSUME NEW r
  PROVE  AfterAll(r, <<>>) = Initially(r)
BY EmptyText, AfterAllIs, CombinedStart

LEMMA AfterAllStep ==
  ASSUME NEW r, NEW S, NEW ops \in Seq(S), NEW op
  PROVE  AfterAll(r, Append(ops, op)) = Applied(r, AfterAll(r, ops), op)
<1> DEFINE more == Append(ops, op)
           n == Len(ops)
           after(xs, k) == Combined("after", r, Initially(r), xs, k)
<1>1. /\ n \in Nat /\ Len(more) = n + 1 /\ more[n + 1] = op
      /\ \A i \in Nat \ {0} : i <= n => more[i] = ops[i]
  BY AppendedSeq
<1>2. AfterAll(r, ops) = after(ops, n)
  BY <1>1, AfterAllIs
<1>3. AfterAll(r, more) = after(more, n + 1)
  <2>1. Len(more) \in Nat
    BY <1>1
  <2>2. Len(more) = n + 1
    BY <1>1
  <2> HIDE DEF more, n
  <2>3. AfterAll(r, more) = after(more, Len(more))
    BY <2>1, AfterAllIs
  <2> QED BY <2>2, <2>3
<1> HIDE DEF n, more
<1>4. after(more, n) = after(ops, n)
  BY <1>1, CombinedSame
<1>5. after(more, n + 1) = Combine("after", r, after(more, n), op)
  BY <1>1, CombinedStep
<1>6. Combine("after", r, after(more, n), op) = Applied(r, after(more, n), op)
  BY DEF Combine
<1> HIDE DEF after
<1> QED BY <1>2, <1>3, <1>4, <1>5, <1>6 DEF more

\* The ids of one more line.
LEMMA IdsStart ==
  ASSUME NEW kind
  PROVE  Ids(<<>>, kind) = <<>>
<1>1. Ids(<<>>, kind) = Combined("ids", kind, Nothing, <<>>, 0)
  BY EmptyText, IdsIs
<1>2. Combined("ids", kind, Nothing, <<>>, 0) = Nothing
  BY CombinedStart
<1> QED BY <1>1, <1>2 DEF Nothing

LEMMA IdsStep ==
  ASSUME NEW kind, NEW S, NEW lines \in Seq(S), NEW line
  PROVE  Ids(Append(lines, line), kind) =
           IF line.kind = kind THEN Append(Ids(lines, kind), line.id) ELSE Ids(lines, kind)
<1> DEFINE more == Append(lines, line)
           n == Len(lines)
           ids(xs, k) == Combined("ids", kind, Nothing, xs, k)
<1>1. /\ n \in Nat /\ Len(more) = n + 1 /\ more[n + 1] = line
      /\ \A i \in Nat \ {0} : i <= n => more[i] = lines[i]
  BY AppendedSeq
<1>2. Ids(lines, kind) = ids(lines, n)
  BY <1>1, IdsIs
<1>3. Ids(more, kind) = ids(more, n + 1)
  <2>1. Len(more) \in Nat
    BY <1>1
  <2>2. Len(more) = n + 1
    BY <1>1
  <2> HIDE DEF more, n
  <2>3. Ids(more, kind) = ids(more, Len(more))
    BY <2>1, IdsIs
  <2> QED BY <2>2, <2>3
<1> HIDE DEF n, more
<1>4. ids(more, n) = ids(lines, n)
  BY <1>1, CombinedSame
<1>5. ids(more, n + 1) = Combine("ids", kind, ids(more, n), line)
  BY <1>1, CombinedStep
<1>6. Combine("ids", kind, ids(more, n), line) =
        IF line.kind = kind THEN Append(ids(more, n), line.id) ELSE ids(more, n)
  BY DEF Combine
<1> HIDE DEF ids
<1> QED BY <1>2, <1>3, <1>4, <1>5, <1>6 DEF more

\* They are numbers, and of a log that has no lines of the kind there are none.
LEMMA IdsType ==
  ASSUME NEW lines \in Seq(LogLine), NEW kind
  PROVE  Ids(lines, kind) \in Seq(Nat)
<1> DEFINE ids(n) == Combined("ids", kind, Nothing, lines, n)
           I == {n \in Nat : n <= Len(lines) => ids(n) \in Seq(Nat)}
<1>1. Len(lines) \in Nat
  BY LenProperties
<1>2. ids(0) = Nothing /\ \A n \in Nat : ids(n + 1) = Combine("ids", kind, ids(n), lines[n + 1])
  BY CombinedStart, CombinedStep
<1> HIDE DEF ids
<1>3. 0 \in I
  BY <1>2, EmptySeq DEF Nothing
<1>4. ASSUME NEW n \in I
      PROVE  n + 1 \in I
  <2> SUFFICES ASSUME n + 1 <= Len(lines)
               PROVE  ids(n + 1) \in Seq(Nat)
    OBVIOUS
  <2>1. ids(n) \in Seq(Nat) /\ n + 1 \in 1 .. Len(lines) /\ n \in Nat
    BY <1>1
  <2>2. lines[n + 1].id \in Nat
    <3>1. lines[n + 1] \in LogLine
      BY <2>1, ElementOfSeq
    <3> QED BY <3>1 DEF LogLine
  <2>3. Append(ids(n), lines[n + 1].id) \in Seq(Nat)
    BY <2>1, <2>2, AppendProperties
  <2> QED BY <1>2, <2>1, <2>3 DEF Combine
<1>5. I = Nat
  <2>1. I \in SUBSET Nat
    OBVIOUS
  <2> HIDE DEF I
  <2> QED BY <1>3, <1>4, <2>1, Induction
<1>6. ids(Len(lines)) \in Seq(Nat)
  BY <1>1, <1>5
<1> QED BY <1>1, <1>6, IdsIs DEF ids

LEMMA IdsOfOthers ==
  ASSUME NEW lines, Len(lines) \in Nat, NEW kind,
         \A i \in 1 .. Len(lines) : lines[i].kind # kind
  PROVE  Ids(lines, kind) = <<>>
<1> DEFINE ids(n) == Combined("ids", kind, Nothing, lines, n)
           I == {n \in Nat : n <= Len(lines) => ids(n) = <<>>}
<1>1. ids(0) = Nothing /\ \A n \in Nat : ids(n + 1) = Combine("ids", kind, ids(n), lines[n + 1])
  BY CombinedStart, CombinedStep
<1> HIDE DEF ids
<1>2. 0 \in I
  BY <1>1 DEF Nothing
<1>3. ASSUME NEW n \in I
      PROVE  n + 1 \in I
  <2> SUFFICES ASSUME n + 1 <= Len(lines)
               PROVE  ids(n + 1) = <<>>
    OBVIOUS
  <2>1. ids(n) = <<>> /\ n + 1 \in 1 .. Len(lines) /\ n \in Nat
    OBVIOUS
  <2>2. lines[n + 1].kind # kind
    BY <2>1
  <2> QED BY <1>1, <2>1, <2>2 DEF Combine
<1>4. I = Nat
  <2>1. I \in SUBSET Nat
    OBVIOUS
  <2> HIDE DEF I
  <2> QED BY <1>2, <1>3, <2>1, Induction
<1>5. ids(Len(lines)) = <<>>
  BY <1>4
<1> QED BY <1>5, IdsIs DEF ids

\* The lines the hook adds to the inbox: the observations after m, n of them.
NewLines(m, n) == [i \in 1 .. n |-> [kind |-> "observation", id |-> m + i]]
Numbers(m, n) == [i \in 1 .. n |-> m + i]

LEMMA NextOfFunction ==
  ASSUME NEW n \in Nat, NEW S, NEW f \in [1 .. n + 1 -> S]
  PROVE  f = Append([i \in 1 .. n |-> f[i]], f[n + 1])
<1> DEFINE g == [i \in 1 .. n |-> f[i]]
<1>1. g \in Seq(S) /\ Len(g) = n
  BY IsASeq
<1>2. f \in Seq(S) /\ Len(f) = n + 1
  BY IsASeq
<1>3. f[n + 1] \in S /\ \A i \in 1 .. n : g[i] = f[i]
  OBVIOUS
<1> HIDE DEF g
<1>4. Append(g, f[n + 1]) \in Seq(S) /\ Len(Append(g, f[n + 1])) = n + 1
      /\ \A i \in 1 .. n : Append(g, f[n + 1])[i] = g[i]
      /\ Append(g, f[n + 1])[n + 1] = f[n + 1]
  BY <1>1, <1>3, AppendProperties
<1>5. \A i \in 1 .. n + 1 : Append(g, f[n + 1])[i] = f[i]
  BY <1>3, <1>4
<1>6. Append(g, f[n + 1]) = f
  BY <1>2, <1>4, <1>5, SeqEqual
<1> QED BY <1>6 DEF g

LEMMA NextNew ==
  ASSUME NEW m \in Nat, NEW n \in Nat
  PROVE  /\ NewLines(m, n) \in Seq(LogLine) /\ Numbers(m, n) \in Seq(Nat)
         /\ NewLines(m, n + 1) = Append(NewLines(m, n), [kind |-> "observation", id |-> m + n + 1])
         /\ Numbers(m, n + 1) = Append(Numbers(m, n), m + n + 1)
<1> DEFINE line(i) == [kind |-> "observation", id |-> m + i]
<1>1. \A i \in Nat : line(i) \in LogLine
  BY DEF LogLine
<1> HIDE DEF line
<1>2. [i \in 1 .. n |-> line(i)] \in Seq(LogLine) /\ [i \in 1 .. n |-> m + i] \in Seq(Nat)
  BY <1>1, IsASeq
<1>3. [i \in 1 .. n + 1 |-> line(i)] = Append([i \in 1 .. n |-> line(i)], line(n + 1))
  <2> DEFINE f == [i \in 1 .. n + 1 |-> line(i)]
  <2>1. f \in [1 .. n + 1 -> LogLine]
    BY <1>1
  <2>2. \A i \in 1 .. n + 1 : f[i] = line(i)
    OBVIOUS
  <2>3. [i \in 1 .. n |-> f[i]] = [i \in 1 .. n |-> line(i)] /\ f[n + 1] = line(n + 1)
    BY <2>2
  <2> HIDE DEF f
  <2>4. f = Append([i \in 1 .. n |-> f[i]], f[n + 1])
    BY <2>1, NextOfFunction
  <2> QED BY <2>3, <2>4 DEF f
<1>4. [i \in 1 .. n + 1 |-> m + i] = Append([i \in 1 .. n |-> m + i], m + (n + 1))
  <2> DEFINE f == [i \in 1 .. n + 1 |-> m + i]
  <2>1. f \in [1 .. n + 1 -> Nat]
    OBVIOUS
  <2>2. \A i \in 1 .. n + 1 : f[i] = m + i
    OBVIOUS
  <2>3. [i \in 1 .. n |-> f[i]] = [i \in 1 .. n |-> m + i] /\ f[n + 1] = m + (n + 1)
    BY <2>2
  <2> HIDE DEF f
  <2>4. f = Append([i \in 1 .. n |-> f[i]], f[n + 1])
    BY <2>1, NextOfFunction
  <2> QED BY <2>3, <2>4 DEF f
<1>5. m + (n + 1) = m + n + 1
  OBVIOUS
<1> QED BY <1>2, <1>3, <1>4, <1>5 DEF NewLines, Numbers, line

LEMMA IdsOfNew ==
  ASSUME NEW lines \in Seq(LogLine), NEW m \in Nat, NEW n \in Nat
  PROVE  /\ Ids(lines \o NewLines(m, n), "observation") =
              Ids(lines, "observation") \o Numbers(m, n)
         /\ Ids(lines \o NewLines(m, n), "call") = Ids(lines, "call")
<1> DEFINE P(k) == /\ Ids(lines \o NewLines(m, k), "observation") =
                        Ids(lines, "observation") \o Numbers(m, k)
                   /\ Ids(lines \o NewLines(m, k), "call") = Ids(lines, "call")
           I == {k \in Nat : P(k)}
<1>1. \A kind : Ids(lines, kind) \in Seq(Nat)
  BY IdsType
<1>2. P(0)
  <2>1. NewLines(m, 0) = <<>> /\ Numbers(m, 0) = <<>>
    BY DEF NewLines, Numbers
  <2>2. lines \o <<>> = lines /\ Ids(lines, "observation") \o <<>> = Ids(lines, "observation")
    BY <1>1, ConcatEmptySeq
  <2> QED BY <2>1, <2>2
<1>3. ASSUME NEW k \in Nat, P(k)
      PROVE  P(k + 1)
  <2> DEFINE line == [kind |-> "observation", id |-> m + k + 1]
             new == NewLines(m, k)
             numbers == Numbers(m, k)
  <2>1. /\ new \in Seq(LogLine) /\ numbers \in Seq(Nat)
        /\ NewLines(m, k + 1) = Append(new, line) /\ Numbers(m, k + 1) = Append(numbers, m + k + 1)
    BY NextNew
  <2>2. line \in LogLine /\ line.kind = "observation" /\ line.id = m + k + 1 /\ m + k + 1 \in Nat
    BY DEF LogLine
  <2> HIDE DEF line, new, numbers
  <2>3. lines \o Append(new, line) = Append(lines \o new, line) /\ lines \o new \in Seq(LogLine)
    <3>1. line \in LogLine /\ new \in Seq(LogLine)
      BY <2>1, <2>2
    <3>2. lines \o new \in Seq(LogLine)
      BY <3>1, ConcatProperties
    <3>3. Append(lines \o new, line) = lines \o Append(new, line)
      BY ONLY <3>1
    <3> QED BY <3>2, <3>3
  <2>4. /\ Ids(Append(lines \o new, line), "observation") =
             Append(Ids(lines \o new, "observation"), m + k + 1)
        /\ Ids(Append(lines \o new, line), "call") = Ids(lines \o new, "call")
    <3>1. \A kind : Ids(Append(lines \o new, line), kind) =
                      IF line.kind = kind THEN Append(Ids(lines \o new, kind), line.id)
                      ELSE Ids(lines \o new, kind)
      BY <2>3, IdsStep
    <3> QED BY <2>2, <3>1
  <2>5. Append(Ids(lines, "observation") \o numbers, m + k + 1) =
          Ids(lines, "observation") \o Append(numbers, m + k + 1)
    <3>1. Ids(lines, "observation") \in Seq(Nat) /\ numbers \in Seq(Nat) /\ m + k + 1 \in Nat
      BY <1>1, <2>1, <2>2
    <3>2. PICK a, b, x : a = Ids(lines, "observation") /\ b = numbers /\ x = m + k + 1
      OBVIOUS
    <3> DEFINE S == Nat
    <3>3. a \in Seq(S) /\ b \in Seq(S) /\ x \in S
      BY <3>1, <3>2
    <3> HIDE DEF S
    <3>4. Append(a \o b, x) = a \o Append(b, x)
      BY ONLY <3>3, SMTT(60)
    <3> QED BY <3>2, <3>4
  <2>6. /\ Ids(lines \o new, "observation") = Ids(lines, "observation") \o numbers
        /\ Ids(lines \o new, "call") = Ids(lines, "call")
    BY <1>3 DEF new, numbers
  <2> QED BY <2>1, <2>3, <2>4, <2>5, <2>6
<1> HIDE DEF P
<1>4. I = Nat
  <2>1. I \in SUBSET Nat /\ 0 \in I /\ \A k \in I : k + 1 \in I
    BY <1>2, <1>3
  <2> HIDE DEF I
  <2> QED BY <2>1, Induction
<1>5. P(n)
  BY <1>4
<1> QED BY <1>5 DEF P

\* The archives of a log.
SoFar(dated, kind, n) == Combined("archived", kind, Nothing, InOrder(dated), n)

LEMMA SoFarSteps ==
  ASSUME NEW dated, NEW kind, NEW t \in Seconds
  PROVE  /\ SoFar(dated, kind, 0) = <<>> /\ t \in Nat /\ t + 1 <= MaxClock + 1
         /\ SoFar(dated, kind, t + 1) = SoFar(dated, kind, t) \o Ids(Text(dated[t]), kind)
<1>1. t \in Nat /\ t + 1 \in Nat /\ t + 1 \in 1 .. MaxClock + 1 /\ (t + 1) - 1 = t
      /\ t + 1 <= MaxClock + 1
  BY McAssumption DEF Seconds
<1>2. InOrder(dated)[t + 1] = dated[t]
  BY <1>1 DEF InOrder
<1>3. SoFar(dated, kind, t + 1) = Combine("archived", kind, SoFar(dated, kind, t), InOrder(dated)[t + 1])
  BY <1>1, CombinedStep DEF SoFar
<1>4. SoFar(dated, kind, 0) = <<>>
  BY CombinedStart DEF SoFar, Nothing
<1> QED BY <1>1, <1>2, <1>3, <1>4 DEF Combine

LEMMA TextType ==
  ASSUME NEW lines \in Seq(LogLine) \cup {None}, NEW kind
  PROVE  Text(lines) \in Seq(LogLine) /\ Ids(Text(lines), kind) \in Seq(Nat)
<1>1. Text(lines) \in Seq(LogLine)
  BY EmptySeq DEF Text
<1> QED BY <1>1, IdsType

LEMMA SoFarType ==
  ASSUME NEW dated \in [Seconds -> Seq(LogLine) \cup {None}], NEW kind
  PROVE  \A n \in Nat : n <= MaxClock + 1 => SoFar(dated, kind, n) \in Seq(Nat)
<1> DEFINE I == {n \in Nat : n <= MaxClock + 1 => SoFar(dated, kind, n) \in Seq(Nat)}
<1>1. 0 \in I
  <2>1. 0 \in Seconds
    BY McAssumption DEF Seconds
  <2> QED BY <2>1, SoFarSteps, EmptySeq
<1>2. ASSUME NEW n \in I
      PROVE  n + 1 \in I
  <2> SUFFICES ASSUME n + 1 <= MaxClock + 1
               PROVE  SoFar(dated, kind, n + 1) \in Seq(Nat)
    OBVIOUS
  <2>1. n \in Seconds /\ SoFar(dated, kind, n) \in Seq(Nat)
    BY McAssumption DEF Seconds
  <2>2. Ids(Text(dated[n]), kind) \in Seq(Nat)
    BY <2>1, TextType
  <2>3. SoFar(dated, kind, n) \o Ids(Text(dated[n]), kind) \in Seq(Nat)
    BY <2>1, <2>2, ConcatProperties
  <2> QED BY <2>1, <2>3, SoFarSteps
<1>3. I = Nat
  <2>1. I \in SUBSET Nat
    OBVIOUS
  <2> HIDE DEF I
  <2> QED BY <1>1, <1>2, <2>1, Induction
<1> QED BY <1>3

LEMMA ArchivedIds ==
  ASSUME NEW dated \in [Seconds -> Seq(LogLine) \cup {None}], NEW kind
  PROVE  /\ Archived(dated, kind) = SoFar(dated, kind, MaxClock + 1)
         /\ Archived(dated, kind) \in Seq(Nat)
<1>1. Archived(dated, kind) = SoFar(dated, kind, MaxClock + 1)
  BY ArchivedIs DEF SoFar
<1>2. MaxClock + 1 \in Nat /\ MaxClock + 1 <= MaxClock + 1
  BY McAssumption
<1> QED BY <1>1, <1>2, SoFarType

\* Nothing is added after the last archive.
LEMMA SoFarEnds ==
  ASSUME NEW dated \in [Seconds -> Seq(LogLine) \cup {None}], NEW kind, NEW c \in Nat,
         c <= MaxClock + 1, \A t \in Seconds : t >= c => dated[t] = None
  PROVE  Archived(dated, kind) = SoFar(dated, kind, c)
<1> DEFINE I == {n \in Nat : c <= n /\ n <= MaxClock + 1 =>
                                SoFar(dated, kind, n) = SoFar(dated, kind, c)}
<1>1. 0 \in I
  <2>1. c <= 0 => c = 0
    OBVIOUS
  <2> QED BY <2>1
<1>2. ASSUME NEW n \in I
      PROVE  n + 1 \in I
  <2> SUFFICES ASSUME c <= n + 1, n + 1 <= MaxClock + 1
               PROVE  SoFar(dated, kind, n + 1) = SoFar(dated, kind, c)
    OBVIOUS
  <2>1. CASE c = n + 1
    BY <2>1
  <2>2. CASE c # n + 1
    <3>1. c <= n /\ n <= MaxClock + 1 /\ n \in Seconds /\ n \in Nat /\ n >= c
      BY <2>2, McAssumption DEF Seconds
    <3>2. SoFar(dated, kind, n) = SoFar(dated, kind, c)
      BY <3>1
    <3>3. Ids(Text(dated[n]), kind) = <<>>
      BY <3>1, IdsStart DEF Text
    <3>4. SoFar(dated, kind, n + 1) = SoFar(dated, kind, n) \o <<>>
      BY <3>1, <3>3, SoFarSteps
    <3>5. SoFar(dated, kind, n) \o <<>> = SoFar(dated, kind, n)
      BY <3>1, SoFarType, EmptyText
    <3> QED BY <3>2, <3>4, <3>5
  <2> QED BY <2>1, <2>2
<1>3. I = Nat
  <2>1. I \in SUBSET Nat
    OBVIOUS
  <2> HIDE DEF I
  <2> QED BY <1>1, <1>2, <2>1, Induction
<1>4. MaxClock + 1 \in Nat /\ MaxClock + 1 <= MaxClock + 1
  BY McAssumption
<1> QED BY <1>3, <1>4, ArchivedIds

\* A log archived after all others is at the end.
LEMMA ArchivedMore ==
  ASSUME NEW dated \in [Seconds -> Seq(LogLine) \cup {None}], NEW kind, NEW c \in Seconds,
         \A t \in Seconds : t >= c => dated[t] = None, NEW lines \in Seq(LogLine)
  PROVE  Archived([dated EXCEPT ![c] = lines], kind) = Archived(dated, kind) \o Ids(lines, kind)
<1> DEFINE more == [dated EXCEPT ![c] = lines]
<1>1. /\ more \in [Seconds -> Seq(LogLine) \cup {None}] /\ more[c] = lines
      /\ \A t \in Seconds : t # c => more[t] = dated[t]
  OBVIOUS
<1>2. c \in Nat /\ c + 1 \in Nat /\ c <= MaxClock + 1 /\ c + 1 <= MaxClock + 1
  BY McAssumption DEF Seconds
<1>3. \A t \in Seconds : t >= c + 1 => t # c /\ t >= c
  BY <1>2 DEF Seconds
<1>4. \A t \in Seconds : t >= c + 1 => more[t] = None
  BY <1>1, <1>3
<1>5. lines # None
  BY McAssumption DEF Files, Logs, Line
<1> HIDE DEF more
<1>6. Archived(more, kind) = SoFar(more, kind, c + 1)
  BY <1>1, <1>2, <1>4, SoFarEnds
<1>7. Archived(dated, kind) = SoFar(dated, kind, c)
  BY <1>2, SoFarEnds
<1>8. SoFar(more, kind, c + 1) = SoFar(more, kind, c) \o Ids(lines, kind)
  <2>1. Text(more[c]) = lines
    BY <1>1, <1>5 DEF Text
  <2> QED BY <2>1, SoFarSteps
<1>9. SoFar(more, kind, c) = SoFar(dated, kind, c)
  <2>1. \A i \in Nat \ {0} : i <= c => InOrder(more)[i] = InOrder(dated)[i]
    <3> SUFFICES ASSUME NEW i \in Nat \ {0}, i <= c
                 PROVE  InOrder(more)[i] = InOrder(dated)[i]
      OBVIOUS
    <3>1. i \in 1 .. MaxClock + 1 /\ i - 1 \in Seconds /\ i - 1 # c
      BY <1>2, McAssumption DEF Seconds
    <3> QED BY <1>1, <3>1 DEF InOrder
  <2> QED BY <1>2, <2>1, CombinedSame DEF SoFar
<1> QED BY <1>6, <1>7, <1>8, <1>9 DEF more

\* At first there are no archives.
LEMMA ArchivedNone ==
  ASSUME NEW kind
  PROVE  Archived([t \in Seconds |-> None], kind) = <<>>
<1> DEFINE dated == [t \in Seconds |-> None]
<1>1. dated \in [Seconds -> Seq(LogLine) \cup {None}] /\ \A t \in Seconds : dated[t] = None
  OBVIOUS
<1>2. 0 \in Nat /\ 0 <= MaxClock + 1 /\ 0 \in Seconds
  BY McAssumption DEF Seconds
<1> HIDE DEF dated
<1>3. Archived(dated, kind) = SoFar(dated, kind, 0)
  BY <1>1, <1>2, SoFarEnds
<1> QED BY <1>2, <1>3, SoFarSteps DEF dated

-----------------------------------------------------------------------------
(***************************************************************************)
(* The shared resources.  What a server has read of one it is to write is  *)
(* what is still there, unless another server or a failure came between.   *)
(***************************************************************************)
WritingTo(s, f) == At(s, "write") /\ Resource(s) = f
Rewriting(s, f) == (At(s, "truncate") \/ At(s, "write")) /\ Resource(s) = f

Listed == \A f \in {"todo", "source"} : \E S : performed[f] \in Seq(S)

MemoriesKept ==
  "memories" \notin disturbed => memories = AfterAll("memories", performed["memories"])

RewriteKept(s, f) ==
  /\ Rewriting(s, f) => srv[s].copy = Edited(f, AfterAll(f, performed[f]), srv[s].request)
  /\ WritingTo(s, f) => Lines(f) = Nothing

FileKept(f) ==
  f \notin disturbed =>
    /\ \A s, t \in Servers : Rewriting(s, f) /\ Rewriting(t, f) => s = t
    /\ \A s \in Servers : RewriteKept(s, f)
    /\ (\A s \in Servers : ~WritingTo(s, f)) => Lines(f) = AfterAll(f, performed[f])

\* No archive is dated later than now, and none is replaced.
Dated(f) == f \notin disturbed => \A t \in Seconds : t > clock => archives[f][t] = None

LogKept(f) == f \notin disturbed => LinesOf(f, "call") = performed[f]

\* The inbox has the observations up to n, and every line of a call.
Complete(n) ==
  /\ LinesOf("inbox", "observation") = Numbers(0, n)
  /\ LinesOf("inbox", "call") = performed["inbox"]

HookKept(s) ==
  InHook(s) =>
    /\ srv[s].last = lastExtracted
    /\ ~At(s, "rows") => srv[s].last <= srv[s].seen
    /\ At(s, "truncate") =>
         srv[s].copy = Lines("inbox") \o NewLines(srv[s].last, srv[s].seen - srv[s].last)
    /\ At(s, "write") =>
         /\ srv[s].moved = None /\ Lines("inbox") = Nothing
         /\ Archived(archives["inbox"], "observation") \o Ids(srv[s].copy, "observation")
              = Numbers(0, srv[s].seen)
         /\ Archived(archives["inbox"], "call") \o Ids(srv[s].copy, "call") = performed["inbox"]
    /\ At(s, "save") => Complete(srv[s].seen)

InboxKept ==
  "inbox" \notin disturbed =>
    /\ \A s, t \in Servers : InHook(s) /\ InHook(t) => s = t
    /\ \A s \in Servers : HookKept(s)
    /\ (\A s \in Servers : ~WritingTo(s, "inbox") /\ ~At(s, "save")) => Complete(lastExtracted)

Shared ==
  /\ Listed /\ MemoriesKept
  /\ \A f \in {"todo", "source"} : FileKept(f)
  /\ \A f \in {"decisions", "patterns"} : LogKept(f)
  /\ \A f \in Logs : Dated(f)
  /\ InboxKept

\* Who is using a resource.
LEMMA HeldFiles ==
  ASSUME Settled, NEW s \in Servers
  PROVE  /\ \A f \in {"todo", "source"} : Held(s) = f <=> Rewriting(s, f)
         /\ Held(s) = "inbox" <=> InHook(s)
<1>1. CASE ~Calling(s)
  BY <1>1, McAssumption DEF Calling, Held, At, Rewriting, InHook, Files, Logs
<1>2. CASE Calling(s)
  <2>1. srv[s].steps[1] \in Steps /\ Resource(s) = srv[s].steps[1][2]
        /\ \A op : At(s, op) <=> srv[s].steps[1][1] = op
    BY <1>2, FirstStep DEF Settled
  <2>2. None \notin {"todo", "source", "inbox"}
    BY McAssumption DEF Files, Logs
  <2>3. ASSUME NEW f \in {"todo", "source"}
        PROVE  Held(s) = f <=> Rewriting(s, f)
    BY <2>1, <2>2 DEF Held, Steps, Logs, Rewriting
  <2>4. Held(s) = "inbox" <=> InHook(s)
    BY <2>1, <2>2 DEF Held, Steps, Logs, InHook
  <2> QED BY <2>3, <2>4
<1> QED BY <1>1, <1>2

\* Who is at a step of a rewrite or of the hook takes it, or is cut short in it.
LEMMA WhoTakes ==
  ASSUME NEW s \in Servers, Step(s) \/ CutShort(s) \/ AppendFails(s)
  PROVE  /\ At(s, "last") => ReadLast(s) \/ CutShort(s)
         /\ At(s, "rows") => SelectRows(s) \/ CutShort(s)
         /\ At(s, "read") => ReadInbox(s) \/ CutShort(s)
         /\ At(s, "load") => Load(s) \/ CutShort(s)
         /\ At(s, "truncate") => Truncate(s) \/ CutShort(s)
         /\ At(s, "write") => Write(s) \/ CutShort(s)
         /\ At(s, "save") => SaveExtracted(s) \/ CutShort(s)
<1>1. CASE AppendFails(s)
  BY <1>1 DEF AppendFails, At
<1>2. CASE Step(s)
  BY <1>2 DEF Step, SaveObservation, ReadLast, SelectRows, ReadInbox, Truncate, Write,
       SaveExtracted, Load, CheckSize, Rename, AppendLine, Exists, UpsertMemory, DeleteOld, Find,
       Touch, WriteContract, FindEvent, RecordEvent, ScanDoc, StoreDoc, CacheDoc, ListStale,
       ForgetDoc, UncacheDoc, At
<1> QED BY <1>1, <1>2

\* What a step leaves as it is: what it is not about.
LEMMA StepFrame ==
  ASSUME NEW s \in Servers, Step(s) \/ CutShort(s) \/ AppendFails(s)
  PROVE  /\ disturbed \subseteq disturbed' /\ UNCHANGED clock
         /\ SaveExtracted(s) \/ UNCHANGED lastExtracted
         /\ \/ UNCHANGED <<files, archives>> \/ Truncate(s) \/ Write(s)
            \/ (Rename(s) /\ files[Resource(s)] # None) \/ AppendLine(s)
         /\ \/ UNCHANGED performed \/ Write(s) \/ AppendLine(s)
            \/ \E op : Performed("memories", op)
<1>1. CASE CutShort(s) \/ AppendFails(s)
  BY <1>1 DEF CutShort, AppendFails, Tear, tables, disk, ghosts
<1>2. CASE Step(s)
  <2>1. disturbed \subseteq disturbed'
    BY <1>2 DEF Step, SaveObservation, ReadLast, SelectRows, ReadInbox, Truncate, Write,
         SaveExtracted, Load, CheckSize, Rename, AppendLine, Exists, UpsertMemory, DeleteOld, Find,
         Touch, WriteContract, FindEvent, RecordEvent, ScanDoc, StoreDoc, CacheDoc, ListStale,
         ForgetDoc, UncacheDoc, ghosts, Begin
  <2>2. UNCHANGED clock /\ (SaveExtracted(s) \/ UNCHANGED lastExtracted)
    BY <1>2 DEF Step, SaveObservation, ReadLast, SelectRows, ReadInbox, Truncate, Write,
         SaveExtracted, Load, CheckSize, Rename, AppendLine, Exists, UpsertMemory, DeleteOld, Find,
         Touch, WriteContract, FindEvent, RecordEvent, ScanDoc, StoreDoc, CacheDoc, ListStale,
         ForgetDoc, UncacheDoc, tables
  <2>3. \/ UNCHANGED <<files, archives>> \/ Truncate(s) \/ Write(s)
        \/ (Rename(s) /\ files[Resource(s)] # None) \/ AppendLine(s)
    BY <1>2 DEF Step, SaveObservation, ReadLast, SelectRows, ReadInbox,
         SaveExtracted, Load, CheckSize, Rename, Exists, UpsertMemory, DeleteOld, Find,
         Touch, WriteContract, FindEvent, RecordEvent, ScanDoc, StoreDoc, CacheDoc, ListStale,
         ForgetDoc, UncacheDoc, disk
  <2>4. \/ UNCHANGED performed \/ Write(s) \/ AppendLine(s)
        \/ \E op : Performed("memories", op)
    BY <1>2 DEF Step, SaveObservation, ReadLast, SelectRows, ReadInbox, Truncate,
         SaveExtracted, Load, CheckSize, Rename, Exists, UpsertMemory, DeleteOld, Find,
         Touch, WriteContract, FindEvent, RecordEvent, ScanDoc, StoreDoc, CacheDoc, ListStale,
         ForgetDoc, UncacheDoc, ghosts
  <2> QED BY <2>1, <2>2, <2>3, <2>4
<1> QED BY <1>1, <1>2

LEMMA Elsewhere ==
  ASSUME Settled, FilesOK, ArchivesOK, OpsKept, NEW s \in Servers,
         Step(s) \/ CutShort(s) \/ AppendFails(s), NEW f \in Files,
         Resource(s) = f =>
           ~(Truncate(s) \/ Write(s) \/ (Rename(s) /\ files[f] # None) \/ AppendLine(s))
  PROVE  /\ files'[f] = files[f] /\ performed'[f] = performed[f] /\ Lines(f)' = Lines(f)
         /\ f \in Logs => archives'[f] = archives[f]
<1>1. DOMAIN performed = Files \cup {"memories"} /\ f # "memories"
  BY DEF OpsKept, Files, Logs
<1>2. performed'[f] = performed[f]
  BY <1>1, StepFrame DEF Write, AppendLine, Performed
<1>3. files'[f] = files[f] /\ (f \in Logs => archives'[f] = archives[f])
  BY StepFrame DEF Truncate, Write, Rename, AppendLine, FilesOK, ArchivesOK
<1> QED BY <1>2, <1>3 DEF Lines

-----------------------------------------------------------------------------
\* What has been performed, and one more.
LEMMA ListedMore ==
  ASSUME NEW ops, NEW op, \E S : ops \in Seq(S)
  PROVE  \E S : Append(ops, op) \in Seq(S)
<1>1. PICK S : ops \in Seq(S)
  OBVIOUS
<1>2. ops \in Seq(S \cup {op})
  BY <1>1, SeqMonotonic
<1>3. Append(ops, op) \in Seq(S \cup {op})
  BY <1>2, AppendProperties
<1> QED BY <1>3

LEMMA ListedByStep ==
  ASSUME Settled, OpsKept, Listed, NEW s \in Servers, Step(s) \/ CutShort(s) \/ AppendFails(s)
  PROVE  Listed'
<1> SUFFICES ASSUME NEW f \in {"todo", "source"}
             PROVE  \E S : performed'[f] \in Seq(S)
  BY DEF Listed
<1>1. /\ \E S : performed[f] \in Seq(S)
      /\ DOMAIN performed = Files \cup {"memories"} /\ f \in Files /\ f # "memories"
  BY DEF Listed, OpsKept, Files
<1>2. ASSUME NEW r, NEW op, Performed(r, op)
      PROVE  performed'[f] = performed[f] \/ performed'[f] = Append(performed[f], op)
  BY <1>1, <1>2 DEF Performed
<1>3. UNCHANGED performed \/ \E r, op : Performed(r, op)
  BY StepFrame DEF Write, AppendLine
<1>4. \E S : performed[f] \in Seq(S)
  BY <1>1
<1>5. CASE UNCHANGED performed
  BY <1>4, <1>5
<1>6. ASSUME NEW r, NEW op, Performed(r, op)
      PROVE  \E S : performed'[f] \in Seq(S)
  <2>1. \E S : Append(performed[f], op) \in Seq(S)
    BY <1>4, ListedMore
  <2> QED BY <1>2, <1>4, <1>6, <2>1
<1> QED BY <1>3, <1>5, <1>6

LEMMA MemoriesByStep ==
  ASSUME Consolidating, MemoriesKept, NEW s \in Servers,
         Step(s) \/ CutShort(s) \/ AppendFails(s)
  PROVE  MemoriesKept'
<1> SUFFICES ASSUME "memories" \notin disturbed'
             PROVE  memories' = AfterAll("memories", performed'["memories"])
  BY DEF MemoriesKept
<1> USE DEF Consolidating
<1>1. /\ "memories" \notin disturbed
      /\ Exists(s) \/ UpsertMemory(s) \/ DeleteOld(s) \/ Touch(s) \/ Unmoved(s)
  BY MemorySteps DEF OpsKept
<1>2. /\ Looking /\ memories = AfterAll("memories", performed["memories"])
      /\ "memories" \in DOMAIN performed
  BY <1>1 DEF MemoriesKept, OpsKept
<1>3. PICK S : performed["memories"] \in Seq(S)
  BY DEF OpsKept, Ops
<1>4. ASSUME NEW op, memories' = OnMemories(memories, op), Performed("memories", op)
      PROVE  memories' = AfterAll("memories", performed'["memories"])
  <2>1. performed'["memories"] = Append(performed["memories"], op)
    BY <1>2, <1>4 DEF Performed
  <2>2. AfterAll("memories", Append(performed["memories"], op))
          = Applied("memories", AfterAll("memories", performed["memories"]), op)
    BY <1>3, AfterAllStep
  <2> QED BY <1>2, <1>4, <2>1, <2>2 DEF Applied
<1>5. CASE Exists(s) \/ Unmoved(s)
  <2>1. UNCHANGED memories /\ performed'["memories"] = performed["memories"]
    BY <1>5 DEF Exists, Unmoved, tables, Ops
  <2> QED BY <1>2, <2>1
<1>6. CASE UpsertMemory(s)
  <2> DEFINE put == [do |-> "put", key |-> srv[s].key, by |-> srv[s].call]
  <2>1. At(s, "upsert") /\ srv[s].exists = (srv[s].key \in DOMAIN memories)
    BY <1>2, <1>6 DEF UpsertMemory, Looking
  <2>2. memories' = OnMemories(memories, put) /\ Performed("memories", put)
    BY <1>6, <2>1 DEF UpsertMemory
  <2> HIDE DEF put
  <2> QED BY <1>4, <2>2
<1>7. CASE DeleteOld(s)
  <2>1. \E op : memories' = OnMemories(memories, op) /\ Performed("memories", op)
    BY <1>7 DEF DeleteOld
  <2> QED BY <1>4, <2>1
<1>8. CASE Touch(s)
  <2>1. \E op : memories' = OnMemories(memories, op) /\ Performed("memories", op)
    BY <1>8 DEF Touch
  <2> QED BY <1>4, <2>1
<1> QED BY <1>1, <1>5, <1>6, <1>7, <1>8

-----------------------------------------------------------------------------
\* A file that is rewritten from what was read of it.
LEMMA WhereFrom ==
  ASSUME Settled, NEW s \in Servers, Step(s) \/ CutShort(s) \/ AppendFails(s), NEW f, f # "inbox"
  PROVE  /\ Rewriting(s, f)' =>
              \/ At(s, "load") /\ Resource(s) = f /\ Load(s) /\ At(s, "truncate")' /\ srv'[s] # Idle
              \/ At(s, "truncate") /\ Resource(s) = f /\ Truncate(s)
         /\ WritingTo(s, f)' => At(s, "truncate") /\ Resource(s) = f
<1>1. Calling(s) /\ Turn(s)
  BY StepTurns DEF Settled
<1>2. ASSUME Rewriting(s, f)'
      PROVE  srv'[s] # Idle /\ (At(s, "truncate")' \/ At(s, "write")') /\ Resource(s)' = f
  BY <1>2 DEF Rewriting, At, Idle
<1>3. ~CutShort(s) \/ srv'[s] = Idle
  BY DEF CutShort, Finish, Settled, Serving
<1> QED BY <1>1, <1>2, <1>3, Heads, WhoTakes DEF Rewriting, WritingTo

LEMMA OverlayNothing ==
  ASSUME NEW S, NEW lines \in Seq(S)
  PROVE  Overlay(lines, Nothing) = lines
<1>1. Nothing \in Seq(S) /\ Len(Nothing) = 0 /\ Len(lines) \in Nat
  BY EmptySeq DEF Nothing
<1>2. SubSeq(Nothing, Len(lines) + 1, 0) = Nothing
  BY <1>1 DEF Nothing
<1> QED BY <1>1, <1>2, ConcatEmptySeq DEF Overlay, Nothing

LEMMA FileByStep ==
  ASSUME Settled, Filed, OpsKept, Listed, NEW f \in {"todo", "source"}, FileKept(f),
         NEW s \in Servers, Step(s) \/ CutShort(s) \/ AppendFails(s)
  PROVE  FileKept(f)'
<1> SUFFICES ASSUME f \notin disturbed'
             PROVE  /\ \A t, u \in Servers : Rewriting(t, f)' /\ Rewriting(u, f)' => t = u
                    /\ \A t \in Servers : RewriteKept(t, f)'
                    /\ (\A t \in Servers : ~WritingTo(t, f)')
                         => Lines(f)' = AfterAll(f, performed'[f])
  BY DEF FileKept
<1>1. /\ Calling(s) /\ Turn(s) /\ DOMAIN srv = Servers /\ f \notin disturbed /\ f \in Files
      /\ f # "inbox" /\ f \notin Logs /\ f # "memories"
  BY StepTurns, StepFrame DEF Settled, Serving, Files, Logs
<1>2. /\ \A t, u \in Servers : Rewriting(t, f) /\ Rewriting(u, f) => t = u
      /\ \A t \in Servers : RewriteKept(t, f)
      /\ (\A t \in Servers : ~WritingTo(t, f)) => Lines(f) = AfterAll(f, performed[f])
  BY <1>1 DEF FileKept
<1>3. ASSUME NEW t \in Servers, t # s
      PROVE  /\ Rewriting(t, f)' <=> Rewriting(t, f)
             /\ WritingTo(t, f)' <=> WritingTo(t, f)
             /\ srv'[t].copy = srv[t].copy /\ srv'[t].request = srv[t].request
  BY <1>1, <1>3, Onward DEF Rewriting, WritingTo
<1>4. ASSUME NEW t \in Servers, WritingTo(t, f)
      PROVE  Rewriting(t, f)
  BY <1>4 DEF Rewriting, WritingTo
\* Nobody else is rewriting it: how s goes on decides.
<1>5. ASSUME \A t \in Servers \ {s} : ~Rewriting(t, f)
      PROVE  /\ \A t, u \in Servers : Rewriting(t, f)' /\ Rewriting(u, f)' => t = u
             /\ \A t \in Servers \ {s} : RewriteKept(t, f)'
  BY <1>3, <1>5 DEF RewriteKept, Rewriting, WritingTo
<1>6. CASE Load(s) /\ Resource(s) = f
  <2>1. \A t \in Servers \ {s} : ~Rewriting(t, f)
    <3>1. \A t \in Servers \ {s} : Held(t) # f
      BY <1>1, <1>6 DEF Load, Begin
    <3> QED BY <3>1, HeldFiles
  <2>2. ~WritingTo(s, f) /\ At(s, "load")
    BY <1>6 DEF Load, At, WritingTo
  <2>3. Lines(f)' = Lines(f) /\ performed' = performed /\ Lines(f) = AfterAll(f, performed[f])
    BY <1>2, <1>4, <1>6, <2>1, <2>2 DEF Load, disk, Lines
  <2>4. ~WritingTo(s, f)'
    BY <1>1, <2>2, WhereFrom, OneOp
  <2>5. ASSUME Rewriting(s, f)'
        PROVE  srv'[s].copy = Edited(f, AfterAll(f, performed'[f]), srv'[s].request)
    <3>1. srv'[s] # Idle
      BY <2>5 DEF Rewriting, At, Idle
    <3>2. srv'[s].copy = Edited(f, Lines(f), srv[s].request) /\ srv'[s].request = srv[s].request
      BY <1>1, <1>6, <2>2, <3>1, CopyRead DEF Turn, Same
    <3> QED BY <2>3, <3>2
  <2>6. RewriteKept(s, f)'
    BY <2>4, <2>5 DEF RewriteKept
  <2> QED BY <1>5, <2>1, <2>3, <2>6
<1>7. CASE Truncate(s) /\ Resource(s) = f
  <2>1. At(s, "truncate") /\ Rewriting(s, f) /\ Proceed(s, srv[s]) /\ performed' = performed
    BY <1>7 DEF Truncate, Rewriting, ghosts
  <2>2. \A t \in Servers \ {s} : ~Rewriting(t, f)
    BY <1>2, <2>1
  <2>3. Lines(f)' = Nothing
    BY <1>1, <1>7 DEF Truncate, Lines, Nothing, Filed, FilesOK
  <2>4. srv'[s] # Idle
    BY <2>1, NotOver
  <2>5. At(s, "write")'
    BY <1>1, <2>1, <2>4, NextStep DEF Settled, Serving
  <2>6. Resource(s)' = f
    BY <1>1, <1>7, <2>5, Heads
  <2>7. srv'[s].copy = srv[s].copy /\ srv'[s].request = srv[s].request
    <3>1. /\ ~At(s, "scan") /\ ~At(s, "read") /\ ~At(s, "load") /\ ~At(s, "stale")
          /\ ~At(s, "uncache")
      BY <2>1, OneOp
    <3> QED BY <1>1, <2>4, <3>1, StepReads DEF Reads, Turn, Same
  <2>8. RewriteKept(s, f)'
    BY <1>2, <2>1, <2>3, <2>7 DEF RewriteKept
  <2>9. WritingTo(s, f)'
    BY <2>5, <2>6 DEF WritingTo
  <2> QED BY <1>5, <2>2, <2>8, <2>9
<1>8. CASE Write(s) /\ Resource(s) = f
  <2>1. At(s, "write") /\ Rewriting(s, f) /\ WritingTo(s, f) /\ ~At(s, "save")
    BY <1>8, OneOp DEF Write, Rewriting, WritingTo
  <2>2. \A t \in Servers \ {s} : ~Rewriting(t, f)
    BY <1>2, <2>1
  <2>3. /\ srv[s].copy = Edited(f, AfterAll(f, performed[f]), srv[s].request)
        /\ Lines(f) = Nothing
    BY <1>2, <2>1 DEF RewriteKept
  <2>4. srv[s].moved = None /\ srv[s].copy \in Seq(Line(f))
    BY <1>1, <1>8, <2>1 DEF Filed, Staged
  <2>5. srv[s].copy # None
    BY <1>1, <2>4, McAssumption
  <2>6. Overlay(srv[s].copy, Lines(f)) = srv[s].copy
    BY <2>3, <2>4, OverlayNothing
  <2>7. Lines(f)' = srv[s].copy
    BY <1>1, <1>8, <2>4, <2>5, <2>6 DEF Write, Lines, Filed, FilesOK
  <2>8. performed'[f] = Append(performed[f], srv[s].request)
    BY <1>1, <1>8 DEF Write, Performed, OpsKept
  <2>9. AfterAll(f, performed'[f]) = Edited(f, AfterAll(f, performed[f]), srv[s].request)
    <3>1. PICK S : performed[f] \in Seq(S)
      BY DEF Listed
    <3>2. AfterAll(f, Append(performed[f], srv[s].request))
            = Applied(f, AfterAll(f, performed[f]), srv[s].request)
      BY <3>1, AfterAllStep
    <3> QED BY <1>1, <2>8, <3>2 DEF Applied
  <2>10. ~Rewriting(s, f)'
    BY <1>1, <2>1, WhereFrom, OneOp
  <2>11. RewriteKept(s, f)'
    BY <2>10 DEF RewriteKept, Rewriting, WritingTo
  <2> QED BY <1>5, <2>2, <2>3, <2>7, <2>9, <2>11
<1>9. CASE ~((Load(s) \/ Truncate(s) \/ Write(s)) /\ Resource(s) = f)
  <2>1. ~Rewriting(s, f)' /\ ~WritingTo(s, f)'
    BY <1>1, <1>9, WhereFrom DEF Rewriting, WritingTo
  <2>2. ~WritingTo(s, f)
    <3>1. ASSUME WritingTo(s, f)
          PROVE  CutShort(s) /\ At(s, "write") /\ Resource(s) = f
      BY <1>9, <3>1, WhoTakes DEF WritingTo
    <3>2. ASSUME CutShort(s), At(s, "write"), Resource(s) = f
          PROVE  f \in disturbed'
      BY <3>2 DEF CutShort, Tear
    <3> QED BY <3>1, <3>2
  <2>3. Lines(f)' = Lines(f) /\ performed'[f] = performed[f]
    <3>1. Resource(s) = f => ~(Rename(s) \/ AppendLine(s))
      BY <1>1, StepFiles DEF Rename, AppendLine
    <3> QED BY <1>1, <1>9, <3>1, Elsewhere DEF Filed
  <2>4. ASSUME NEW t \in Servers
        PROVE  RewriteKept(t, f)'
    BY <1>2, <1>3, <2>1, <2>3 DEF RewriteKept
  <2>5. ASSUME NEW t \in Servers, NEW u \in Servers, Rewriting(t, f)', Rewriting(u, f)'
        PROVE  t = u
    BY <1>2, <1>3, <2>1, <2>5
  <2>6. ASSUME \A t \in Servers : ~WritingTo(t, f)'
        PROVE  Lines(f)' = AfterAll(f, performed'[f])
    <3>1. \A t \in Servers : ~WritingTo(t, f)
      BY <1>3, <2>2, <2>6
    <3> QED BY <1>2, <2>3, <3>1
  <2> QED BY <2>4, <2>5, <2>6
<1> QED BY <1>6, <1>7, <1>8, <1>9

-----------------------------------------------------------------------------
\* A log that is renamed keeps its lines, in an archive,
LEMMA RenamedLines ==
  ASSUME Settled, Filed, NEW s \in Servers, Rename(s), NEW f \in Logs, Resource(s) = f,
         files[f] # None, f \notin disturbed', f \notin disturbed, Dated(f), NEW kind
  PROVE  LinesOf(f, kind)' = LinesOf(f, kind)
<1>1. /\ files[f] \in Seq(LogLine) /\ archives' = [archives EXCEPT ![f][clock] = files[f]]
      /\ files' = [files EXCEPT ![f] = None] /\ clock \in Seconds /\ f \in Files
      /\ archives[f] \in [Seconds -> Seq(LogLine) \cup {None}]
  BY RenamedType, LogLines DEF Filed, ArchivesOK
<1>2. archives[f][clock] = None
  BY DEF Rename
<1>3. ASSUME NEW t \in Seconds, t >= clock
      PROVE  archives[f][t] = None
  <2>1. t > clock \/ t = clock
    BY <1>1, <1>3, McAssumption DEF Seconds
  <2>2. CASE t > clock
    BY <2>2 DEF Dated
  <2>3. CASE t = clock
    BY <1>2, <2>3
  <2> QED BY <2>1, <2>2, <2>3
<1>4. archives'[f] = [archives[f] EXCEPT ![clock] = files[f]]
  BY <1>1 DEF Filed, ArchivesOK
<1>5. Archived(archives'[f], kind) = Archived(archives[f], kind) \o Ids(files[f], kind)
  <2> DEFINE dated == archives[f]
             lines == files[f]
  <2>1. /\ dated \in [Seconds -> Seq(LogLine) \cup {None}] /\ lines \in Seq(LogLine)
        /\ clock \in Seconds /\ \A t \in Seconds : t >= clock => dated[t] = None
    BY <1>1, <1>3
  <2> HIDE DEF dated, lines
  <2>2. Archived([dated EXCEPT ![clock] = lines], kind) = Archived(dated, kind) \o Ids(lines, kind)
    BY <2>1, ArchivedMore
  <2> QED BY <1>4, <2>2 DEF dated, lines
<1>6. Lines(f) = files[f] /\ Lines(f)' = Nothing
  BY <1>1 DEF Lines, Nothing, Filed, FilesOK
<1>7. Ids(Nothing, kind) = Nothing
  BY IdsStart DEF Nothing
<1>8. Archived(archives'[f], kind) \in Seq(Nat)
  <2>1. archives'[f] \in [Seconds -> Seq(LogLine) \cup {None}]
    BY <1>1, <1>4
  <2> QED BY <2>1, ArchivedIds
<1>9. Archived(archives'[f], kind) \o Nothing = Archived(archives'[f], kind)
  BY <1>8, EmptyText DEF Nothing
<1>10. LinesOf(f, kind) = Archived(archives[f], kind) \o Ids(files[f], kind)
  BY <1>6 DEF LinesOf
<1>11. LinesOf(f, kind)' = Archived(archives'[f], kind) \o Ids(Nothing, kind)
  BY <1>6 DEF LinesOf
<1> QED BY <1>5, <1>7, <1>9, <1>10, <1>11

LEMMA AppendAfter ==
  ASSUME NEW S, NEW a \in Seq(S), NEW b \in Seq(S), NEW x \in S
  PROVE  a \o Append(b, x) = Append(a \o b, x)
BY ONLY a \in Seq(S), b \in Seq(S), x \in S

\* and a line that is appended comes after all others.
LEMMA AppendedLines ==
  ASSUME Settled, Numbered, Filed, OpsKept, NEW s \in Servers, AppendLine(s),
         NEW f \in Logs, Resource(s) = f
  PROVE  /\ LinesOf(f, "call")' = Append(LinesOf(f, "call"), srv[s].call)
         /\ LinesOf(f, "observation")' = LinesOf(f, "observation")
         /\ performed'[f] = Append(performed[f], srv[s].call)
<1> DEFINE line == [kind |-> "call", id |-> srv[s].call]
           lines == Lines(f)
           old(kind) == Archived(archives[f], kind)
<1>1. /\ f \in Files /\ archives[f] \in [Seconds -> Seq(LogLine) \cup {None}]
      /\ Lines(f) \in Seq(LogLine)
  BY LogLines, LinesType DEF Filed, ArchivesOK
<1>2. srv[s].call \in Nat
  <2>1. Calling(s) /\ calls \in Nat
    BY DEF AppendLine, At, Calling, Numbered
  <2> QED BY <2>1 DEF Numbered
<1>3. line \in LogLine /\ line.kind = "call" /\ line.id = srv[s].call
  BY <1>2 DEF LogLine
<1>4. files'[f] = Append(lines, line) /\ archives'[f] = archives[f]
  BY <1>1 DEF AppendLine, Filed, FilesOK
<1> HIDE DEF line
<1>5. Append(lines, line) \in Seq(LogLine)
  BY <1>1, <1>3, AppendProperties
<1>6. Append(lines, line) # None
  BY <1>1, <1>5, McAssumption, LogLines
<1>7. Lines(f)' = Append(lines, line)
  BY <1>4, <1>6 DEF Lines
<1>8. /\ Ids(Append(lines, line), "call") = Append(Ids(lines, "call"), srv[s].call)
      /\ Ids(Append(lines, line), "observation") = Ids(lines, "observation")
  BY <1>1, <1>3, IdsStep
<1>9. old("call") \in Seq(Nat) /\ Ids(lines, "call") \in Seq(Nat)
  BY <1>1, ArchivedIds, IdsType
<1>10. /\ LinesOf(f, "call") = old("call") \o Ids(lines, "call")
       /\ LinesOf(f, "observation") = old("observation") \o Ids(lines, "observation")
  BY DEF LinesOf
<1>11. /\ LinesOf(f, "call")' = old("call") \o Ids(Append(lines, line), "call")
       /\ LinesOf(f, "observation")' = old("observation") \o Ids(Append(lines, line), "observation")
  BY <1>4, <1>7 DEF LinesOf
<1>12. old("call") \o Append(Ids(lines, "call"), srv[s].call)
         = Append(old("call") \o Ids(lines, "call"), srv[s].call)
  BY <1>2, <1>9, AppendAfter
<1>13. performed'[f] = Append(performed[f], srv[s].call)
  BY <1>1 DEF AppendLine, Performed, OpsKept
<1> HIDE DEF old, lines
<1> QED BY <1>8, <1>10, <1>11, <1>12, <1>13

LEMMA SameLines ==
  ASSUME NEW f, files'[f] = files[f], archives'[f] = archives[f], NEW kind
  PROVE  LinesOf(f, kind)' = LinesOf(f, kind) /\ Lines(f)' = Lines(f)
BY DEF LinesOf, Lines

LEMMA LogByStep ==
  ASSUME Settled, Numbered, Filed, OpsKept, NEW f \in {"decisions", "patterns"}, Dated(f),
         LogKept(f), NEW s \in Servers, Step(s) \/ CutShort(s) \/ AppendFails(s)
  PROVE  LogKept(f)'
<1> SUFFICES ASSUME f \notin disturbed'
             PROVE  LinesOf(f, "call")' = performed'[f]
  BY DEF LogKept
<1>1. /\ f \in Logs /\ f \in Files /\ f # "inbox" /\ f \notin disturbed
      /\ LinesOf(f, "call") = performed[f]
  BY StepFrame DEF Logs, Files, LogKept
<1>2. Resource(s) = f => ~(Truncate(s) \/ Write(s))
  <2>1. CASE Calling(s)
    BY <1>1, <2>1, FirstStep DEF Settled, Steps, Truncate, Write
  <2>2. CASE ~Calling(s)
    BY <2>2 DEF Calling, Truncate, Write, At
  <2> QED BY <2>1, <2>2
<1>3. CASE Resource(s) = f /\ Rename(s) /\ files[f] # None
  <2>1. LinesOf(f, "call")' = LinesOf(f, "call")
    BY <1>1, <1>3, RenamedLines
  <2>2. performed' = performed
    BY <1>3 DEF Rename
  <2> QED BY <1>1, <2>1, <2>2
<1>4. CASE Resource(s) = f /\ AppendLine(s)
  BY <1>1, <1>4, AppendedLines
<1>5. CASE Resource(s) = f => ~((Rename(s) /\ files[f] # None) \/ AppendLine(s))
  <2>1. files'[f] = files[f] /\ performed'[f] = performed[f] /\ archives'[f] = archives[f]
    BY <1>1, <1>2, <1>5, Elsewhere DEF Filed
  <2> QED BY <1>1, <2>1, SameLines
<1> QED BY <1>3, <1>4, <1>5

\* Who writes to the inbox has opened it where it is, or he is disturbed.
LEMMA OpenedThere ==
  ASSUME InboxKept, "inbox" \notin disturbed, NEW s \in Servers, At(s, "write"),
         Resource(s) = "inbox"
  PROVE  srv[s].moved = None
BY DEF InboxKept, HookKept, InHook

LEMMA DatedByStep ==
  ASSUME Settled, Filed, OpsKept, NEW f \in Logs, Dated(f), InboxKept, NEW s \in Servers,
         Step(s) \/ CutShort(s) \/ AppendFails(s)
  PROVE  Dated(f)'
<1> SUFFICES ASSUME f \notin disturbed', NEW t \in Seconds, t > clock'
             PROVE  archives'[f][t] = None
  BY DEF Dated
<1>1. /\ f \in Files /\ f \notin disturbed /\ clock' = clock /\ clock \in Seconds
      /\ archives[f][t] = None
  BY LogLines, StepFrame DEF Dated, Filed
<1>2. CASE Resource(s) = f /\ Write(s)
  <2>1. f = "inbox" /\ At(s, "write")
    BY <1>2, StepFiles DEF Write
  <2>2. srv[s].moved = None
    BY <1>1, <1>2, <2>1, OpenedThere
  <2> QED BY <1>1, <1>2, <2>2 DEF Write
<1>3. CASE Resource(s) = f /\ Rename(s) /\ files[f] # None
  <2>1. archives' = [archives EXCEPT ![f][clock] = files[f]]
    BY <1>3, RenamedType
  <2>2. t # clock
    BY <1>1, McAssumption DEF Seconds
  <2> QED BY <1>1, <2>1, <2>2 DEF Filed, ArchivesOK
<1>4. CASE Resource(s) = f /\ (Truncate(s) \/ AppendLine(s))
  BY <1>1, <1>4 DEF Truncate, AppendLine
<1>5. CASE Resource(s) = f =>
             ~(Truncate(s) \/ Write(s) \/ (Rename(s) /\ files[f] # None) \/ AppendLine(s))
  <2>1. archives'[f] = archives[f]
    BY <1>1, <1>5, Elsewhere DEF Filed
  <2> QED BY <1>1, <2>1
<1> QED BY <1>2, <1>3, <1>4, <1>5

-----------------------------------------------------------------------------
LEMMA NumbersJoin ==
  ASSUME NEW m \in Nat, NEW n \in Nat, NEW k \in Nat, k = m + n
  PROVE  Numbers(0, m) \o Numbers(m, n) = Numbers(0, k)
<1> DEFINE a == Numbers(0, m)
           b == Numbers(m, n)
           c == Numbers(0, k)
<1>1. a \in Seq(Nat) /\ b \in Seq(Nat) /\ c \in Seq(Nat)
  BY NextNew
<1>2. Len(a) = m /\ Len(b) = n /\ Len(c) = k
  BY <1>1, LenProperties DEF Numbers
<1>3. /\ \A i \in 1 .. m : a[i] = i
      /\ \A i \in 1 .. n : b[i] = m + i
      /\ \A i \in 1 .. k : c[i] = i
  BY DEF Numbers
<1> HIDE DEF a, b, c
<1>4. /\ a \o b \in Seq(Nat) /\ Len(a \o b) = m + n
      /\ \A i \in 1 .. m + n : (a \o b)[i] = IF i <= m THEN a[i] ELSE b[i - m]
  BY <1>1, <1>2, ConcatProperties
<1>5. ASSUME NEW i \in 1 .. k
      PROVE  (a \o b)[i] = c[i]
  <2>1. CASE i <= m
    BY <1>3, <1>4, <2>1
  <2>2. CASE ~(i <= m)
    <3>1. i - m \in 1 .. n /\ i \in 1 .. m + n
      BY <2>2
    <3> QED BY <1>3, <1>4, <2>2, <3>1
  <2> QED BY <2>1, <2>2
<1>6. a \o b = c
  BY <1>1, <1>2, <1>4, <1>5, SeqEqual
<1> QED BY <1>6 DEF a, b, c

\* What is added to an inbox that is complete makes it complete further on.
LEMMA AddedNew ==
  ASSUME NEW lines \in Seq(LogLine), NEW before \in Seq(Nat), NEW m \in Nat, NEW n \in Nat,
         before \o Ids(lines, "observation") = Numbers(0, m)
  PROVE  before \o Ids(lines \o NewLines(m, n), "observation") = Numbers(0, m) \o Numbers(m, n)
<1>1. Ids(lines, "observation") \in Seq(Nat) /\ Numbers(m, n) \in Seq(Nat)
  BY IdsType, NextNew
<1>2. Ids(lines \o NewLines(m, n), "observation") = Ids(lines, "observation") \o Numbers(m, n)
  BY IdsOfNew
<1>3. before \o (Ids(lines, "observation") \o Numbers(m, n))
        = (before \o Ids(lines, "observation")) \o Numbers(m, n)
  <2> DEFINE b == Ids(lines, "observation")
             c == Numbers(m, n)
             S == Nat
  <2>1. before \in Seq(S) /\ b \in Seq(S) /\ c \in Seq(S)
    BY <1>1
  <2> HIDE DEF b, c, S
  <2>2. before \o (b \o c) = (before \o b) \o c
    BY ONLY <2>1
  <2> QED BY ONLY <2>2 DEF b, c
<1> QED BY ONLY <1>2, <1>3, before \o Ids(lines, "observation") = Numbers(0, m)

-----------------------------------------------------------------------------
(***************************************************************************)
(* The inbox, step by step.  `s' takes a step, and the inbox is not        *)
(* disturbed by it.                                                        *)
(***************************************************************************)
\* What the others have of the inbox stays.
LEMMA OthersInHook ==
  ASSUME Settled, NEW s \in Servers, Step(s) \/ CutShort(s) \/ AppendFails(s),
         "inbox" \notin disturbed', NEW t \in Servers, t # s
  PROVE  /\ InHook(t)' <=> InHook(t)
         /\ WritingTo(t, "inbox")' <=> WritingTo(t, "inbox")
         /\ \A op : At(t, op)' <=> At(t, op)
         /\ srv'[t].last = srv[t].last /\ srv'[t].seen = srv[t].seen
         /\ srv'[t].copy = srv[t].copy
         /\ WritingTo(t, "inbox") => srv'[t].moved = srv[t].moved
<1>1. Calling(s) /\ Turn(s)
  BY StepTurns DEF Settled
<1>2. WritingTo(t, "inbox") => srv'[t].moved = srv[t].moved
  <2>1. CASE srv'[t] = srv[t]
    BY <2>1
  <2>2. CASE Rename(s) /\ Resource(t) = Resource(s) /\ files[Resource(s)] # None
    <3>1. ASSUME WritingTo(t, "inbox")
          PROVE  FALSE
      <4>1. Held(t) = "inbox" /\ Resource(s) = "inbox"
        BY <2>2, <3>1, HeldFiles DEF WritingTo, InHook
      <4> QED BY <2>2, <4>1 DEF Rename, Begin
    <3> QED BY <3>1
  <2> QED BY <2>1, <2>2, OthersStay
<1> QED BY <1>1, <1>2, Onward DEF InHook, WritingTo

\* Nothing that is said of the inbox changes.
LEMMA InboxStays ==
  ASSUME Settled, NEW s \in Servers, Step(s) \/ CutShort(s) \/ AppendFails(s),
         "inbox" \notin disturbed', InboxKept, NEW t \in Servers, t # s,
         \/ ~InHook(t)
         \/ UNCHANGED <<files["inbox"], archives["inbox"], performed["inbox"], lastExtracted>>
  PROVE  HookKept(t)'
<1>1. HookKept(t)
  BY StepFrame DEF InboxKept
<1>2. /\ InHook(t)' <=> InHook(t)
      /\ WritingTo(t, "inbox")' <=> WritingTo(t, "inbox")
      /\ \A op : At(t, op)' <=> At(t, op)
      /\ srv'[t].last = srv[t].last /\ srv'[t].seen = srv[t].seen
      /\ srv'[t].copy = srv[t].copy
      /\ WritingTo(t, "inbox") => srv'[t].moved = srv[t].moved
  BY OthersInHook
<1>3. CASE ~InHook(t)
  BY <1>2, <1>3 DEF HookKept
<1>4. CASE /\ InHook(t)
           /\ UNCHANGED <<files["inbox"], archives["inbox"], performed["inbox"], lastExtracted>>
  <2>1. \A kind : LinesOf("inbox", kind)' = LinesOf("inbox", kind)
    BY <1>4, SameLines
  <2>2. Lines("inbox")' = Lines("inbox") /\ archives'["inbox"] = archives["inbox"]
        /\ performed'["inbox"] = performed["inbox"] /\ lastExtracted' = lastExtracted
    BY <1>4, SameLines
  <2>3. At(t, "write") => srv'[t].moved = srv[t].moved
    BY <1>2, <1>4 DEF InHook, WritingTo, At
  <2>4. At(t, "save") => Complete(srv[t].seen)'
    BY <1>1, <1>2, <1>4, <2>1, <2>2 DEF HookKept, Complete
  <2> QED BY <1>1, <1>2, <1>4, <2>2, <2>3, <2>4 DEF HookKept
<1> QED BY <1>3, <1>4

-----------------------------------------------------------------------------
\* Where who is in the hook comes from.
LEMMA IntoHook ==
  ASSUME Settled, NEW s \in Servers, Step(s) \/ CutShort(s) \/ AppendFails(s), InHook(s)'
  PROVE  /\ srv'[s] # Idle /\ Reads(s)
         /\ \/ At(s, "rows")' /\ ReadLast(s)
            \/ At(s, "read")' /\ SelectRows(s)
            \/ At(s, "truncate")' /\ ReadInbox(s)
            \/ At(s, "write")' /\ Truncate(s) /\ Resource(s) = "inbox"
            \/ At(s, "save")' /\ Write(s) /\ Resource(s) = "inbox"
<1>1. Calling(s) /\ Turn(s)
  BY StepTurns DEF Settled
<1>2. srv'[s] # Idle
  BY DEF InHook, At, Idle
<1>3. Reads(s)
  BY <1>2, StepReads
<1>4. ~CutShort(s)
  BY <1>2 DEF CutShort, Finish, Settled, Serving
<1>5. CASE At(s, "rows")'
  BY <1>1, <1>2, <1>3, <1>4, <1>5, Heads, WhoTakes
<1>6. CASE At(s, "read")'
  BY <1>1, <1>2, <1>3, <1>4, <1>6, Heads, WhoTakes
<1>7. CASE At(s, "save")'
  BY <1>1, <1>2, <1>3, <1>4, <1>7, Heads, WhoTakes
<1>8. CASE At(s, "truncate")' /\ Resource(s)' = "inbox"
  <2>1. At(s, "read")
    BY <1>1, <1>8, Heads
  <2> QED BY <1>2, <1>3, <1>4, <1>8, <2>1, WhoTakes
<1>9. CASE At(s, "write")' /\ Resource(s)' = "inbox"
  BY <1>1, <1>2, <1>3, <1>4, <1>9, Heads, WhoTakes
<1> QED BY <1>5, <1>6, <1>7, <1>8, <1>9 DEF InHook

\* One step of the hook, or of an append to the inbox, and of nobody else in it.
InboxTurn(s) ==
  /\ Settled /\ Numbered /\ IdsRead /\ Filed /\ OpsKept /\ Dated("inbox") /\ InboxKept
  /\ "inbox" \notin disturbed'
  /\ Step(s) \/ CutShort(s) \/ AppendFails(s)

LEMMA InboxAlone ==
  ASSUME NEW s \in Servers, InboxTurn(s), \A t \in Servers \ {s} : ~InHook(t), HookKept(s)',
         ~WritingTo(s, "inbox")' /\ ~At(s, "save")' => Complete(lastExtracted)'
  PROVE  InboxKept'
<1>1. /\ Settled /\ InboxKept /\ "inbox" \notin disturbed'
      /\ Step(s) \/ CutShort(s) \/ AppendFails(s)
  BY DEF InboxTurn
<1>2. \A t \in Servers \ {s} : ~InHook(t)' /\ HookKept(t)'
  BY <1>1, OthersInHook, InboxStays
<1> QED BY <1>2 DEF InboxKept

\* What is in the inbox when nobody is writing to it.
LEMMA InboxNow ==
  ASSUME NEW s \in Servers, InboxTurn(s)
  PROVE  /\ HookKept(s)
         /\ InHook(s) => \A t \in Servers \ {s} : ~InHook(t)
         /\ (\A t \in Servers \ {s} : ~InHook(t)) /\ ~WritingTo(s, "inbox") /\ ~At(s, "save")
              => Complete(lastExtracted)
<1>1. "inbox" \notin disturbed
  BY StepFrame DEF InboxTurn
<1>2. \A t \in Servers : WritingTo(t, "inbox") \/ At(t, "save") => InHook(t)
  BY DEF WritingTo, InHook
<1> QED BY <1>1, <1>2 DEF InboxTurn, InboxKept

LEMMA CompleteStays ==
  ASSUME UNCHANGED <<files["inbox"], archives["inbox"], performed["inbox"], lastExtracted>>,
         Complete(lastExtracted)
  PROVE  Complete(lastExtracted)'
BY SameLines DEF Complete

LEMMA InboxReading ==
  ASSUME NEW s \in Servers, InboxTurn(s), ReadLast(s) \/ SelectRows(s) \/ ReadInbox(s)
  PROVE  InboxKept'
<1>1. /\ Settled /\ IdsRead
      /\ Step(s) \/ CutShort(s) \/ AppendFails(s)
  BY DEF InboxTurn
<1>2. \A t \in Servers \ {s} : ~InHook(t)
  <2>1. CASE ReadLast(s)
    <3>1. \A t \in Servers \ {s} : Held(t) # "inbox"
      BY <2>1 DEF ReadLast, Begin, InboxTurn
    <3> QED BY <1>1, <3>1, HeldFiles
  <2>2. CASE SelectRows(s) \/ ReadInbox(s)
    BY <2>2, InboxNow DEF SelectRows, ReadInbox, InHook
  <2> QED BY <2>1, <2>2
<1>3. ~WritingTo(s, "inbox") /\ ~At(s, "save")
  BY DEF ReadLast, SelectRows, ReadInbox, WritingTo, At
<1>4. Complete(lastExtracted) /\ HookKept(s)
  BY <1>2, <1>3, InboxNow
<1>5. UNCHANGED <<files, archives, performed, lastExtracted>>
  BY DEF ReadLast, SelectRows, ReadInbox, disk, tables, ghosts
<1>6. Complete(lastExtracted)' /\ Lines("inbox")' = Lines("inbox")
  BY <1>4, <1>5, CompleteStays, SameLines
<1>7. HookKept(s)'
  <2> SUFFICES ASSUME InHook(s)'
               PROVE  HookKept(s)'
    BY DEF HookKept
  <2>1. srv'[s] # Idle /\ Reads(s)
    BY <1>1, IntoHook
  <2>2. CASE ReadLast(s)
    <3>1. At(s, "last") /\ At(s, "rows")'
      BY <1>1, <2>2, IntoHook DEF ReadLast, SelectRows, ReadInbox, Truncate, Write, At
    <3>2. ~At(s, "truncate")' /\ ~At(s, "write")' /\ ~At(s, "save")'
      BY <3>1 DEF At
    <3>3. srv'[s].last = lastExtracted'
      BY <1>5, <2>1, <3>1 DEF Reads
    <3> QED BY <3>1, <3>2, <3>3 DEF HookKept
  <2>3. CASE SelectRows(s)
    <3>1. At(s, "rows") /\ At(s, "read")' /\ ~At(s, "last")
      BY <1>1, <2>3, IntoHook DEF ReadLast, SelectRows, ReadInbox, Truncate, Write, At
    <3>2. ~At(s, "truncate")' /\ ~At(s, "write")' /\ ~At(s, "save")'
      BY <3>1 DEF At
    <3>3. srv'[s].last = lastExtracted' /\ srv'[s].last <= srv'[s].seen
      <4>1. srv[s].last = lastExtracted
        BY <1>4, <3>1 DEF HookKept, InHook
      <4>2. srv'[s].last = srv[s].last /\ srv'[s].seen = observations /\ observations > srv[s].last
        BY <2>1, <3>1 DEF Reads
      <4>3. observations \in Nat /\ srv[s].last \in Nat
        BY <1>1 DEF IdsRead
      <4> QED BY <1>5, <4>1, <4>2, <4>3
    <3> QED BY <3>1, <3>2, <3>3 DEF HookKept
  <2>4. CASE ReadInbox(s)
    <3>1. At(s, "read") /\ At(s, "truncate")' /\ ~At(s, "last") /\ ~At(s, "rows")
      BY <1>1, <2>4, IntoHook DEF ReadLast, SelectRows, ReadInbox, Truncate, Write, At
    <3>2. ~At(s, "rows")' /\ ~At(s, "write")' /\ ~At(s, "save")'
      BY <3>1 DEF At
    <3>3. srv[s].last = lastExtracted /\ srv[s].last <= srv[s].seen
      BY <1>4, <3>1 DEF HookKept, InHook
    <3>4. srv'[s].last = srv[s].last /\ srv'[s].seen = srv[s].seen
      BY <2>1, <3>1 DEF Reads
    <3>5. srv'[s].copy = Lines("inbox") \o NewLines(srv[s].last, srv[s].seen - srv[s].last)
      BY <1>1, <2>1, <3>1, CopyRead DEF NewLines
    <3> QED BY <1>5, <1>6, <3>1, <3>2, <3>3, <3>4, <3>5 DEF HookKept
  <2> QED BY <2>2, <2>3, <2>4
<1> QED BY <1>2, <1>6, <1>7, InboxAlone

-----------------------------------------------------------------------------
LEMMA InboxTruncated ==
  ASSUME NEW s \in Servers, InboxTurn(s), Truncate(s), Resource(s) = "inbox"
  PROVE  InboxKept'
<1>1. /\ Settled /\ IdsRead /\ Filed /\ Calling(s) /\ Turn(s) /\ DOMAIN srv = Servers
      /\ Step(s) \/ CutShort(s) \/ AppendFails(s)
  BY StepTurns DEF InboxTurn, Settled, Serving
<1>2. At(s, "truncate") /\ InHook(s) /\ Proceed(s, srv[s])
  BY DEF Truncate, InHook
<1>3. (\A t \in Servers \ {s} : ~InHook(t)) /\ HookKept(s) /\ Complete(lastExtracted)
  BY <1>2, InboxNow DEF WritingTo, At
<1>4. /\ UNCHANGED <<archives, performed, lastExtracted>>
      /\ files' = [files EXCEPT !["inbox"] = <<>>] /\ "inbox" \in Files /\ "inbox" \in Logs
  BY DEF Truncate, tables, ghosts, Files, Logs
<1>5. Lines("inbox")' = Nothing
  BY <1>1, <1>4 DEF Lines, Nothing, Filed, FilesOK
<1>6. srv'[s] # Idle
  BY <1>1, <1>2, NotOver
<1>7. At(s, "write")'
  BY <1>1, <1>2, <1>6, NextStep DEF Settled, Serving
<1>8. WritingTo(s, "inbox")'
  BY <1>1, <1>7, Heads DEF WritingTo
<1>9. ~At(s, "rows")' /\ ~At(s, "truncate")' /\ ~At(s, "save")'
  BY <1>7 DEF At
<1>10. /\ srv'[s].last = srv[s].last /\ srv'[s].seen = srv[s].seen
       /\ srv'[s].copy = srv[s].copy /\ srv'[s].moved = srv[s].moved
  <2>1. \A op \in {"last", "rows", "scan", "read", "load", "stale", "uncache"} : ~At(s, op)
    BY <1>2, OneOp
  <2> QED BY <1>1, <1>6, <2>1, StepReads DEF Reads
<1>11. srv[s].moved = None
  <2>1. ~At(s, "write") /\ ~At(s, "save")
    BY <1>2, OneOp
  <2> QED BY <1>1, <2>1 DEF Filed, Staged
<1>12. /\ srv[s].last = lastExtracted /\ srv[s].last <= srv[s].seen
       /\ srv[s].copy = Lines("inbox") \o NewLines(srv[s].last, srv[s].seen - srv[s].last)
  <2>1. ~At(s, "rows")
    BY <1>2, OneOp
  <2> QED BY <1>2, <1>3, <2>1 DEF HookKept
<1>13. /\ Archived(archives["inbox"], "observation") \o Ids(srv[s].copy, "observation")
            = Numbers(0, srv[s].seen)
       /\ Archived(archives["inbox"], "call") \o Ids(srv[s].copy, "call") = performed["inbox"]
  <2> DEFINE m == srv[s].last
             k == srv[s].seen
             n == k - m
             dated == archives["inbox"]
             lines == Lines("inbox")
             before == Archived(dated, "observation")
  <2>1. m \in Nat /\ k \in Nat /\ m <= k
    BY <1>1, <1>12 DEF IdsRead
  <2>2. dated \in [Seconds -> Seq(LogLine) \cup {None}] /\ lines \in Seq(LogLine)
    BY <1>1, <1>4, LogLines, LinesType DEF Filed, ArchivesOK
  <2>3. Archived(dated, "observation") \o Ids(lines, "observation") = Numbers(0, m)
        /\ Archived(dated, "call") \o Ids(lines, "call") = performed["inbox"]
    BY <1>3, <1>12 DEF Complete, LinesOf
  <2>4. srv[s].copy = lines \o NewLines(m, n)
    BY <1>12
  <2> HIDE DEF m, k, dated, lines
  <2>5. n \in Nat /\ k = m + n
    BY <2>1
  <2> HIDE DEF n
  <2>6. before \o Ids(lines \o NewLines(m, n), "observation") = Numbers(0, k)
    <3>1. before \o Ids(lines, "observation") = Numbers(0, m) /\ before \in Seq(Nat)
      BY <2>2, <2>3, ArchivedIds
    <3> HIDE DEF before
    <3>2. before \o Ids(lines \o NewLines(m, n), "observation") = Numbers(0, m) \o Numbers(m, n)
      BY <2>1, <2>2, <2>5, <3>1, AddedNew
    <3>3. Numbers(0, m) \o Numbers(m, n) = Numbers(0, k)
      BY <2>1, <2>5, NumbersJoin
    <3> QED BY ONLY <3>2, <3>3
  <2>8. Ids(lines \o NewLines(m, n), "call") = Ids(lines, "call")
    BY <2>1, <2>2, <2>5, IdsOfNew
  <2>7. /\ Archived(dated, "observation") \o Ids(srv[s].copy, "observation") = Numbers(0, k)
        /\ Archived(dated, "call") \o Ids(srv[s].copy, "call") = performed["inbox"]
    BY ONLY <2>3, <2>4, <2>6, <2>8
  <2> QED BY <2>7 DEF k, dated
<1>14. srv'[s].last = lastExtracted' /\ srv'[s].last <= srv'[s].seen
  BY <1>4, <1>10, <1>12
<1>15. HookKept(s)'
  BY <1>4, <1>5, <1>7, <1>9, <1>10, <1>11, <1>13, <1>14 DEF HookKept
<1> QED BY <1>3, <1>8, <1>15, InboxAlone

LEMMA InboxWritten ==
  ASSUME NEW s \in Servers, InboxTurn(s), Write(s), Resource(s) = "inbox"
  PROVE  InboxKept'
<1>1. /\ Settled /\ IdsRead /\ Filed /\ Calling(s) /\ Turn(s) /\ DOMAIN srv = Servers
      /\ Step(s) \/ CutShort(s) \/ AppendFails(s)
  BY StepTurns DEF InboxTurn, Settled, Serving
<1>2. At(s, "write") /\ InHook(s) /\ Proceed(s, srv[s]) /\ "inbox" \in Files /\ "inbox" \in Logs
  BY DEF Write, InHook, Files, Logs
<1>3. (\A t \in Servers \ {s} : ~InHook(t)) /\ HookKept(s)
  BY <1>2, InboxNow
<1>4. /\ srv[s].last = lastExtracted /\ srv[s].last <= srv[s].seen
      /\ srv[s].moved = None /\ Lines("inbox") = Nothing
      /\ Archived(archives["inbox"], "observation") \o Ids(srv[s].copy, "observation")
           = Numbers(0, srv[s].seen)
      /\ Archived(archives["inbox"], "call") \o Ids(srv[s].copy, "call") = performed["inbox"]
  <2>1. ~At(s, "rows")
    BY <1>2, OneOp
  <2> QED BY <1>2, <1>3, <2>1 DEF HookKept
<1>5. srv[s].copy \in Seq(LogLine)
  BY <1>1, <1>2, LogLines DEF Filed, Staged
<1>6. srv[s].copy # None
  BY <1>2, <1>5, McAssumption, LogLines
<1>7. Overlay(srv[s].copy, Lines("inbox")) = srv[s].copy
  BY <1>4, <1>5, OverlayNothing
<1>8. UNCHANGED <<archives, performed, lastExtracted>> /\ Lines("inbox")' = srv[s].copy
  BY <1>1, <1>2, <1>4, <1>6, <1>7 DEF Write, tables, Lines, Filed, FilesOK
<1>9. srv'[s] # Idle
  BY <1>1, <1>2, NotOver
<1>10. At(s, "save")'
  BY <1>1, <1>2, <1>9, NextStep DEF Settled, Serving
<1>11. ~At(s, "rows")' /\ ~At(s, "truncate")' /\ ~At(s, "write")'
  BY <1>10 DEF At
<1>12. srv'[s].last = srv[s].last /\ srv'[s].seen = srv[s].seen
  <2>1. ~At(s, "last") /\ ~At(s, "rows")
    BY <1>2, OneOp
  <2> QED BY <1>1, <1>9, <2>1, StepReads DEF Reads
<1>13. Complete(srv[s].seen)'
  BY <1>4, <1>8, <1>12 DEF Complete, LinesOf
<1>14. srv'[s].last = lastExtracted' /\ srv'[s].last <= srv'[s].seen
  BY <1>4, <1>8, <1>12
<1>15. HookKept(s)'
  BY <1>10, <1>11, <1>13, <1>14 DEF HookKept
<1> QED BY <1>3, <1>10, <1>15, InboxAlone

LEMMA InboxSaved ==
  ASSUME NEW s \in Servers, InboxTurn(s), SaveExtracted(s)
  PROVE  InboxKept'
<1>1. At(s, "save") /\ InHook(s)
  BY DEF SaveExtracted, InHook
<1>2. (\A t \in Servers \ {s} : ~InHook(t)) /\ HookKept(s)
  BY <1>1, InboxNow
<1>3. Complete(srv[s].seen)
  BY <1>1, <1>2 DEF HookKept
<1>4. UNCHANGED <<files, archives, performed>> /\ lastExtracted' = srv[s].seen
  BY DEF SaveExtracted, disk, ghosts
<1>5. Complete(lastExtracted)'
  BY <1>3, <1>4, SameLines DEF Complete
<1>6. \A op : ~At(s, op)'
  BY DEF SaveExtracted, Finish, InboxTurn, Settled, Serving, At, Idle
<1>7. HookKept(s)'
  BY <1>6 DEF HookKept, InHook
<1> QED BY <1>2, <1>5, <1>7, InboxAlone

LEMMA InboxAppended ==
  ASSUME NEW s \in Servers, InboxTurn(s), Resource(s) = "inbox",
         AppendLine(s) \/ (Rename(s) /\ files["inbox"] # None)
  PROVE  InboxKept'
<1>1. /\ Settled /\ Numbered /\ Filed /\ OpsKept /\ Dated("inbox") /\ "inbox" \notin disturbed'
      /\ Step(s) \/ CutShort(s) \/ AppendFails(s)
  BY DEF InboxTurn
<1>2. \A t \in Servers \ {s} : ~InHook(t)
  <2>1. \A t \in Servers \ {s} : Held(t) # "inbox"
    BY <1>1 DEF AppendLine, Rename, Begin
  <2> QED BY <1>1, <2>1, HeldFiles
<1>3. ~WritingTo(s, "inbox") /\ ~At(s, "save")
  BY DEF AppendLine, Rename, WritingTo, At
<1>4. Complete(lastExtracted) /\ UNCHANGED lastExtracted /\ "inbox" \in Logs
  BY <1>2, <1>3, InboxNow DEF AppendLine, Rename, tables, Logs
<1>5. /\ LinesOf("inbox", "observation")' = LinesOf("inbox", "observation")
      /\ LinesOf("inbox", "call")' = performed'["inbox"]
  <2>1. CASE AppendLine(s)
    BY <1>1, <1>4, <2>1, AppendedLines DEF Complete
  <2>2. CASE Rename(s) /\ files["inbox"] # None
    <3>1. \A kind : LinesOf("inbox", kind)' = LinesOf("inbox", kind)
      BY <1>1, <1>4, <2>2, RenamedLines, StepFrame
    <3>2. UNCHANGED performed
      BY <2>2 DEF Rename
    <3> QED BY <1>4, <3>1, <3>2 DEF Complete
  <2> QED BY <2>1, <2>2
<1>6. Complete(lastExtracted)'
  BY <1>4, <1>5 DEF Complete
<1>7. ~InHook(s)'
  <2>1. ~(ReadLast(s) \/ SelectRows(s) \/ ReadInbox(s) \/ Truncate(s) \/ Write(s))
    BY DEF AppendLine, Rename, ReadLast, SelectRows, ReadInbox, Truncate, Write, At
  <2> QED BY <1>1, <2>1, IntoHook
<1>8. HookKept(s)'
  BY <1>7 DEF HookKept
<1> QED BY <1>2, <1>6, <1>8, InboxAlone

\* Every other step leaves the inbox alone, and its server out of the hook.
LEMMA InboxByStep ==
  ASSUME Settled, Numbered, IdsRead, Filed, OpsKept, Dated("inbox"), InboxKept, NEW s \in Servers,
         Step(s) \/ CutShort(s) \/ AppendFails(s)
  PROVE  InboxKept'
<1> SUFFICES ASSUME "inbox" \notin disturbed'
             PROVE  InboxKept'
  BY DEF InboxKept
<1>1. InboxTurn(s)
  BY DEF InboxTurn
<1>2. CASE ReadLast(s) \/ SelectRows(s) \/ ReadInbox(s) \/ SaveExtracted(s)
  BY <1>1, <1>2, InboxReading, InboxSaved
<1>3. CASE /\ Resource(s) = "inbox"
           /\ Truncate(s) \/ Write(s) \/ AppendLine(s) \/ (Rename(s) /\ files["inbox"] # None)
  BY <1>1, <1>3, InboxTruncated, InboxWritten, InboxAppended
<1>4. CASE /\ ~(ReadLast(s) \/ SelectRows(s) \/ ReadInbox(s) \/ SaveExtracted(s))
           /\ Resource(s) = "inbox" =>
                ~(Truncate(s) \/ Write(s) \/ (Rename(s) /\ files["inbox"] # None) \/ AppendLine(s))
  <2>1. "inbox" \in Files /\ "inbox" \in Logs
    BY DEF Files, Logs
  <2>2. UNCHANGED <<files["inbox"], archives["inbox"], performed["inbox"], lastExtracted>>
    BY <1>4, <2>1, Elsewhere, StepFrame DEF Filed
  <2>3. ~InHook(s)'
    BY <1>4, IntoHook
  <2>4. ~WritingTo(s, "inbox") /\ ~At(s, "save")
    <3>1. ASSUME WritingTo(s, "inbox") \/ At(s, "save")
          PROVE  CutShort(s) /\ (At(s, "write") \/ At(s, "save")) /\ Resource(s) = "inbox"
      <4>1. At(s, "save") => Resource(s) = "inbox"
        BY FirstStep DEF Settled, Steps, At, Calling
      <4> QED BY <1>4, <3>1, <4>1, WhoTakes DEF WritingTo
    <3>2. ASSUME CutShort(s), At(s, "write") \/ At(s, "save"), Resource(s) = "inbox"
          PROVE  "inbox" \in disturbed'
      BY <3>2 DEF CutShort, Tear
    <3> QED BY <3>1, <3>2
  <2>5. /\ \A t, u \in Servers : InHook(t) /\ InHook(u) => t = u
        /\ (\A t \in Servers : ~WritingTo(t, "inbox") /\ ~At(t, "save"))
             => Complete(lastExtracted)
    BY StepFrame DEF InboxKept
  <2>6. ASSUME NEW t \in Servers \ {s}
        PROVE  /\ HookKept(t)' /\ (InHook(t)' <=> InHook(t))
               /\ WritingTo(t, "inbox")' <=> WritingTo(t, "inbox")
               /\ At(t, "save")' <=> At(t, "save")
    BY <2>2, OthersInHook, InboxStays
  <2>7. \A t, u \in Servers : InHook(t)' /\ InHook(u)' => t = u
    BY <2>3, <2>5, <2>6
  <2>8. HookKept(s)'
    BY <2>3 DEF HookKept
  <2>9. ASSUME \A t \in Servers : ~WritingTo(t, "inbox")' /\ ~At(t, "save")'
        PROVE  Complete(lastExtracted)'
    <3>1. \A t \in Servers : ~WritingTo(t, "inbox") /\ ~At(t, "save")
      BY <2>4, <2>6, <2>9
    <3> QED BY <2>2, <2>5, <3>1, CompleteStays
  <2> QED BY <2>6, <2>7, <2>8, <2>9 DEF InboxKept
<1> QED BY <1>2, <1>3, <1>4

-----------------------------------------------------------------------------
\* Who is in a rewrite or in the hook is there, and the rest is as it was.
LEMMA SharedStays ==
  ASSUME Shared, clock' >= clock, clock \in Nat, clock' \in Nat,
         UNCHANGED <<lastExtracted, memories, files, archives, performed, disturbed>>,
         \A t \in Servers : \/ srv'[t] = srv[t]
                            \/ \A f \in {"todo", "source"} : ~Rewriting(t, f) /\ ~Rewriting(t, f)'
                               /\ ~InHook(t) /\ ~InHook(t)'
  PROVE  Shared'
<1> USE DEF Shared
<1>1. Listed' /\ MemoriesKept'
  BY DEF Listed, MemoriesKept
<1>2. ASSUME NEW f \in {"todo", "source"}
      PROVE  FileKept(f)'
  <2>1. FileKept(f) /\ Lines(f)' = Lines(f)
    BY DEF Lines
  <2>2. ASSUME NEW t \in Servers
        PROVE  \/ srv'[t] = srv[t]
               \/ ~Rewriting(t, f) /\ ~Rewriting(t, f)'
    OBVIOUS
  <2>3. ASSUME NEW t \in Servers
        PROVE  /\ Rewriting(t, f)' <=> Rewriting(t, f)
               /\ WritingTo(t, f)' <=> WritingTo(t, f)
               /\ Rewriting(t, f) => srv'[t] = srv[t]
    BY <2>2 DEF Rewriting, WritingTo, At, Resource
  <2>4. ASSUME NEW t \in Servers
        PROVE  WritingTo(t, f) => Rewriting(t, f)
    BY DEF Rewriting, WritingTo
  <2> QED BY <2>1, <2>3, <2>4 DEF FileKept, RewriteKept
<1>3. ASSUME NEW f \in {"decisions", "patterns"}
      PROVE  LogKept(f)'
  BY SameLines DEF LogKept
<1>4. ASSUME NEW f \in Logs
      PROVE  Dated(f)'
  BY McAssumption DEF Dated, Seconds
<1>5. InboxKept'
  <2>1. \A kind : LinesOf("inbox", kind)' = LinesOf("inbox", kind) /\ Lines("inbox")' = Lines("inbox")
    BY SameLines
  <2>2. ASSUME NEW t \in Servers
        PROVE  srv'[t] = srv[t] \/ (~InHook(t) /\ ~InHook(t)')
    OBVIOUS
  <2>3. ASSUME NEW t \in Servers
        PROVE  /\ InHook(t)' <=> InHook(t)
               /\ WritingTo(t, "inbox")' <=> WritingTo(t, "inbox")
               /\ At(t, "save")' <=> At(t, "save")
    BY <2>2 DEF InHook, WritingTo, At, Resource
  <2>4. ASSUME NEW t \in Servers, HookKept(t)
        PROVE  HookKept(t)'
    <3>1. CASE ~InHook(t)
      BY <2>3, <3>1 DEF HookKept
    <3>2. CASE srv'[t] = srv[t]
      <4>1. \A op : At(t, op)' <=> At(t, op)
        BY <3>2 DEF At
      <4>2. Complete(srv[t].seen)' <=> Complete(srv[t].seen)
        BY <2>1, <3>2 DEF Complete
      <4> QED BY <2>1, <2>3, <2>4, <3>2, <4>1, <4>2 DEF HookKept
    <3> QED BY <2>2, <3>1, <3>2
  <2>5. Complete(lastExtracted)' <=> Complete(lastExtracted)
    BY <2>1 DEF Complete
  <2> QED BY <2>3, <2>4, <2>5 DEF InboxKept
<1> QED BY <1>1, <1>2, <1>3, <1>4, <1>5

LEMMA SharedByCall ==
  ASSUME Settled, Filed, Shared, NEW s \in Servers, NEW request \in menu.requests, Call(s, request)
  PROVE  Shared'
<1>1. /\ ~Calling(s) /\ srv[s] = Idle /\ Called(s, request)
      /\ \A op : At(s, op)' => op \in Firsts
  BY CallShaped DEF Settled
<1>2. UNCHANGED <<clock, lastExtracted, memories, files, archives, performed, disturbed>>
  BY DEF Call, tables, disk, ghosts
<1>3. /\ \A f \in {"todo", "source"} : ~Rewriting(s, f) /\ ~Rewriting(s, f)'
      /\ ~InHook(s) /\ ~InHook(s)'
  BY <1>1 DEF Rewriting, InHook, Firsts, Calling, At
<1>4. \A t \in Servers \ {s} : srv'[t] = srv[t]
  BY <1>1 DEF Called
<1>5. clock \in Nat
  BY McAssumption DEF Filed, Seconds
<1> QED BY <1>2, <1>3, <1>4, <1>5, SharedStays

LEMMA SharedInit == Init => Shared
<1> SUFFICES ASSUME Init
             PROVE  Shared
  OBVIOUS
<1>1. /\ \A s \in Servers : \A op : ~At(s, op)
      /\ \A s \in Servers : ~InHook(s) /\ \A f : ~Rewriting(s, f) /\ ~WritingTo(s, f)
  BY DEF Init, At, Idle, InHook, Rewriting, WritingTo
<1>2. /\ \A f \in Logs \cup {"todo", "source", "memories"} :
           performed[f] = IF f = "inbox" THEN LinesOf("inbox", "call") ELSE <<>>
      /\ files = [f \in Files |-> IF f = "source" THEN SourceText
                                ELSE IF f = "inbox" THEN menu.inbox ELSE None]
      /\ archives = [f \in Logs |-> [t \in Seconds |-> None]]
      /\ memories = StoredMemories /\ lastExtracted = 0 /\ menu \in Menus
  BY DEF Init, Files
<1>3. Listed
  <2>1. <<>> \in Seq({})
    BY EmptySeq
  <2> QED BY <1>2, <2>1 DEF Listed
<1>4. MemoriesKept
  BY <1>2, AfterAllStart DEF MemoriesKept, Initially
<1>5. ASSUME NEW f \in {"todo", "source"}
      PROVE  FileKept(f)
  <2>1. AfterAll(f, performed[f]) = Initially(f)
    BY <1>2, AfterAllStart
  <2>2. Lines(f) = Initially(f)
    <3>1. SourceText # None
      BY McAssumption DEF Files, Line
    <3> QED BY <1>2, <3>1 DEF Lines, Initially, Files
  <2> QED BY <1>1, <2>1, <2>2 DEF FileKept, RewriteKept
<1>6. \A f \in Logs : \A kind : LinesOf(f, kind) = Nothing \o Ids(Lines(f), kind)
  <2> SUFFICES ASSUME NEW f \in Logs, NEW kind
               PROVE  LinesOf(f, kind) = Nothing \o Ids(Lines(f), kind)
    OBVIOUS
  <2>1. archives[f] = [t \in Seconds |-> None]
    BY <1>2
  <2>2. Archived(archives[f], kind) = Nothing
    BY <2>1, ArchivedNone DEF Nothing
  <2> QED BY <2>2 DEF LinesOf
<1>7. Nothing \o Nothing = Nothing
  BY EmptySeq, EmptyText DEF Nothing
<1>8. ASSUME NEW f \in {"decisions", "patterns"}
      PROVE  LogKept(f)
  <2>1. Lines(f) = Nothing /\ f \in Logs /\ performed[f] = Nothing
    BY <1>2 DEF Lines, Nothing, Files, Logs
  <2>2. Ids(Nothing, "call") = Nothing
    BY IdsStart DEF Nothing
  <2> QED BY <1>6, <1>7, <2>1, <2>2 DEF LogKept
<1>9. \A f \in Logs : Dated(f)
  BY <1>2 DEF Dated
<1>10. InboxKept
  <2>1. Lines("inbox") \in Seq([kind : {"call"}, id : Nat])
    <3>1. Lines("inbox") = IF menu.inbox = None THEN <<>> ELSE menu.inbox
      BY <1>2 DEF Lines, Files, Logs
    <3> QED BY <1>2, <3>1, EmptySeq, McAssumption
  <2>2. Ids(Lines("inbox"), "observation") = Nothing
    <3>1. Len(Lines("inbox")) \in Nat
      BY <2>1, LenProperties
    <3>2. ASSUME NEW i \in 1 .. Len(Lines("inbox"))
          PROVE  Lines("inbox")[i].kind # "observation"
      <4> DEFINE S == [kind : {"call"}, id : Nat]
      <4>1. \A line \in S : line.kind # "observation"
        OBVIOUS
      <4> HIDE DEF S
      <4>2. Lines("inbox")[i] \in S
        BY <2>1, ElementOfSeq DEF S
      <4> QED BY <4>1, <4>2
    <3> QED BY <3>1, <3>2, IdsOfOthers DEF Nothing
  <2>3. Numbers(0, 0) = Nothing
    BY DEF Numbers, Nothing
  <2>4. LinesOf("inbox", "observation") = Numbers(0, 0)
    BY <1>6, <1>7, <2>2, <2>3 DEF Logs
  <2>5. LinesOf("inbox", "call") = performed["inbox"]
    BY <1>2 DEF Logs
  <2>6. Complete(lastExtracted)
    BY <1>2, <2>4, <2>5 DEF Complete
  <2> QED BY <1>1, <2>6 DEF InboxKept, HookKept
<1> QED BY <1>3, <1>4, <1>5, <1>8, <1>9, <1>10 DEF Shared

LEMMA SharedAlways == Spec => [](Consolidating /\ Shared)
<1>1. Consolidating /\ Extracted /\ Typed /\ Shared /\ [Next]_vars => Shared'
  <2> SUFFICES ASSUME Consolidating, Extracted, Typed, Shared, [Next]_vars
               PROVE  Shared'
    OBVIOUS
  <2>1. Settled /\ Numbered /\ IdsRead /\ Filed /\ OpsKept
    BY DEF Consolidating, Extracted, Typed
  <2>2. CASE UNCHANGED vars \/ Tick \/ \E d \in Docs : EditDoc(d)
    <3>1. UNCHANGED <<srv, lastExtracted, memories, files, archives, performed, disturbed>>
      BY <2>2 DEF vars, Tick, EditDoc, tables, disk, ghosts
    <3>2. clock \in Nat /\ clock' \in Nat /\ clock' >= clock
      <4>1. clock' = clock \/ clock' = clock + 1
        BY <2>2 DEF vars, Tick, EditDoc
      <4> QED BY <2>1, <4>1, McAssumption DEF Filed, Seconds
    <3> QED BY <3>1, <3>2, SharedStays
  <2>3. ASSUME NEW s \in Servers, NEW request \in menu.requests, Call(s, request)
        PROVE  Shared'
    BY <2>1, <2>3, SharedByCall
  <2>4. ASSUME NEW s \in Servers, Step(s) \/ CutShort(s) \/ AppendFails(s)
        PROVE  Shared'
    <3>1. Listed' /\ MemoriesKept'
      BY <2>1, <2>4, ListedByStep, MemoriesByStep DEF Shared
    <3>2. \A f \in {"todo", "source"} : FileKept(f)'
      BY <2>1, <2>4, FileByStep DEF Shared
    <3>3. \A f \in {"decisions", "patterns"} : LogKept(f)'
      BY <2>1, <2>4, LogByStep DEF Shared, Logs
    <3>4. \A f \in Logs : Dated(f)'
      BY <2>1, <2>4, DatedByStep DEF Shared
    <3>5. InboxKept'
      BY <2>1, <2>4, InboxByStep DEF Shared, Logs
    <3> QED BY <3>1, <3>2, <3>3, <3>4, <3>5 DEF Shared
  <2> QED BY <2>2, <2>3, <2>4 DEF Next
<1> QED BY <1>1, SharedInit, TypedAlways, PTL DEF Spec

\* Unless two servers overlapped on it or one was cut short in it, the inbox with its
\* archives has every extracted observation once, in order, and the lines of every
\* sync_session_memory (after_save_observation, append_markdown_with_archive).
THEOREM InboxHasAllOnce == Spec => []InboxOnce
<1>1. Consolidating /\ Shared => InboxOnce
  <2> SUFFICES ASSUME Consolidating, Shared, Undisturbed("inbox")
               PROVE  /\ LinesOf("inbox", "observation") = [i \in 1 .. lastExtracted |-> i]
                      /\ LinesOf("inbox", "call") = performed["inbox"]
    BY DEF InboxOnce
  <2>1. \A s \in Servers : ~InHook(s)
    BY HeldFiles DEF Undisturbed, Consolidating
  <2>2. \A s \in Servers : ~WritingTo(s, "inbox") /\ ~At(s, "save")
    BY <2>1 DEF InHook, WritingTo
  <2>3. Complete(lastExtracted)
    BY <2>2 DEF Shared, InboxKept, Undisturbed
  <2> QED BY <2>3 DEF Complete, Numbers
<1> QED BY <1>1, SharedAlways, PTL

\* Unless disturbed, the todo list, the source file, the logs with their archives and the
\* memories are what the operations on them make of them one after the other
\* (manage_todo, replace_exact_text, append_markdown_with_archive, upsert_memory_record).
THEOREM NothingIsLost == Spec => []NothingLost
<1>1. Consolidating /\ Shared => NothingLost
  <2> SUFFICES ASSUME Consolidating, Shared
               PROVE  NothingLost
    OBVIOUS
  <2>1. ASSUME NEW f \in {"todo", "source"}, Undisturbed(f)
        PROVE  Lines(f) = AfterAll(f, performed[f])
    <3>1. \A s \in Servers : ~Rewriting(s, f)
      BY <2>1, HeldFiles DEF Undisturbed, Consolidating
    <3>2. \A s \in Servers : ~WritingTo(s, f)
      BY <3>1 DEF Rewriting, WritingTo
    <3> QED BY <2>1, <3>2 DEF Shared, FileKept, Undisturbed
  <2>2. ASSUME NEW f \in {"decisions", "patterns"}, Undisturbed(f)
        PROVE  LinesOf(f, "call") = performed[f]
    BY <2>2 DEF Shared, LogKept, Undisturbed
  <2>3. Undisturbed("memories") => memories = AfterAll("memories", performed["memories"])
    BY DEF Shared, MemoriesKept, Undisturbed
  <2> QED BY <2>1, <2>2, <2>3 DEF NothingLost
<1> QED BY <1>1, SharedAlways, PTL

=============================================================================
