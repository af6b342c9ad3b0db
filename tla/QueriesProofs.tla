--------------------------- MODULE QueriesProofs ---------------------------
(***************************************************************************)
(* Proofs about ContextSearch and the CodeQueries it extends, for any      *)
(* graphs, histories and queries.                                          *)
(***************************************************************************)
EXTENDS ContextSearch, FiniteSetTheorems, WellFoundedInduction, TLAPS

-----------------------------------------------------------------------------
(***************************************************************************)
(* The helpers on sequences.                                               *)
(***************************************************************************)
Below(I, i) == {j \in I : j <= i}

\* Counting those below numbers the members of I from 1 on.
LEMMA Ranks ==
  ASSUME NEW n \in Nat, NEW I \in SUBSET (1 .. n)
  PROVE  /\ IsFiniteSet(I) /\ Cardinality(I) \in Nat
         /\ \A i \in I : Cardinality(Below(I, i)) \in 1 .. Cardinality(I)
         /\ \A i, j \in I : i < j => Cardinality(Below(I, i)) < Cardinality(Below(I, j))
         /\ \A k \in 1 .. Cardinality(I) : \E i \in I : Cardinality(Below(I, i)) = k
<1> DEFINE rank == [i \in I |-> Cardinality(Below(I, i))]
<1>1. IsFiniteSet(I) /\ Cardinality(I) \in Nat
  <2>1. IsFiniteSet(1 .. n)
    BY FS_Interval
  <2> QED BY <2>1, FS_Subset, FS_CardinalityType
<1>2. \A i \in I : Cardinality(Below(I, i)) \in 1 .. Cardinality(I)
  <2> SUFFICES ASSUME NEW i \in I
               PROVE  Cardinality(Below(I, i)) \in 1 .. Cardinality(I)
    OBVIOUS
  <2>1. IsFiniteSet(Below(I, i)) /\ Cardinality(Below(I, i)) <= Cardinality(I)
    BY <1>1, FS_Subset DEF Below
  <2>2. Cardinality(Below(I, i)) \in Nat
    BY <2>1, FS_CardinalityType
  <2>3. i \in Below(I, i)
    BY DEF Below
  <2>4. Cardinality(Below(I, i)) # 0
    BY <2>1, <2>3, FS_EmptySet
  <2> QED BY <2>1, <2>2, <2>4, <1>1
<1>3. \A i, j \in I : i < j => Cardinality(Below(I, i)) < Cardinality(Below(I, j))
  <2> SUFFICES ASSUME NEW i \in I, NEW j \in I, i < j
               PROVE  Cardinality(Below(I, i)) < Cardinality(Below(I, j))
    OBVIOUS
  <2>1. Below(I, i) \subseteq Below(I, j) /\ j \in Below(I, j) /\ j \notin Below(I, i)
    <3>1. (\A l \in I : l <= i => l <= j) /\ j <= j /\ ~ (j <= i)
      OBVIOUS
    <3> QED BY <3>1, Zenon DEF Below
  <2>2. IsFiniteSet(Below(I, j))
    BY <1>1, FS_Subset DEF Below
  <2>3. Cardinality(Below(I, i)) <= Cardinality(Below(I, j))
    BY <2>1, <2>2, FS_Subset
  <2>4. Cardinality(Below(I, i)) # Cardinality(Below(I, j))
    BY <2>1, <2>2, FS_Subset
  <2>5. Cardinality(Below(I, i)) \in Nat /\ Cardinality(Below(I, j)) \in Nat
    BY <1>1, <1>2
  <2> QED BY <2>3, <2>4, <2>5
<1>4. \A k \in 1 .. Cardinality(I) : \E i \in I : Cardinality(Below(I, i)) = k
  <2>1. rank \in [I -> 1 .. Cardinality(I)]
    BY <1>2
  <2>2. \A i, j \in I : rank[i] = rank[j] => i = j
    <3> SUFFICES ASSUME NEW i \in I, NEW j \in I, rank[i] = rank[j]
                 PROVE  i = j
      OBVIOUS
    <3>1. rank[i] \in Int /\ rank[j] \in Int /\ i \in Int /\ j \in Int
      BY <2>1
    <3>2. ~ (i < j) /\ ~ (j < i)
      BY <1>3, <3>1
    <3> QED BY <3>1, <3>2
  <2>3. rank \in Injection(I, 1 .. Cardinality(I))
    BY <2>1, <2>2 DEF Injection, IsInjective
  <2>4. IsFiniteSet(1 .. Cardinality(I)) /\ Cardinality(1 .. Cardinality(I)) = Cardinality(I)
    BY <1>1, FS_Interval
  <2>5. rank \in Surjection(I, 1 .. Cardinality(I))
    BY <2>3, <2>4, FS_Injection
  <2> QED BY <2>5 DEF Surjection
<1> QED BY <1>1, <1>2, <1>3, <1>4

LEMMA SelectedFacts ==
  ASSUME NEW S, NEW s \in Seq(S), NEW I \in SUBSET DOMAIN s
  PROVE  /\ Selected(s, I) \in Seq(S)
         /\ Len(Selected(s, I)) = Cardinality(I) /\ Cardinality(I) \in Nat
         /\ \A k \in DOMAIN Selected(s, I) : \E i \in I : Selected(s, I)[k] = s[i]
         /\ \A i \in I : \E k \in DOMAIN Selected(s, I) : Selected(s, I)[k] = s[i]
<1> DEFINE th(k) == CHOOSE i \in I : Cardinality(Below(I, i)) = k
           result == [k \in 1 .. Cardinality(I) |-> s[th(k)]]
<1>1. I \in SUBSET (1 .. Len(s)) /\ Len(s) \in Nat /\ \A i \in 1 .. Len(s) : s[i] \in S
  OBVIOUS
<1>2. Selected(s, I) = result
  BY DEF Selected, Below
<1>3. \A k \in 1 .. Cardinality(I) : th(k) \in I /\ Cardinality(Below(I, th(k))) = k
  BY <1>1, Ranks
<1>4. Cardinality(I) \in Nat
  BY <1>1, Ranks
<1>5. \A i \in I : Cardinality(Below(I, i)) \in 1 .. Cardinality(I) /\ th(Cardinality(Below(I, i))) = i
  <2> SUFFICES ASSUME NEW i \in I
               PROVE  /\ Cardinality(Below(I, i)) \in 1 .. Cardinality(I)
                      /\ th(Cardinality(Below(I, i))) = i
    OBVIOUS
  <2>1. Cardinality(Below(I, i)) \in 1 .. Cardinality(I)
    BY <1>1, Ranks
  <2> DEFINE k == Cardinality(Below(I, i))
  <2>2. th(k) \in I /\ Cardinality(Below(I, th(k))) = k
    BY <1>3, <2>1
  <2> HIDE DEF th
  <2>3. th(k) < i => Cardinality(Below(I, th(k))) < k
    BY <1>1, <2>2, Ranks
  <2>4. i < th(k) => k < Cardinality(Below(I, th(k)))
    BY <1>1, <2>2, Ranks
  <2>5. k \in Int /\ i \in Int /\ th(k) \in Int
    BY <1>1, <2>1, <2>2
  <2> HIDE DEF k
  <2>6. ~ (th(k) < i) /\ ~ (i < th(k))
    BY <2>2, <2>3, <2>4, <2>5
  <2>7. th(k) = i
    BY <2>5, <2>6
  <2> QED BY <2>1, <2>7 DEF k
<1> HIDE DEF th
<1>6. result \in Seq(S) /\ Len(result) = Cardinality(I)
  BY <1>1, <1>3, <1>4
<1> QED BY <1>2, <1>3, <1>4, <1>5, <1>6

\* All positions: the sequence itself.
LEMMA SelectedAll ==
  ASSUME NEW S, NEW s \in Seq(S)
  PROVE  Selected(s, DOMAIN s) = s
<1> DEFINE I == DOMAIN s
           th(k) == CHOOSE i \in I : Cardinality(Below(I, i)) = k
<1>1. I = 1 .. Len(s) /\ Len(s) \in Nat /\ s = [i \in 1 .. Len(s) |-> s[i]]
  OBVIOUS
<1>2. Selected(s, I) = [k \in 1 .. Cardinality(I) |-> s[th(k)]]
  BY DEF Selected, Below
<1>3. Cardinality(I) = Len(s)
  BY <1>1, FS_Interval
<1>4. \A i \in I : Cardinality(Below(I, i)) = i
  <2> SUFFICES ASSUME NEW i \in I
               PROVE  Cardinality(Below(I, i)) = i
    OBVIOUS
  <2>1. Below(I, i) = 1 .. i /\ i \in Nat /\ i >= 1
    BY <1>1 DEF Below
  <2> QED BY <2>1, FS_Interval
<1>5. \A k \in I : th(k) = k
  BY <1>4
<1> HIDE DEF th, I
<1> QED BY <1>1, <1>2, <1>3, <1>5

LEMMA FirstOfFacts ==
  ASSUME NEW S, NEW s \in Seq(S), NEW limit \in Int
  PROVE  /\ FirstOf(s, limit) \in Seq(S)
         /\ \A k \in DOMAIN FirstOf(s, limit) : k \in DOMAIN s /\ FirstOf(s, limit)[k] = s[k]
         /\ Len(FirstOf(s, limit)) <= Len(s)
         /\ limit >= 0 => Len(FirstOf(s, limit)) <= limit
<1> DEFINE n == IF Len(s) < limit THEN Len(s) ELSE limit
<1>1. Len(s) \in Nat /\ n \in Int /\ n <= Len(s) /\ (limit >= 0 => n >= 0 /\ n <= limit)
  OBVIOUS
<1>2. CASE n >= 1
  BY <1>1, <1>2 DEF FirstOf
<1>3. CASE n < 1
  <2>1. FirstOf(s, limit) = <<>>
    BY <1>1, <1>3 DEF FirstOf
  <2> QED BY <2>1, <1>1
<1> QED BY <1>1, <1>2, <1>3

LEMMA SeqAlso ==
  ASSUME NEW S, NEW T, NEW s \in Seq(S), \A i \in DOMAIN s : s[i] \in T
  PROVE  s \in Seq(T)
  OBVIOUS

LEMMA NothingBefore ==
  ASSUME NEW S, NEW s \in Seq(S)
  PROVE  <<>> \o s = s /\ \A i \in DOMAIN s : s[i] \in S
  OBVIOUS

\* The orders of a set are sequences of its members.
LEMMA OrderFacts ==
  ASSUME NEW S, IsFiniteSet(S), NEW s \in SetToSeqs(S)
  PROVE  s \in Seq(S) /\ Len(s) = Cardinality(S) /\ (S = {} => s = <<>>)
<1>1. Cardinality(S) \in Nat /\ (S = {} => Cardinality(S) = 0)
  BY FS_CardinalityType, FS_EmptySet
<1>2. s \in [1 .. Cardinality(S) -> S]
  BY DEF SetToSeqs
<1> DEFINE n == Cardinality(S)
<1> HIDE DEF n
<1>3. n \in Nat /\ s \in [1 .. n -> S] /\ (S = {} => n = 0)
  BY <1>1, <1>2 DEF n
<1>4. s \in Seq(S) /\ Len(s) = n
  BY <1>3
<1>5. S = {} => s = <<>>
  BY <1>3, <1>4
<1> QED BY <1>4, <1>5 DEF n

\* A row of the store is a neighbour, whatever the order, the limits and the repetitions.
LEMMA RowsFacts ==
  ASSUME NEW ends, IsFiniteSet(ends), NEW S, \A r \in ends : r[1] \in S, NEW s \in Rows(ends)
  PROVE  /\ s \in Seq(S)
         /\ \A i \in DOMAIN s : \E r \in ends : s[i] = r[1]
<1>1. PICK t \in SetToSeqs(ends) : s = [i \in DOMAIN t |-> t[i][1]]
  BY DEF Rows
<1>2. Cardinality(ends) \in Nat
  BY FS_CardinalityType
<1>3. t \in [1 .. Cardinality(ends) -> ends]
  BY DEF SetToSeqs
<1>4. s = [i \in 1 .. Cardinality(ends) |-> t[i][1]]
  BY <1>1, <1>3
<1>5. \A i \in 1 .. Cardinality(ends) : s[i] \in S /\ \E r \in ends : s[i] = r[1]
  BY <1>3, <1>4
<1> QED BY <1>2, <1>4, <1>5

LEMMA ConcatFacts ==
  ASSUME NEW S, NEW s \in Seq(S), NEW t \in Seq(S)
  PROVE  /\ s \o t \in Seq(S)
         /\ \A k \in DOMAIN (s \o t) : \/ \E i \in DOMAIN s : (s \o t)[k] = s[i]
                                       \/ \E i \in DOMAIN t : (s \o t)[k] = t[i]
<1>1. s \o t \in Seq(S) /\ Len(s \o t) = Len(s) + Len(t)
  OBVIOUS
<1>2. SUFFICES ASSUME NEW k \in DOMAIN (s \o t)
               PROVE  \/ \E i \in DOMAIN s : (s \o t)[k] = s[i]
                      \/ \E i \in DOMAIN t : (s \o t)[k] = t[i]
  BY <1>1
<1>3. CASE k <= Len(s)
  BY <1>3, <1>2
<1>4. CASE k > Len(s)
  <2>1. k - Len(s) \in DOMAIN t /\ (s \o t)[k] = t[k - Len(s)]
    BY <1>1, <1>2, <1>4
  <2> QED BY <2>1
<1> QED BY <1>1, <1>2, <1>3, <1>4

LEMMA Extended ==
  ASSUME NEW S, NEW p \in Seq(S) \ {<<>>}, NEW n \in S, NEW links,
         IsPath(p, links), <<Last(p), n>> \in links
  PROVE  LET longer == Append(p, n) IN
         /\ longer \in Seq(S) \ {<<>>}
         /\ longer[1] = p[1] /\ IsPath(longer, links)
         /\ \A i \in DOMAIN longer : longer[i] = n \/ \E j \in DOMAIN p : longer[i] = p[j]
<1> DEFINE longer == Append(p, n)
<1>1. /\ longer \in Seq(S) \ {<<>>} /\ Len(longer) = Len(p) + 1 /\ Len(p) \in Nat /\ Len(p) >= 1
      /\ longer[Len(p) + 1] = n /\ \A i \in 1 .. Len(p) : longer[i] = p[i]
  OBVIOUS
<1>2. \A i \in 1 .. Len(longer) - 1 : <<longer[i], longer[i + 1]>> \in links
  <2> HIDE DEF longer
  <2> SUFFICES ASSUME NEW i \in 1 .. Len(p)
               PROVE  <<longer[i], longer[i + 1]>> \in links
    BY <1>1
  <2>1. CASE i = Len(p)
    BY <1>1, <2>1 DEF Last
  <2>2. CASE i < Len(p)
    <3>1. i \in 1 .. Len(p) - 1 /\ i + 1 \in 1 .. Len(p)
      BY <1>1, <2>2
    <3> QED BY <1>1, <3>1 DEF IsPath
  <2> QED BY <1>1, <2>1, <2>2
<1> QED BY <1>1, <1>2 DEF IsPath

-----------------------------------------------------------------------------
(***************************************************************************)
(* The search for a path.  A trail begins at query.from, goes along links, *)
(* and its nodes are all there as long as no node has gone.                *)
(***************************************************************************)
Seeking == query.tool = "path"
Ends == Nodes \cup Range(NameOf)

Trail(s) ==
  /\ s \in Seq(Nodes) \ {<<>>} /\ s[1] = query.from /\ IsPath(s, linked)
  /\ removed = {} => \A i \in DOMAIN s : Present(s[i])

\* What is asked, and the tables and the store it is asked of.
Grounded ==
  /\ tables \in Versions /\ future \in Seq(Versions)
  /\ store # None => IsFiniteSet(store) /\ \A e \in store : e[1] \in Nodes /\ e[2] \in Ends
  /\ "tool" \in DOMAIN query
  /\ Seeking =>
       /\ query.from \in Nodes /\ query.to \in Nodes /\ query.direction = "callees"
       /\ query.max_nodes \in Nat
       /\ Links(tables, "callees") \subseteq linked
       /\ store # None => \A e \in store : e[2] \in Nodes => <<e[1], e[2]>> \in linked

\* A search that goes on has trails only; the rows it has been answered go on from `path'.
Trails ==
  /\ pc # "collect" /\ Len(queue) \in Nat
  /\ pc # "answered" => answer = <<>>
  /\ queue \in Seq(Seq(Nodes)) /\ \A i \in DOMAIN queue : Trail(queue[i])
  /\ pc = "look up" =>
       /\ Trail(path) /\ rows \in Seq(Ends)
       /\ \A i \in DOMAIN rows : rows[i] \in Nodes => <<Last(path), rows[i]>> \in linked

Led == Seeking => Trails

\* PathsExisted, with a panic only where a path is sought.
Arrived ==
  /\ pc = "panicked" => Seeking /\ removed # {}
  /\ pc = "answered" /\ Seeking /\ answer # <<>> =>
       removed # {} \/ (Trail(answer) /\ Last(answer) = query.to)

PathInv == Grounded /\ Led /\ Arrived

-----------------------------------------------------------------------------
LEMMA VersionFacts ==
  ASSUME NEW v \in Versions
  PROVE  /\ v.nodes \subseteq Nodes /\ IsFiniteSet(v.nodes) /\ IsFiniteSet(v.edges)
         /\ \A e \in v.edges : e[1] \in v.nodes /\ e[2] \in v.nodes \cup Range(NameOf)
         /\ Nodes \cap Range(NameOf) = {} /\ DOMAIN NameOf = Nodes
  BY QueryAssumption

\* What the store is built of leads where the tables do.
LEMMA BuiltFacts ==
  ASSUME NEW v \in Versions
  PROVE  /\ IsFiniteSet(Built(v))
         /\ \A e \in Built(v) :
              /\ e[1] \in Nodes /\ e[2] \in Ends
              /\ e[2] \in Nodes => <<e[1], e[2]>> \in Links(v, "callees")
<1>1. Built(v) \subseteq v.edges
  BY DEF Built
<1>2. IsFiniteSet(Built(v))
  BY <1>1, VersionFacts, FS_Subset
<1>3. ASSUME NEW e \in Built(v)
      PROVE  /\ e[1] \in Nodes /\ e[2] \in Ends
             /\ e[2] \in Nodes => <<e[1], e[2]>> \in Links(v, "callees")
  <2>1. e \in v.edges /\ e[1] \in v.nodes /\ e[2] \in v.nodes \cup Range(NameOf)
    BY <1>1, VersionFacts
  <2>2. e[1] \in Nodes /\ e[2] \in Ends
    BY <2>1, VersionFacts DEF Ends
  <2>3. e[2] \in Nodes => e[2] \in v.nodes
    BY <2>1, VersionFacts
  <2>4. e[2] \in Nodes => <<e[1], e[2]>> \in Links(v, "callees")
    BY <2>1, <2>3 DEF Links, Names
  <2> QED BY <2>2, <2>4
<1> QED BY <1>2, <1>3

LEMMA PathInit == Init => PathInv
<1> SUFFICES ASSUME Init
             PROVE  PathInv
  OBVIOUS
<1>1. PICK m \in Menus : /\ \E h \in m.histories : tables = Head(h) /\ future = Tail(h)
                         /\ query \in m.queries
  BY DEF Init, CodeInit
<1>2. tables \in Versions /\ future \in Seq(Versions)
  <2>1. PICK h \in m.histories : tables = Head(h) /\ future = Tail(h)
    BY <1>1
  <2>2. h \in Seq(Versions) /\ h # <<>>
    BY QueryAssumption
  <2> QED BY <2>1, <2>2
<1>3. store = None \/ \E v \in Versions : store = Built(v)
  <2>1. \A v \in Range(future) : v \in Versions
    BY <1>2 DEF Range
  <2> QED BY <1>2, <2>1 DEF Init, CodeInit
<1>4. /\ "tool" \in DOMAIN query
      /\ Seeking => /\ query.from \in Nodes /\ query.to \in Nodes
                    /\ query.direction = "callees" /\ query.max_nodes \in Nat
  BY <1>1, QueryAssumption DEF Seeking
<1>5. store # None => IsFiniteSet(store) /\ \A e \in store : e[1] \in Nodes /\ e[2] \in Ends
  BY <1>3, BuiltFacts
<1>6. Seeking => /\ Links(tables, "callees") \subseteq linked
                 /\ store # None => \A e \in store : e[2] \in Nodes => <<e[1], e[2]>> \in linked
  <2> SUFFICES ASSUME Seeking
               PROVE  /\ Links(tables, "callees") \subseteq linked
                      /\ store # None =>
                           \A e \in store : e[2] \in Nodes => <<e[1], e[2]>> \in linked
    OBVIOUS
  <2> DEFINE whole == [nodes |-> Nodes, edges |-> store]
  <2>1. /\ Links(tables, "callees") \subseteq linked
        /\ store # None => Links(whole, "callees") \subseteq linked
    BY <1>4 DEF Init, CodeInit
  <2>2. ASSUME store # None, NEW e \in store, e[2] \in Nodes
        PROVE  <<e[1], e[2]>> \in Links(whole, "callees")
    BY <2>2, <1>5 DEF Links, Names
  <2> HIDE DEF whole
  <2> QED BY <2>1, <2>2
<1>7. Led /\ Arrived
  BY DEF Init, CodeInit, Led, Trails, Arrived, Seeking
<1> QED BY <1>2, <1>4, <1>5, <1>6, <1>7 DEF PathInv, Grounded

-----------------------------------------------------------------------------
(***************************************************************************)
(* What the other processes do: links and removed nodes only become more.  *)
(***************************************************************************)
LEMMA TrailStays ==
  ASSUME NEW s, Trail(s), query' = query, linked \subseteq linked',
         removed' = {} => removed = {} /\ tables.nodes \subseteq tables'.nodes
  PROVE  Trail(s)'
<1>1. IsPath(s, linked')
  BY DEF Trail, IsPath
<1>2. removed' = {} => \A i \in DOMAIN s : Present(s[i])'
  BY DEF Trail, Present
<1> QED BY <1>1, <1>2 DEF Trail

LEMMA StillLed ==
  ASSUME Led, Arrived, query' = query, linked \subseteq linked',
         removed' = {} => removed = {} /\ tables.nodes \subseteq tables'.nodes,
         UNCHANGED <<pc, queue, path, rows, answer>>
  PROVE  Led' /\ Arrived'
<1>1. Led'
  <2> SUFFICES ASSUME Seeking
               PROVE  Trails'
    BY DEF Led, Seeking
  <2>1. Trails
    BY DEF Led
  <2>2. \A i \in DOMAIN queue : Trail(queue[i])'
    BY <2>1, TrailStays DEF Trails
  <2>3. pc = "look up" => Trail(path)'
    BY <2>1, TrailStays DEF Trails
  <2>4. pc = "look up" => \A i \in DOMAIN rows : rows[i] \in Nodes => <<Last(path), rows[i]>> \in linked'
    BY <2>1 DEF Trails
  <2> QED BY <2>1, <2>2, <2>3, <2>4 DEF Trails, Trail
<1>2. Arrived'
  <2>1. pc = "panicked" => Seeking' /\ removed' # {}
    BY DEF Arrived, Seeking
  <2>2. pc = "answered" /\ Seeking /\ answer # <<>> => removed' # {} \/ Trail(answer)'
    BY TrailStays DEF Arrived
  <2> QED BY <2>1, <2>2 DEF Arrived, Seeking, Trail
<1> QED BY <1>1, <1>2

LEMMA CommitKeepsPaths ==
  ASSUME PathInv, Commit
  PROVE  PathInv'
<1>1. /\ future # <<>> /\ tables' = Head(future) /\ future' = Tail(future)
      /\ linked' = linked \cup Links(tables', query.direction)
      /\ removed' = removed \cup (tables.nodes \ tables'.nodes)
      /\ UNCHANGED <<store, query, pc, queue, path, rows, answer>>
  BY DEF Commit, Reindex, search
<1>2. tables' \in Versions /\ future' \in Seq(Versions)
  BY <1>1 DEF PathInv, Grounded
<1>3. Grounded'
  BY <1>1, <1>2 DEF PathInv, Grounded, Seeking
<1>4. removed' = {} => removed = {} /\ tables.nodes \subseteq tables'.nodes
  BY <1>1
<1> QED BY <1>1, <1>3, <1>4, StillLed DEF PathInv

LEMMA StoreKeepsPaths ==
  ASSUME PathInv, StoreStep, UNCHANGED <<searchVars, ftsVars, around>>
  PROVE  PathInv'
<1>1. UNCHANGED <<tables, future, query, pc, queue, path, rows, answer, linked, removed>>
  BY DEF StoreStep, Clear, Rebuild, search
<1>2. Led' /\ Arrived'
  BY <1>1, StillLed DEF PathInv
<1>3. store' # None => store' = Built(tables)
  BY DEF StoreStep, Clear, Rebuild
<1>4. tables \in Versions
  BY DEF PathInv, Grounded
<1>5. store' # None =>
        IsFiniteSet(store') /\ \A e \in store' : e[1] \in Nodes /\ e[2] \in Ends
  BY <1>3, <1>4, BuiltFacts
<1>6. Seeking /\ store' # None =>
        \A e \in store' : e[2] \in Nodes => <<e[1], e[2]>> \in linked
  BY <1>3, <1>4, BuiltFacts DEF PathInv, Grounded
<1>7. Grounded'
  BY <1>1, <1>5, <1>6 DEF PathInv, Grounded, Seeking
<1> QED BY <1>2, <1>7 DEF PathInv

\* Nothing has been looked for before the tables are open.
LEMMA OpenKeepsPaths ==
  ASSUME PathInv, Open
  PROVE  PathInv'
<1>1. /\ UNCHANGED <<tables, future, store, query, queue, path, rows, answer, linked, removed>>
      /\ pc = "open" /\ pc' \in {"start", "collect", "failed"}
      /\ Seeking => pc' # "collect"
  BY DEF Open, Seeking
<1>2. Grounded'
  BY <1>1 DEF PathInv, Grounded, Seeking
<1>3. Led'
  BY <1>1 DEF PathInv, Led, Trails, Trail, Seeking, Present
<1> QED BY <1>1, <1>2, <1>3 DEF PathInv, Arrived

\* The searches of ContextSearch change pc and query where no path is sought.
LEMMA SearchesKeepPaths ==
  ASSUME PathInv, Exact \/ Lexical \/ Embed \/ Unify \/ Compose \/ Deliver
  PROVE  PathInv'
<1>1. pc = "collect" /\ ~ Seeking
  <2>1. pc = "collect"
    BY DEF Exact, Lexical, Embed, Unify, Compose, Deliver, At
  <2> QED BY <2>1 DEF PathInv, Led, Trails
<1>2. /\ UNCHANGED <<tables, future, store, queue, path, rows, answer, linked, removed>>
      /\ query' = query \/ \E n : query' = [query EXCEPT !.from = n]
      /\ pc' \in {"open", "collect", "start", "answered", "failed"}
  BY <1>1 DEF Exact, Lexical, Embed, Unify, Compose, Deliver, codeVars, search
<1>3. "tool" \in DOMAIN query' /\ query'.tool = query.tool
  BY <1>2 DEF PathInv, Grounded
<1>4. ~ Seeking'
  BY <1>1, <1>3 DEF Seeking
<1> QED BY <1>2, <1>3, <1>4 DEF PathInv, Grounded, Led, Arrived

-----------------------------------------------------------------------------
(***************************************************************************)
(* The steps of the search itself.                                         *)
(***************************************************************************)
LEMMA SameGround ==
  ASSUME Grounded, UNCHANGED <<tables, future, store, query, linked>>
  PROVE  Grounded'
  BY DEF Grounded, Seeking

LEMMA StartKeepsPaths ==
  ASSUME PathInv, Start
  PROVE  PathInv'
<1>1. Grounded'
  BY SameGround DEF PathInv, Start
<1>2. Led'
  <2> SUFFICES ASSUME Seeking
               PROVE  Trails'
    BY DEF Led, Seeking, Start
  <2>1. Trails /\ query.from \in Nodes /\ None \notin Nodes
    BY QueryAssumption DEF PathInv, Led, Grounded
  <2>2. CASE pc' = "pop"
    <3>1. /\ Present(query.from) /\ queue' = << <<query.from>> >>
          /\ UNCHANGED <<tables, query, path, rows, answer, linked, removed>>
      BY <2>1, <2>2 DEF Start
    <3>2. <<query.from>> \in Seq(Nodes) \ {<<>>} /\ Trail(<<query.from>>)'
      BY <2>1, <3>1 DEF Trail, IsPath, Present
    <3> QED BY <2>1, <2>2, <3>1, <3>2 DEF Trails, Start
  <2>3. CASE pc' = "not found"
    BY <2>1, <2>3 DEF Trails, Trail, Present, Start
  <2> QED BY <2>2, <2>3 DEF Start
<1>3. Arrived'
  BY DEF Start, Arrived
<1> QED BY <1>1, <1>2, <1>3 DEF PathInv

\* What the store answers for a node of which callees are asked.
LEMMA AskedStore ==
  ASSUME Grounded, Seeking, NEW n \in Nodes, NEW answered \in StoreNeighbors(n, "callees", query.max_nodes)
  PROVE  /\ answered \in Seq(Ends)
         /\ \A i \in DOMAIN answered : answered[i] \in Nodes => <<n, answered[i]>> \in linked
<1>1. CASE store = None
  BY <1>1 DEF StoreNeighbors
<1>2. CASE store # None
  <2> DEFINE limit == query.max_nodes
             Good(s) == s \in Seq(Ends) /\ \A i \in DOMAIN s : s[i] \in Nodes => <<n, s[i]>> \in linked
  <2>1. limit \in Int /\ IsFiniteSet(store)
    BY <1>2 DEF Grounded
  <2>2. ASSUME NEW ends, NEW s \in Rows(StoreCallees(n, ends))
        PROVE  Good(s)
    <3> DEFINE rows_ == StoreCallees(n, ends)
           those == {e \in store : e[1] = n /\ e[2] \in ends}
           row == [e \in those |-> <<e[2], e[3]>>]
    <3>1. IsFiniteSet(those)
      BY <2>1, FS_Subset
    <3>2. IsFiniteSet(rows_)
      <4>1. row \in Surjection(those, rows_)
        BY DEF StoreCallees, Surjection
      <4> QED BY <3>1, <4>1, FS_Surjection
    <3>3. \A r \in rows_ : r[1] \in Ends /\ (r[1] \in Nodes => <<n, r[1]>> \in linked)
      BY <1>2 DEF StoreCallees, Grounded
    <3>4. s \in Rows(rows_)
      BY <2>2
    <3> HIDE DEF rows_
    <3>5. s \in Seq(Ends) /\ \A i \in DOMAIN s : \E r \in rows_ : s[i] = r[1]
      <4>1. \A r \in rows_ : r[1] \in Ends
        BY <3>3
      <4> QED BY <3>2, <3>4, <4>1, RowsFacts
    <3> QED BY <3>3, <3>5
  <2>3. ASSUME NEW s, Good(s)
        PROVE  Good(FirstOf(s, limit))
    <3> HIDE DEF limit
    <3> QED BY <2>1, <2>3, FirstOfFacts
  <2>4. ASSUME NEW s, NEW t, Good(s), Good(t)
        PROVE  Good(s \o t)
    BY <2>4, ConcatFacts
  <2>5. ASSUME NEW s, Good(s)
        PROVE  Good(Distinct(s, {}))
    <3> DEFINE I == {i \in DOMAIN s : s[i] \notin {} \cup {s[j] : j \in 1 .. i - 1}}
    <3>1. I \in SUBSET DOMAIN s /\ Distinct(s, {}) = Selected(s, I)
      BY DEF Distinct
    <3> HIDE DEF I
    <3> QED BY <2>5, <3>1, SelectedFacts
  <2>6. Good(<<>>)
    OBVIOUS
  <2>7. PICK callees \in Rows(StoreCallees(n, Nodes)), names \in Rows(StoreCallees(n, Range(NameOf))) :
          answered = FirstOf(Distinct((FirstOf(callees, limit) \o FirstOf(names, limit)) \o <<>>, {}), limit)
    BY <1>2 DEF StoreNeighbors
  <2>8. Good(answered)
    <3> HIDE DEF Good
    <3>1. Good(callees) /\ Good(names)
      BY <2>2
    <3>2. Good(FirstOf(callees, limit) \o FirstOf(names, limit))
      BY <2>3, <2>4, <3>1
    <3>3. Good((FirstOf(callees, limit) \o FirstOf(names, limit)) \o <<>>)
      BY <2>4, <2>6, <3>2
    <3> QED BY <2>3, <2>5, <2>7, <3>3
  <2> QED BY <2>8
<1> QED BY <1>1, <1>2

\* A trail that is read once more when it has arrived is whole, unless a node has gone.
LEMMA WholeTrail ==
  ASSUME NEW s, Trail(s), removed = {}
  PROVE  StillPresent(s) = s
<1>1. {i \in DOMAIN s : Present(s[i])} = DOMAIN s /\ s \in Seq(Nodes)
  BY DEF Trail
<1> QED BY <1>1, SelectedAll DEF StillPresent

LEMMA PopKeepsPaths ==
  ASSUME PathInv, PopPath
  PROVE  PathInv'
<1>1. /\ Seeking /\ pc = "pop" /\ queue # <<>> /\ Seeking'
      /\ UNCHANGED <<tables, future, store, query, linked, removed>>
  BY DEF PopPath, Seeking
<1>2. Grounded'
  BY <1>1, SameGround DEF PathInv
<1>3. Trails /\ query.from \in Nodes
  BY <1>1 DEF PathInv, Led, Grounded
<1>4. Trail(Head(queue)) /\ Tail(queue) \in Seq(Seq(Nodes)) /\ Len(Tail(queue)) \in Nat
  BY <1>1, <1>3 DEF Trails
<1>5. \A i \in DOMAIN Tail(queue) : Trail(Tail(queue)[i])
  BY <1>1, <1>3 DEF Trails
<1>6. Current \in Nodes /\ (removed = {} => Present(Current))
  BY <1>4 DEF Trail, Current, Last
<1>7. \A s : Trail(s) => Trail(s)'
  BY <1>1 DEF Trail, Present
<1>8. CASE pc' = "pop" /\ Drop
  <2>1. Trails'
    BY <1>3, <1>4, <1>5, <1>7, <1>8 DEF Trails, Drop
  <2> QED BY <1>1, <1>2, <1>8, <2>1 DEF PathInv, Led, Arrived
<1>9. CASE Ask
  <2>1. /\ pc' = "look up" /\ path' = Head(queue) /\ queue' = Tail(queue) /\ UNCHANGED answer
        /\ rows' \in StoreNeighbors(Current, "callees", query.max_nodes)
    BY <1>1, <1>9 DEF Ask, PathInv, Grounded
  <2>2. /\ rows' \in Seq(Ends)
        /\ \A i \in DOMAIN rows' : rows'[i] \in Nodes => <<Current, rows'[i]>> \in linked
    BY <1>1, <1>6, <2>1, AskedStore DEF PathInv
  <2>3. Last(path') = Current
    BY <2>1 DEF Current
  <2>4. Trails'
    BY <1>1, <1>3, <1>4, <1>5, <1>7, <2>1, <2>2, <2>3 DEF Trails
  <2> QED BY <1>1, <1>2, <2>1, <2>4 DEF PathInv, Led, Arrived
<1>10. CASE /\ pc' = "panicked" /\ ~ Present(Current)
            /\ UNCHANGED <<queue, found, rows, path, truncated, answer>>
  <2>1. removed # {}
    BY <1>6, <1>10
  <2>2. Trails'
    BY <1>1, <1>3, <1>7, <1>10 DEF Trails
  <2> QED BY <1>1, <1>2, <1>10, <2>1, <2>2 DEF PathInv, Led, Arrived
<1>11. CASE /\ Current = query.to /\ pc' = "answered" /\ answer' = StillPresent(Head(queue))
            /\ UNCHANGED <<queue, visited, found, rows, path>>
  <2>1. Trails'
    BY <1>1, <1>3, <1>7, <1>11 DEF Trails
  <2>2. removed = {} => Trail(answer') /\ Last(answer') = query.to
    BY <1>4, <1>11, WholeTrail DEF Current
  <2>3. removed' = {} => Trail(answer)' /\ Last(answer)' = query.to
    BY <1>1, <2>2 DEF Trail, Present
  <2> QED BY <1>1, <1>2, <1>11, <2>1, <2>3 DEF PathInv, Led, Arrived
<1>12. \/ pc' = "pop" /\ Drop
       \/ Ask
       \/ /\ pc' = "panicked" /\ ~ Present(Current)
          /\ UNCHANGED <<queue, found, rows, path, truncated, answer>>
       \/ /\ Current = query.to /\ pc' = "answered" /\ answer' = StillPresent(Head(queue))
          /\ UNCHANGED <<queue, visited, found, rows, path>>
  <2>1. CASE Current = query.to
    BY <2>1 DEF PopPath
  <2>2. CASE Current # query.to /\ Depth >= query.max_depth
    BY <1>1, <2>2 DEF PopPath, Drop
  <2>3. CASE Current # query.to /\ Depth < query.max_depth /\ Current \in visited
    BY <1>1, <2>3 DEF PopPath, Drop
  <2>4. CASE /\ Current # query.to /\ ~ (Depth >= query.max_depth)
             /\ ~ (Depth < query.max_depth /\ Current \in visited)
    BY <1>1, <2>4 DEF PopPath, Drop
  <2> QED BY <2>1, <2>2, <2>3, <2>4
<1> QED BY <1>8, <1>9, <1>10, <1>11, <1>12

\* What the tables answer, or leave of the store's answer.
LEMMA LookedUp ==
  ASSUME PathInv, Seeking, pc = "look up", NEW neighbors \in Neighbors
  PROVE  /\ neighbors \in Seq(Nodes)
         /\ \A i \in DOMAIN neighbors :
              Present(neighbors[i]) /\ <<Last(path), neighbors[i]>> \in linked
<1>1. /\ tables \in Versions /\ query.direction = "callees" /\ Links(tables, "callees") \subseteq linked
      /\ rows \in Seq(Ends)
      /\ \A i \in DOMAIN rows : rows[i] \in Nodes => <<Last(path), rows[i]>> \in linked
  BY DEF PathInv, Grounded, Led, Trails
<1>2. tables.nodes \subseteq Nodes /\ IsFiniteSet(tables.nodes)
  BY <1>1, VersionFacts
<1>3. CASE rows # <<>>
  <2> DEFINE I == {i \in DOMAIN rows : Present(rows[i])}
  <2>1. I \in SUBSET DOMAIN rows /\ neighbors = Selected(rows, I)
    BY <1>3 DEF Neighbors, StillPresent
  <2>2. \A i \in I : Present(rows[i]) /\ rows[i] \in Nodes /\ <<Last(path), rows[i]>> \in linked
    BY <1>1, <1>2 DEF Present
  <2> HIDE DEF I
  <2>3. /\ neighbors \in Seq(Ends)
        /\ \A k \in DOMAIN neighbors : \E i \in I : neighbors[k] = rows[i]
    BY <1>1, <2>1, SelectedFacts
  <2>4. \A k \in DOMAIN neighbors :
          neighbors[k] \in Nodes /\ Present(neighbors[k]) /\ <<Last(path), neighbors[k]>> \in linked
    BY <2>2, <2>3, Zenon
  <2>5. neighbors \in Seq(Nodes)
    BY <2>3, <2>4, SeqAlso
  <2> QED BY <2>4, <2>5
<1>4. CASE rows = <<>>
  <2> DEFINE n == Last(path)
  <2>1. neighbors \in SqlNeighbors(n, "callees")
    BY <1>1, <1>4 DEF Neighbors
  <2>2. PICK orders \in SetToSeqs({}) \X SetToSeqs(SqlCallees(n)) :
          neighbors = orders[1] \o orders[2]
    BY <2>1 DEF SqlNeighbors
  <2> HIDE DEF n
  <2> DEFINE callers == orders[1]
             callees == orders[2]
  <2>3. /\ callers \in SetToSeqs({}) /\ callees \in SetToSeqs(SqlCallees(n))
        /\ neighbors = callers \o callees
    BY <2>2
  <2> HIDE DEF callers, callees
  <2>4. IsFiniteSet(SqlCallees(n)) /\ IsFiniteSet({})
    BY <1>2, FS_Subset, FS_EmptySet DEF SqlCallees
  <2>5. callers = <<>>
    BY <2>3, <2>4, OrderFacts
  <2>6. callees \in Seq(SqlCallees(n))
    BY <2>3, <2>4, OrderFacts
  <2>7. neighbors = callees
    BY <2>3, <2>5, <2>6, NothingBefore
  <2>8. neighbors \in Seq(SqlCallees(n))
    BY <2>6, <2>7
  <2>9. \A m \in SqlCallees(n) : Present(m) /\ m \in Nodes /\ <<n, m>> \in linked
    <3> SUFFICES ASSUME NEW m \in SqlCallees(n)
                 PROVE  Present(m) /\ m \in Nodes /\ <<n, m>> \in linked
      OBVIOUS
    <3>1. PICK e \in tables.edges : e[1] = n /\ Names(e, m) /\ m \in tables.nodes
      BY DEF SqlCallees
    <3>2. n \in tables.nodes
      BY <1>1, <3>1, VersionFacts
    <3>3. <<n, m>> \in Links(tables, "callees")
      BY <3>1, <3>2 DEF Links
    <3> QED BY <1>1, <1>2, <3>1, <3>3 DEF Present
  <2>10. \A k \in DOMAIN neighbors : neighbors[k] \in SqlCallees(n)
    BY <2>8, NothingBefore
  <2>11. neighbors \in Seq(Nodes)
    BY <2>8, <2>9, <2>10, SeqAlso
  <2> QED BY <2>9, <2>10, <2>11 DEF n
<1> QED BY <1>3, <1>4

LEMMA LookUpKeepsPaths ==
  ASSUME PathInv, Seeking, LookUp
  PROVE  PathInv'
<1>1. /\ pc = "look up" /\ pc' = "pop" /\ rows' = <<>> /\ path' = <<>> /\ Seeking'
      /\ UNCHANGED <<tables, future, store, query, answer, linked, removed>>
  BY DEF LookUp, Seeking
<1>2. PICK neighbors \in Neighbors :
        queue' = queue \o [i \in 1 .. Len(neighbors) |-> Append(path, neighbors[i])]
  BY DEF LookUp, Seeking
<1>3. /\ neighbors \in Seq(Nodes)
      /\ \A i \in DOMAIN neighbors :
           Present(neighbors[i]) /\ <<Last(path), neighbors[i]>> \in linked
  BY <1>1, LookedUp
<1>4. Trails /\ Trail(path)
  BY <1>1 DEF PathInv, Led, Trails
<1> DEFINE more == [i \in 1 .. Len(neighbors) |-> Append(path, neighbors[i])]
<1>5. more \in Seq(Seq(Nodes)) /\ DOMAIN more = DOMAIN neighbors
  BY <1>3, <1>4 DEF Trail
<1>6. \A i \in DOMAIN more : Trail(more[i])
  <2> SUFFICES ASSUME NEW i \in DOMAIN neighbors
               PROVE  Trail(Append(path, neighbors[i]))
    BY <1>5
  <2> DEFINE n == neighbors[i]
  <2>1. n \in Nodes /\ Present(n) /\ <<Last(path), n>> \in linked
    BY <1>3
  <2>2. path \in Seq(Nodes) \ {<<>>} /\ path[1] = query.from /\ IsPath(path, linked)
    BY <1>4 DEF Trail
  <2>3. removed = {} => \A j \in DOMAIN path : Present(path[j])
    BY <1>4 DEF Trail
  <2> HIDE DEF n
  <2>4. /\ Append(path, n) \in Seq(Nodes) \ {<<>>} /\ Append(path, n)[1] = path[1]
        /\ IsPath(Append(path, n), linked)
        /\ \A k \in DOMAIN Append(path, n) :
             Append(path, n)[k] = n \/ \E j \in DOMAIN path : Append(path, n)[k] = path[j]
    BY <2>1, <2>2, Extended
  <2>5. removed = {} => \A k \in DOMAIN Append(path, n) : Present(Append(path, n)[k])
    BY <2>1, <2>3, <2>4
  <2>6. Trail(Append(path, n))
    BY <2>2, <2>4, <2>5 DEF Trail
  <2> QED BY <2>6 DEF n
<1> HIDE DEF more
<1>7. queue \in Seq(Seq(Nodes)) /\ \A i \in DOMAIN queue : Trail(queue[i])
  BY <1>4 DEF Trails
<1>8. queue' \in Seq(Seq(Nodes)) /\ \A i \in DOMAIN queue' : Trail(queue'[i])
  <2>1. queue' = queue \o more
    BY <1>2, Zenon DEF more
  <2> DEFINE Lists == Seq(Nodes)
  <2>2. queue \in Seq(Lists) /\ more \in Seq(Lists)
    BY <1>5, <1>7
  <2> HIDE DEF Lists
  <2>3. /\ queue \o more \in Seq(Lists)
        /\ \A k \in DOMAIN (queue \o more) : \/ \E i \in DOMAIN queue : (queue \o more)[k] = queue[i]
                                             \/ \E i \in DOMAIN more : (queue \o more)[k] = more[i]
    BY <2>2, ConcatFacts
  <2> QED BY <1>6, <1>7, <2>1, <2>3 DEF Lists
<1>9. \A i \in DOMAIN queue' : Trail(queue[i])'
  BY <1>1, <1>8 DEF Trail, Present
<1>10. Trails'
  <2>1. pc' # "collect" /\ pc' # "look up" /\ answer' = <<>>
    BY <1>1, <1>4 DEF Trails
  <2>2. Len(queue') \in Nat /\ queue' \in Seq(Seq(Nodes))
    BY <1>8
  <2> QED BY <1>9, <2>1, <2>2 DEF Trails
<1>11. Grounded'
  BY <1>1, SameGround DEF PathInv
<1> QED BY <1>1, <1>10, <1>11 DEF PathInv, Led, Arrived

LEMMA AnswerKeepsPaths ==
  ASSUME PathInv, Answer
  PROVE  PathInv'
<1>1. /\ pc = "pop" /\ pc' = "answered"
      /\ UNCHANGED <<tables, future, store, query, queue, path, rows, answer, linked, removed>>
  BY DEF Answer
<1>2. Grounded'
  BY <1>1, SameGround DEF PathInv
<1>3. Led'
  BY <1>1 DEF PathInv, Led, Trails, Trail, Seeking, Present
<1>4. Arrived'
  BY <1>1 DEF PathInv, Led, Trails, Arrived, Seeking
<1> QED BY <1>2, <1>3, <1>4 DEF PathInv

\* An impact graph seeks no path.
LEMMA ImpactKeepsPaths ==
  ASSUME PathInv, ~ Seeking, PopImpact \/ LookUp
  PROVE  PathInv'
<1>1. /\ pc' \in {"pop", "look up"}
      /\ UNCHANGED <<tables, future, store, query, linked, removed>>
  BY DEF PopImpact, LookUp, Drop, Ask
<1>2. Grounded'
  BY <1>1, SameGround DEF PathInv
<1> QED BY <1>1, <1>2 DEF PathInv, Led, Arrived, Seeking

LEMMA PathStep == PathInv /\ [Next]_vars => PathInv'
<1> SUFFICES ASSUME PathInv, [Next]_vars
             PROVE  PathInv'
  OBVIOUS
<1>1. CASE Next
  <2>1. CASE QueryStep
    <3>1. CASE Start
      BY <3>1, StartKeepsPaths
    <3>2. CASE PopImpact
      BY <3>2, ImpactKeepsPaths DEF PopImpact, Seeking
    <3>3. CASE PopPath
      BY <3>3, PopKeepsPaths
    <3>4. CASE LookUp
      BY <3>4, LookUpKeepsPaths, ImpactKeepsPaths
    <3>5. CASE Answer
      BY <3>5, AnswerKeepsPaths
    <3> QED BY <2>1, <3>1, <3>2, <3>3, <3>4, <3>5 DEF QueryStep
  <2>2. CASE StoreStep /\ UNCHANGED <<searchVars, ftsVars, around>>
    BY <2>2, StoreKeepsPaths
  <2>3. CASE Open \/ Exact \/ Lexical \/ Embed \/ Unify \/ Compose \/ Deliver
    BY <2>3, OpenKeepsPaths, SearchesKeepPaths
  <2>4. CASE Commit
    BY <2>4, CommitKeepsPaths
  <2> QED BY <1>1, <2>1, <2>2, <2>3, <2>4 DEF Next
<1>2. CASE UNCHANGED vars
  <2>1. UNCHANGED <<tables, future, store, query, pc, queue, path, rows, answer, linked, removed>>
    BY <1>2 DEF vars, codeVars, search
  <2>2. Grounded'
    BY <2>1, SameGround DEF PathInv
  <2>3. Led' /\ Arrived'
    BY <2>1, StillLed DEF PathInv
  <2> QED BY <2>2, <2>3 DEF PathInv
<1> QED BY <1>1, <1>2

(***************************************************************************)
(* Whatever an indexer commits and whenever the store is cleared and       *)
(* rebuilt, call_find_execution_path panics only if a node has gone since  *)
(* it began, and the path it answers goes from start to end along links    *)
(* that have been there, unless a node has gone.                           *)
(***************************************************************************)
THEOREM PathsAreReal == Spec => []PathsExisted
<1>1. PathInv => PathsExisted
  BY DEF PathInv, Arrived, Trail, PathsExisted, Seeking
<1> QED BY <1>1, PathInit, PathStep, PTL DEF Spec

-----------------------------------------------------------------------------
(***************************************************************************)
(* Reachability: what Within gives for every number of links.              *)
(***************************************************************************)
\* Induction, with a set for the property.
LEMMA Induction ==
  ASSUME NEW I \in SUBSET Nat, 0 \in I, \A k \in I : k + 1 \in I
  PROVE  I = Nat
<1> SUFFICES ASSUME Nat \ I # {}
             PROVE  FALSE
  OBVIOUS
<1> DEFINE R == OpToRel(<, Nat)
           T == Nat \ I
<1>1. PICK x \in T : \A y \in T : ~ (<<y, x>> \in R)
  <2>1. T \subseteq Nat /\ T # {} /\ IsWellFoundedOn(R, Nat)
    BY NatLessThanWellFounded
  <2> HIDE DEF R, T
  <2> QED BY <2>1, WFMin
<1>2. x \in Nat /\ x # 0
  OBVIOUS
<1>3. x - 1 \in Nat /\ x - 1 < x /\ (x - 1) + 1 = x
  BY <1>2
<1>4. <<x - 1, x>> \in R
  BY <1>2, <1>3 DEF OpToRel
<1>5. x - 1 \in I
  BY <1>1, <1>3, <1>4
<1> QED BY <1>3, <1>5

Image(links, S) == {l[2] : l \in {m \in links : m[1] \in S}}

\* What one link leads to from S is Image; this is the recursive function in Within.
IsReached(r, links, n, k) ==
  r = [i \in 0 .. k |-> IF i = 0 THEN {n} ELSE r[i - 1] \cup Image(links, r[i - 1])]

\* There is one such function,
LEMMA ReachedExists ==
  ASSUME NEW links, NEW n, NEW k \in Nat
  PROVE  \E r : IsReached(r, links, n, k)
<1> DEFINE I == {i \in Nat : \E r : IsReached(r, links, n, i)}
<1>1. 0 \in I
  <2>1. IsReached([i \in 0 .. 0 |-> {n}], links, n, 0)
    BY DEF IsReached
  <2> QED BY <2>1
<1>2. ASSUME NEW i \in I
      PROVE  i + 1 \in I
  <2>1. PICK r : IsReached(r, links, n, i)
    OBVIOUS
  <2> DEFINE s == [j \in 0 .. i + 1 |-> IF j = i + 1 THEN r[i] \cup Image(links, r[i]) ELSE r[j]]
  <2>2. \A j \in 0 .. i : r[j] = IF j = 0 THEN {n} ELSE r[j - 1] \cup Image(links, r[j - 1])
    BY <2>1 DEF IsReached
  <2>3. \A j \in 0 .. i + 1 : s[j] = IF j = 0 THEN {n} ELSE s[j - 1] \cup Image(links, s[j - 1])
    <3> SUFFICES ASSUME NEW j \in 0 .. i + 1
                 PROVE  s[j] = IF j = 0 THEN {n} ELSE s[j - 1] \cup Image(links, s[j - 1])
      OBVIOUS
    <3>1. CASE j = i + 1
      BY <3>1
    <3>2. CASE j # i + 1
      <4>1. j \in 0 .. i /\ (j # 0 => j - 1 \in 0 .. i)
        BY <3>2
      <4>2. s[j] = r[j] /\ (j # 0 => s[j - 1] = r[j - 1])
        BY <3>2, <4>1
      <4> QED BY <2>2, <4>1, <4>2
    <3> QED BY <3>1, <3>2
  <2>4. IsReached(s, links, n, i + 1)
    <3>1. s = [j \in 0 .. i + 1 |-> s[j]]
      OBVIOUS
    <3> HIDE DEF s
    <3> QED BY <2>3, <3>1 DEF IsReached
  <2> QED BY <2>4
<1>3. I = Nat
  <2> HIDE DEF I
  <2>1. I \in SUBSET Nat
    BY DEF I
  <2> QED BY <1>1, <1>2, <2>1, Induction
<1> QED BY <1>3

\* and it does not depend on where it ends.
LEMMA ReachedUnique ==
  ASSUME NEW links, NEW n, NEW j \in Nat, NEW k \in Nat, NEW r, NEW s,
         IsReached(r, links, n, j), IsReached(s, links, n, k)
  PROVE  \A i \in Nat : i <= j /\ i <= k => r[i] = s[i]
<1> DEFINE I == {i \in Nat : i <= j /\ i <= k => r[i] = s[i]}
<1>1. /\ \A i \in 0 .. j : r[i] = IF i = 0 THEN {n} ELSE r[i - 1] \cup Image(links, r[i - 1])
      /\ \A i \in 0 .. k : s[i] = IF i = 0 THEN {n} ELSE s[i - 1] \cup Image(links, s[i - 1])
  BY DEF IsReached
<1>2. 0 \in I
  <2>1. 0 \in 0 .. j /\ 0 \in 0 .. k
    OBVIOUS
  <2>2. r[0] = {n} /\ s[0] = {n}
    BY <1>1, <2>1
  <2> QED BY <2>2
<1>3. ASSUME NEW i \in I
      PROVE  i + 1 \in I
  <2> SUFFICES ASSUME i + 1 <= j, i + 1 <= k
               PROVE  r[i + 1] = s[i + 1]
    OBVIOUS
  <2>1. i \in Nat /\ r[i] = s[i] /\ i + 1 # 0 /\ (i + 1) - 1 = i
    OBVIOUS
  <2>2. i + 1 \in 0 .. j /\ i + 1 \in 0 .. k
    BY <2>1
  <2> QED BY <1>1, <2>1, <2>2, ZenonT(60)
<1>4. I = Nat
  <2> HIDE DEF I
  <2>1. I \in SUBSET Nat
    BY DEF I
  <2> QED BY <1>2, <1>3, <2>1, Induction
<1> QED BY <1>4

\* So Within, whose function is chosen, is a value of it.
LEMMA WithinIs ==
  ASSUME NEW links, NEW n, NEW k \in Nat
  PROVE  \E r : IsReached(r, links, n, k) /\ Within(links, n, k) = r[k]
<1> DEFINE reached == CHOOSE r : IsReached(r, links, n, k)
<1>1. IsReached(reached, links, n, k)
  BY ReachedExists
<1>2. Within(links, n, k) = reached[k]
  BY DEF Within, IsReached, Image
<1> QED BY <1>1, <1>2

\* One link after the other.
LEMMA WithinSteps ==
  ASSUME NEW links, NEW n
  PROVE  /\ Within(links, n, 0) = {n}
         /\ \A k \in Nat : Within(links, n, k + 1) =
                             Within(links, n, k) \cup Image(links, Within(links, n, k))
<1>1. Within(links, n, 0) = {n}
  BY WithinIs DEF IsReached
<1>2. ASSUME NEW k \in Nat
      PROVE  Within(links, n, k + 1) = Within(links, n, k) \cup Image(links, Within(links, n, k))
  <2>1. PICK r : IsReached(r, links, n, k) /\ Within(links, n, k) = r[k]
    BY WithinIs
  <2>2. PICK s : IsReached(s, links, n, k + 1) /\ Within(links, n, k + 1) = s[k + 1]
    BY WithinIs
  <2>3. r[k] = s[k]
    BY <2>1, <2>2, ReachedUnique
  <2>4. s[k + 1] = s[k] \cup Image(links, s[k])
    <3>1. k + 1 \in 0 .. k + 1 /\ k + 1 # 0 /\ (k + 1) - 1 = k
      OBVIOUS
    <3> QED BY <2>2, <3>1 DEF IsReached
  <2> QED BY <2>1, <2>2, <2>3, <2>4
<1> QED BY <1>1, <1>2

\* What is reached stays reached.
LEMMA WithinGrows ==
  ASSUME NEW links, NEW n, NEW k \in Nat, NEW j \in 0 .. k
  PROVE  Within(links, n, j) \subseteq Within(links, n, k)
<1> DEFINE I == {i \in Nat : j <= i => Within(links, n, j) \subseteq Within(links, n, i)}
<1>1. 0 \in I
  OBVIOUS
<1>2. \A i \in I : i + 1 \in I
  <2> SUFFICES ASSUME NEW i \in I, j <= i + 1
               PROVE  Within(links, n, j) \subseteq Within(links, n, i + 1)
    OBVIOUS
  <2>1. CASE j = i + 1
    BY <2>1
  <2>2. CASE j <= i
    BY <2>2, WithinSteps
  <2> QED BY <2>1, <2>2
<1>3. I = Nat
  <2> HIDE DEF I
  <2>1. I \in SUBSET Nat
    BY DEF I
  <2> QED BY <1>1, <1>2, <2>1, Induction
<1> QED BY <1>3

\* Nothing leads out of a set that is closed.
LEMMA WithinClosed ==
  ASSUME NEW links, NEW n, NEW S, n \in S, Image(links, S) \subseteq S, NEW k \in Nat
  PROVE  Within(links, n, k) \subseteq S
<1> DEFINE I == {i \in Nat : Within(links, n, i) \subseteq S}
<1>1. 0 \in I
  BY WithinSteps
<1>2. \A i \in I : i + 1 \in I
  <2> SUFFICES ASSUME NEW i \in I
               PROVE  Within(links, n, i + 1) \subseteq S
    OBVIOUS
  <2>1. Image(links, Within(links, n, i)) \subseteq Image(links, S)
    BY DEF Image
  <2> QED BY <2>1, WithinSteps
<1>3. I = Nat
  <2> HIDE DEF I
  <2>1. I \in SUBSET Nat
    BY DEF I
  <2> QED BY <1>1, <1>2, <2>1, Induction
<1> QED BY <1>3

\* The end of a path is as near as the path is short.
LEMMA WithinPath ==
  ASSUME NEW S, NEW s \in Seq(S) \ {<<>>}, NEW links, IsPath(s, links)
  PROVE  Last(s) \in Within(links, s[1], Len(s) - 1)
<1> DEFINE I == {i \in Nat : i + 1 <= Len(s) => s[i + 1] \in Within(links, s[1], i)}
<1>0. Len(s) \in Nat /\ Len(s) >= 1
  OBVIOUS
<1>1. 0 \in I
  BY WithinSteps
<1>2. \A i \in I : i + 1 \in I
  <2> SUFFICES ASSUME NEW i \in I, (i + 1) + 1 <= Len(s)
               PROVE  s[(i + 1) + 1] \in Within(links, s[1], i + 1)
    OBVIOUS
  <2>1. s[i + 1] \in Within(links, s[1], i) /\ i + 1 \in 1 .. Len(s) - 1
    BY <1>0
  <2>2. <<s[i + 1], s[(i + 1) + 1]>> \in links
    BY <2>1 DEF IsPath
  <2> DEFINE near == Within(links, s[1], i)
             l == <<s[i + 1], s[(i + 1) + 1]>>
  <2>3. l \in links /\ l[1] \in near /\ l[2] = s[(i + 1) + 1]
    BY <2>1, <2>2
  <2>4. l[2] \in Image(links, near)
    <3> HIDE DEF l, near
    <3> QED BY <2>3 DEF Image
  <2>5. Within(links, s[1], i + 1) = near \cup Image(links, near)
    BY WithinSteps, ZenonT(60)
  <2> HIDE DEF near
  <2> QED BY <2>3, <2>4, <2>5
<1>3. I = Nat
  <2> HIDE DEF I
  <2>1. I \in SUBSET Nat
    BY DEF I
  <2> QED BY <1>1, <1>2, <2>1, Induction
<1>4. Len(s) - 1 \in I /\ (Len(s) - 1) + 1 = Len(s)
  BY <1>0, <1>3
<1> QED BY <1>0, <1>4 DEF Last

-----------------------------------------------------------------------------
(***************************************************************************)
(* Sequences without repetitions, and what the helpers leave in them.      *)
(***************************************************************************)
\* All places have different values.
Unlike(s) == \A i, j \in DOMAIN s : s[i] = s[j] => i = j

\* A set of numbers has a least one.
LEMMA Least ==
  ASSUME NEW T \in SUBSET Nat, T # {}
  PROVE  \E x \in T : \A y \in T : x <= y
<1> DEFINE R == OpToRel(<, Nat)
<1>1. PICK x \in T : \A y \in T : ~ (<<y, x>> \in R)
  <2>1. IsWellFoundedOn(R, Nat)
    BY NatLessThanWellFounded
  <2> HIDE DEF R
  <2> QED BY <2>1, WFMin
<1>2. \A y \in T : ~ (y < x)
  BY <1>1 DEF OpToRel
<1>3. x \in Nat /\ \A y \in T : y \in Nat
  OBVIOUS
<1>4. \A y \in T : x <= y
  BY <1>2, <1>3
<1> QED BY <1>4

LEMMA UpTo ==
  ASSUME NEW n \in Nat
  PROVE  IsFiniteSet(1 .. n) /\ Cardinality(1 .. n) = n
BY FS_Interval

\* The orders of a set have all its members, once.
LEMMA OrderAll ==
  ASSUME NEW S, IsFiniteSet(S), NEW s \in SetToSeqs(S)
  PROVE  s \in Seq(S) /\ Unlike(s) /\ ToSet(s) = S
<1> DEFINE n == Cardinality(S)
<1>1. n \in Nat
  BY FS_CardinalityType
<1>2. s \in [1 .. n -> S] /\ \A i, j \in 1 .. n : i # j => s[i] # s[j]
  BY DEF SetToSeqs, IsInjective
<1>3. s \in Injection(1 .. n, S)
  BY <1>2 DEF Injection, IsInjective
<1>4. Cardinality(1 .. n) = n
  BY <1>1, UpTo
<1>5. s \in Surjection(1 .. n, S)
  BY <1>3, <1>4, FS_Injection
<1> HIDE DEF n
<1>6. s \in Seq(S) /\ DOMAIN s = 1 .. n
  BY <1>1, <1>2
<1>7. ToSet(s) = S
  BY <1>5, <1>6 DEF ToSet, Surjection
<1> QED BY <1>2, <1>6, <1>7 DEF Unlike

LEMMA RowsAll ==
  ASSUME NEW S, NEW ends, IsFiniteSet(ends), \A r \in ends : r[1] \in S,
         \A q, r \in ends : q[1] = r[1] => q = r, NEW s \in Rows(ends)
  PROVE  s \in Seq(S) /\ Unlike(s) /\ ToSet(s) = {r[1] : r \in ends}
<1>1. PICK t \in SetToSeqs(ends) : s = [i \in DOMAIN t |-> t[i][1]]
  BY DEF Rows
<1>2. t \in Seq(ends) /\ Unlike(t) /\ ToSet(t) = ends
  BY OrderAll
<1>3. DOMAIN s = DOMAIN t /\ \A i \in DOMAIN t : t[i] \in ends /\ s[i] = t[i][1]
  BY <1>1, <1>2
<1>4. s \in Seq(S)
  <2>1. DOMAIN t = 1 .. Len(t) /\ Len(t) \in Nat
    BY <1>2
  <2> QED BY <1>1, <1>3, <2>1
<1>5. Unlike(s)
  BY <1>2, <1>3 DEF Unlike
<1>6. ToSet(s) = {r[1] : r \in ends}
  BY <1>2, <1>3 DEF ToSet
<1> QED BY <1>4, <1>5, <1>6

LEMMA DistinctAll ==
  ASSUME NEW S, NEW s \in Seq(S), Unlike(s)
  PROVE  Distinct(s, {}) = s
<1>1. {i \in DOMAIN s : s[i] \notin {} \cup {s[j] : j \in 1 .. i - 1}} = DOMAIN s
  <2>1. \A i \in DOMAIN s : \A j \in 1 .. i - 1 : j \in DOMAIN s /\ j # i
    OBVIOUS
  <2> QED BY <2>1 DEF Unlike
<1> QED BY <1>1, SelectedAll DEF Distinct

\* Distinct leaves what is not to be left out.
LEMMA DistinctFacts ==
  ASSUME NEW S, NEW s \in Seq(S), NEW without
  PROVE  Distinct(s, without) \in Seq(S) /\ ToSet(Distinct(s, without)) = ToSet(s) \ without
<1> DEFINE I == {i \in DOMAIN s : s[i] \notin without \cup {s[j] : j \in 1 .. i - 1}}
           new == Distinct(s, without)
<1>1. I \in SUBSET DOMAIN s /\ new = Selected(s, I)
  BY DEF Distinct
<1>2. \A i \in I : s[i] \notin without
  OBVIOUS
<1>3. ASSUME NEW i \in DOMAIN s, s[i] \notin without
      PROVE  \E j \in I : s[j] = s[i]
  <2> DEFINE T == {j \in DOMAIN s : s[j] = s[i]}
  <2>1. T \in SUBSET Nat /\ T # {}
    OBVIOUS
  <2>2. PICK j \in T : \A l \in T : j <= l
    <3> HIDE DEF T
    <3> QED BY <2>1, Least
  <2>3. \A l \in 1 .. j - 1 : l \in DOMAIN s /\ ~ (j <= l)
    OBVIOUS
  <2>4. j \in I
    BY <1>3, <2>2, <2>3
  <2> QED BY <2>4
<1> HIDE DEF I, new
<1>4. /\ new \in Seq(S)
      /\ \A k \in DOMAIN new : \E i \in I : new[k] = s[i]
      /\ \A i \in I : \E k \in DOMAIN new : new[k] = s[i]
  BY <1>1, SelectedFacts
<1>5. ToSet(new) \subseteq ToSet(s) \ without
  BY <1>1, <1>2, <1>4 DEF ToSet
<1>6. ToSet(s) \ without \subseteq ToSet(new)
  BY <1>3, <1>4 DEF ToSet
<1> QED BY <1>4, <1>5, <1>6 DEF new

\* As many members as places.
LEMMA UnlikeCount ==
  ASSUME NEW S, NEW s \in Seq(S), Unlike(s)
  PROVE  IsFiniteSet(ToSet(s)) /\ Cardinality(ToSet(s)) = Len(s)
<1> DEFINE n == Len(s)
           T == ToSet(s)
<1>1. n \in Nat /\ s = [i \in 1 .. n |-> s[i]] /\ DOMAIN s = 1 .. n
  OBVIOUS
<1>2. IsFiniteSet(1 .. n) /\ Cardinality(1 .. n) = n
  BY <1>1, UpTo
<1>3. (\A i \in 1 .. n : s[i] \in T) /\ (\A x \in T : \E i \in 1 .. n : s[i] = x)
  BY <1>1 DEF ToSet
<1>5. \A i, j \in 1 .. n : s[i] = s[j] => i = j
  BY <1>1 DEF Unlike
<1> HIDE DEF n, T
<1>6. s \in [1 .. n -> T]
  BY <1>1, <1>3
<1>7. s \in Surjection(1 .. n, T) /\ s \in Injection(1 .. n, T)
  BY <1>3, <1>5, <1>6 DEF Surjection, Injection, IsInjective
<1>4. IsFiniteSet(T) /\ Cardinality(T) = n
  BY <1>2, <1>7, FS_Surjection
<1> QED BY <1>4 DEF n, T

LEMMA PlacesCount ==
  ASSUME NEW S, NEW s \in Seq(S)
  PROVE  IsFiniteSet(ToSet(s)) /\ Cardinality(ToSet(s)) <= Len(s)
<1> DEFINE n == Len(s)
           T == ToSet(s)
<1>1. n \in Nat /\ s = [i \in 1 .. n |-> s[i]] /\ DOMAIN s = 1 .. n
  OBVIOUS
<1>2. IsFiniteSet(1 .. n) /\ Cardinality(1 .. n) = n
  BY <1>1, UpTo
<1>3. (\A i \in 1 .. n : s[i] \in T) /\ (\A x \in T : \E i \in 1 .. n : s[i] = x)
  BY <1>1 DEF ToSet
<1> HIDE DEF n, T
<1>5. s \in [1 .. n -> T]
  BY <1>1, <1>3
<1>6. s \in Surjection(1 .. n, T)
  BY <1>3, <1>5 DEF Surjection
<1>4. IsFiniteSet(T) /\ Cardinality(T) <= n
  BY <1>2, <1>6, FS_Surjection
<1> QED BY <1>4 DEF n, T

LEMMA FirstOfPlaces ==
  ASSUME NEW S, NEW s \in Seq(S), NEW limit \in Nat
  PROVE  /\ FirstOf(s, limit) \in Seq(S)
         /\ Len(FirstOf(s, limit)) = IF Len(s) < limit THEN Len(s) ELSE limit
         /\ \A i \in DOMAIN FirstOf(s, limit) : i \in DOMAIN s /\ FirstOf(s, limit)[i] = s[i]
         /\ Len(s) <= limit => FirstOf(s, limit) = s
<1> DEFINE n == IF Len(s) < limit THEN Len(s) ELSE limit
<1>1. Len(s) \in Nat /\ n \in Nat /\ n <= Len(s) /\ FirstOf(s, limit) = SubSeq(s, 1, n)
  BY DEF FirstOf
<1>2. SubSeq(s, 1, n) \in Seq(S) /\ Len(SubSeq(s, 1, n)) = n
      /\ \A i \in 1 .. n : SubSeq(s, 1, n)[i] = s[i]
  BY <1>1
<1>3. Len(s) <= limit => n = Len(s)
  BY <1>1
<1>4. SubSeq(s, 1, Len(s)) = s
  OBVIOUS
<1> HIDE DEF n
<1>5. DOMAIN SubSeq(s, 1, n) = 1 .. n /\ \A i \in 1 .. n : i \in DOMAIN s
  BY <1>1, <1>2
<1> QED BY <1>1, <1>2, <1>3, <1>4, <1>5 DEF n

LEMMA ConcatPlaces ==
  ASSUME NEW S, NEW s \in Seq(S), NEW t \in Seq(S)
  PROVE  /\ s \o t \in Seq(S) /\ Len(s \o t) = Len(s) + Len(t) /\ Len(s) \in Nat /\ Len(t) \in Nat
         /\ \A i \in DOMAIN s : i \in DOMAIN (s \o t) /\ (s \o t)[i] = s[i]
         /\ \A i \in DOMAIN t : Len(s) + i \in DOMAIN (s \o t) /\ (s \o t)[Len(s) + i] = t[i]
         /\ \A k \in DOMAIN (s \o t) : k \in DOMAIN s \/ (k > Len(s) /\ k - Len(s) \in DOMAIN t)
OBVIOUS

\* The one after the other, with none twice.
LEMMA ConcatUnlike ==
  ASSUME NEW S, NEW s \in Seq(S), NEW t \in Seq(S), Unlike(s), Unlike(t),
         ToSet(s) \cap ToSet(t) = {}
  PROVE  Unlike(s \o t) /\ ToSet(s \o t) = ToSet(s) \cup ToSet(t)
<1> DEFINE u == s \o t
<1>0. \A x : x \in ToSet(s) => x \notin ToSet(t)
  OBVIOUS
<1>1. /\ Len(s) \in Nat /\ Len(u) = Len(s) + Len(t) /\ u \in Seq(S)
      /\ \A i \in DOMAIN s : i \in DOMAIN u /\ u[i] = s[i]
      /\ \A i \in DOMAIN t : Len(s) + i \in DOMAIN u /\ u[Len(s) + i] = t[i]
      /\ \A k \in DOMAIN u : k \in DOMAIN s \/ (k > Len(s) /\ k - Len(s) \in DOMAIN t)
  BY ConcatPlaces
<1>2. \A k \in DOMAIN u : k \in Nat
  BY <1>1
<1>3. \A k \in DOMAIN u : k \in DOMAIN s \/ \E i \in DOMAIN t : k = Len(s) + i /\ u[k] = t[i]
  <2> SUFFICES ASSUME NEW k \in DOMAIN u, k \notin DOMAIN s
               PROVE  \E i \in DOMAIN t : k = Len(s) + i /\ u[k] = t[i]
    OBVIOUS
  <2>1. k - Len(s) \in DOMAIN t /\ k = Len(s) + (k - Len(s))
    BY <1>1, <1>2
  <2> QED BY <1>1, <2>1
<1> HIDE DEF u
<1>4. \A k \in DOMAIN u : /\ k \in DOMAIN s => u[k] \in ToSet(s)
                          /\ k \notin DOMAIN s => u[k] \in ToSet(t)
  BY <1>1, <1>3 DEF ToSet
<1>5. Unlike(u)
  <2> SUFFICES ASSUME NEW k \in DOMAIN u, NEW l \in DOMAIN u, u[k] = u[l]
               PROVE  k = l
    BY DEF Unlike
  <2>1. CASE k \in DOMAIN s /\ l \in DOMAIN s
    BY <1>1, <2>1 DEF Unlike
  <2>2. CASE k \in DOMAIN s /\ l \notin DOMAIN s
    <3>1. u[k] \in ToSet(s) /\ u[l] \in ToSet(t)
      BY <1>4, <2>2
    <3> QED BY <1>0, <3>1, Zenon
  <2>3. CASE k \notin DOMAIN s /\ l \in DOMAIN s
    <3>1. u[k] \in ToSet(t) /\ u[l] \in ToSet(s)
      BY <1>4, <2>3
    <3> QED BY <1>0, <3>1, Zenon
  <2>4. CASE k \notin DOMAIN s /\ l \notin DOMAIN s
    <3>1. PICK i \in DOMAIN t : k = Len(s) + i /\ u[k] = t[i]
      BY <1>3, <2>4
    <3>2. PICK j \in DOMAIN t : l = Len(s) + j /\ u[l] = t[j]
      BY <1>3, <2>4
    <3>3. i = j
      BY <3>1, <3>2 DEF Unlike
    <3> QED BY <3>1, <3>2, <3>3
  <2> QED BY <2>1, <2>2, <2>3, <2>4
<1>6. ToSet(u) = ToSet(s) \cup ToSet(t)
  BY <1>1, <1>3 DEF ToSet
<1> QED BY <1>5, <1>6 DEF u

\* What GraphDB.neighbors makes of two lists of nodes: all of them, or as many as it may.
LEMMA Merged ==
  ASSUME NEW S, NEW s \in Seq(S), NEW t \in Seq(S), Unlike(s), Unlike(t),
         ToSet(s) \cap ToSet(t) = {}, NEW limit \in Nat
  PROVE  LET out == FirstOf(s, limit)
             u == out \o FirstOf(t, limit - Len(out))
         IN /\ FirstOf(Distinct(u, {}), limit) = u
            /\ u \in Seq(S) /\ ToSet(u) \subseteq ToSet(s) \cup ToSet(t)
            /\ IsFiniteSet(ToSet(u))
            /\ ToSet(u) = ToSet(s) \cup ToSet(t) \/ Cardinality(ToSet(u)) = limit
<1> DEFINE out == FirstOf(s, limit)
           more == FirstOf(t, limit - Len(out))
           u == out \o more
<1>1. /\ out \in Seq(S) /\ Len(out) = IF Len(s) < limit THEN Len(s) ELSE limit
      /\ \A i \in DOMAIN out : i \in DOMAIN s /\ out[i] = s[i]
      /\ Len(s) <= limit => out = s
  BY FirstOfPlaces
<1>2. Len(s) \in Nat /\ Len(t) \in Nat
  OBVIOUS
<1> DEFINE room == limit - Len(out)
<1> HIDE DEF out
<1>3. room \in Nat /\ Len(out) \in Nat
  BY <1>1, <1>2
<1> HIDE DEF room
<1>4. /\ more \in Seq(S) /\ Len(more) = IF Len(t) < room THEN Len(t) ELSE room
      /\ \A i \in DOMAIN more : i \in DOMAIN t /\ more[i] = t[i]
      /\ Len(t) <= room => more = t
  <2>1. more = FirstOf(t, room)
    BY DEF room
  <2> HIDE DEF more
  <2> QED BY <1>3, <2>1, FirstOfPlaces
<1> HIDE DEF more
<1>5. ToSet(out) \subseteq ToSet(s) /\ ToSet(more) \subseteq ToSet(t)
  BY <1>1, <1>4 DEF ToSet
<1>6. Unlike(out) /\ Unlike(more)
  BY <1>1, <1>4 DEF Unlike
<1>7. Unlike(u) /\ ToSet(u) = ToSet(out) \cup ToSet(more)
  BY <1>1, <1>4, <1>5, <1>6, ConcatUnlike
<1>8. u \in Seq(S) /\ Len(u) = Len(out) + Len(more)
  BY <1>1, <1>4, ConcatPlaces, ZenonT(60)
<1>9. Len(u) <= limit
  BY <1>1, <1>2, <1>3, <1>4, <1>8 DEF room, more
<1>10. IsFiniteSet(ToSet(u)) /\ Cardinality(ToSet(u)) = Len(u)
  BY <1>7, <1>8, UnlikeCount
<1>11. FirstOf(Distinct(u, {}), limit) = u
  <2>1. Distinct(u, {}) = u
    BY <1>7, <1>8, DistinctAll
  <2> HIDE DEF u
  <2> QED BY <1>8, <1>9, <2>1, FirstOfPlaces
<1>12. (out = s /\ more = t) \/ Len(u) = limit
  <2>1. CASE Len(s) <= limit /\ Len(t) <= room
    BY <1>1, <1>4, <2>1
  <2>2. CASE ~ (Len(s) <= limit)
    <3>1. Len(out) = limit /\ room = 0 /\ Len(more) = 0
      BY <1>1, <1>2, <1>4, <2>2 DEF room
    <3> QED BY <1>8, <3>1
  <2>3. CASE Len(s) <= limit /\ ~ (Len(t) <= room)
    <3>1. Len(more) = room
      BY <1>2, <1>3, <1>4, <2>3
    <3> QED BY <1>3, <1>8, <3>1 DEF room
  <2> QED BY <2>1, <2>2, <2>3
<1>13. ToSet(u) = ToSet(s) \cup ToSet(t) \/ Cardinality(ToSet(u)) = limit
  BY <1>7, <1>10, <1>12
<1> QED BY <1>5, <1>7, <1>8, <1>10, <1>11, <1>13 DEF out, more

-----------------------------------------------------------------------------
(***************************************************************************)
(* What a search is told of one node: the store's answer, and what is      *)
(* looked up after it, when the store is clean.                            *)
(***************************************************************************)
Ways == Links(tables, query.direction)
Nexts(n) == {m \in tables.nodes : <<n, m>> \in Ways}

Asked == tables \in Versions /\ query.direction \in {"callers", "callees", "both"}
         /\ query.max_nodes \in Nat /\ query.max_depth \in Nat

\* The tables have the neighbours that the links have.
LEMMA NextsFacts ==
  ASSUME Asked, NEW n \in tables.nodes
  PROVE  /\ IsFiniteSet(Nexts(n)) /\ IsFiniteSet(SqlCallers(n)) /\ IsFiniteSet(SqlCallees(n))
         /\ query.direction = "callees" => Nexts(n) = SqlCallees(n)
         /\ query.direction = "callers" => Nexts(n) = SqlCallers(n)
         /\ query.direction = "both" => Nexts(n) = SqlCallees(n) \cup SqlCallers(n)
<1>1. IsFiniteSet(tables.nodes)
  BY VersionFacts DEF Asked
<1>2. IsFiniteSet(Nexts(n)) /\ IsFiniteSet(SqlCallers(n)) /\ IsFiniteSet(SqlCallees(n))
  BY <1>1, FS_Subset DEF Nexts, SqlCallers, SqlCallees
<1> DEFINE down == {l \in tables.nodes \X tables.nodes :
                      \E e \in tables.edges : e[1] = l[1] /\ Names(e, l[2])}
           up == {<<p[2], p[1]>> : p \in down}
<1>3. \A a, b \in tables.nodes : <<a, b>> \in down <=> \E e \in tables.edges : e[1] = a /\ Names(e, b)
  OBVIOUS
<1>4. \A a, b \in tables.nodes : <<a, b>> \in up <=> <<b, a>> \in down
  <2> SUFFICES ASSUME NEW a \in tables.nodes, NEW b \in tables.nodes
               PROVE  <<a, b>> \in up <=> <<b, a>> \in down
    OBVIOUS
  <2>1. ASSUME <<b, a>> \in down
        PROVE  <<a, b>> \in up
    <3> DEFINE p == <<b, a>>
    <3>1. p \in down /\ <<p[2], p[1]>> = <<a, b>>
      BY <2>1
    <3> HIDE DEF p, down
    <3> QED BY <3>1
  <2>2. ASSUME <<a, b>> \in up
        PROVE  <<b, a>> \in down
    <3>1. PICK p \in down : <<a, b>> = <<p[2], p[1]>>
      BY <2>2
    <3>2. p = <<p[1], p[2]>>
      OBVIOUS
    <3>3. p[1] = b /\ p[2] = a
      BY <3>1
    <3> HIDE DEF down
    <3> QED BY <3>2, <3>3
  <2> QED BY <2>1, <2>2
<1>5. /\ query.direction = "callees" => Ways = down
      /\ query.direction = "callers" => Ways = up
      /\ query.direction = "both" => Ways = down \cup up
  BY DEF Ways, Links
<1> HIDE DEF down, up
<1>6. \A m \in tables.nodes : <<n, m>> \in down <=> m \in SqlCallees(n)
  BY <1>3 DEF SqlCallees
<1>7. \A m \in tables.nodes : <<n, m>> \in up <=> m \in SqlCallers(n)
  BY <1>3, <1>4 DEF SqlCallers
<1>8. SqlCallees(n) \subseteq tables.nodes /\ SqlCallers(n) \subseteq tables.nodes
  BY DEF SqlCallees, SqlCallers
<1>9. query.direction = "callees" => Nexts(n) = SqlCallees(n)
  BY <1>5, <1>6, <1>8 DEF Nexts
<1>10. query.direction = "callers" => Nexts(n) = SqlCallers(n)
  BY <1>5, <1>7, <1>8 DEF Nexts
<1>11. query.direction = "both" => Nexts(n) = SqlCallees(n) \cup SqlCallers(n)
  BY <1>5, <1>6, <1>7, <1>8 DEF Nexts
<1> QED BY <1>2, <1>9, <1>10, <1>11

\* A clean store has the rows of the tables.
LEMMA CleanRows ==
  ASSUME Asked, Clean, store # None, NEW n \in tables.nodes
  PROVE  /\ \A s \in Rows(StoreCallees(n, Nodes)) :
              s \in Seq(tables.nodes) /\ Unlike(s) /\ ToSet(s) = SqlCallees(n)
         /\ \A s \in Rows(StoreCallees(n, Range(NameOf))) : s = <<>>
         /\ \A s \in Rows(StoreCallers(n)) :
              s \in Seq(tables.nodes) /\ Unlike(s) /\ ToSet(s) = SqlCallers(n)
         /\ n \notin SqlCallees(n) /\ n \notin SqlCallers(n)
         /\ query.direction = "both" => SqlCallees(n) \cap SqlCallers(n) = {}
<1>1. /\ store = tables.edges /\ IsFiniteSet(store)
      /\ \A e \in store : /\ e[1] \in tables.nodes /\ e[2] \in tables.nodes
                          /\ e[1] \in Nodes /\ e[2] \in Nodes /\ e[1] # e[2]
      /\ \A e, d \in store : e[1] = d[1] /\ e[2] = d[2] => e = d
      /\ query.direction = "both" => \A e, d \in store : e[1] = d[2] => e[2] # d[1]
  BY VersionFacts DEF Asked, Clean, Present
<1>2. DOMAIN NameOf = Nodes /\ Nodes \cap Range(NameOf) = {} /\ tables.nodes \subseteq Nodes
  BY VersionFacts DEF Asked
<1>3. \A e \in store, m \in tables.nodes : Names(e, m) <=> e[2] = m
  <2>1. \A m \in tables.nodes : NameOf[m] \in Range(NameOf)
    BY <1>2 DEF Range
  <2> QED BY <1>1, <1>2, <2>1 DEF Names
<1>4. /\ \A m : m \in SqlCallees(n) <=> m \in tables.nodes /\ \E e \in store : e[1] = n /\ e[2] = m
      /\ \A m : m \in SqlCallers(n) <=> m \in tables.nodes /\ \E e \in store : e[1] = m /\ e[2] = n
  BY <1>1, <1>3 DEF SqlCallees, SqlCallers
<1>5. ASSUME NEW s \in Rows(StoreCallees(n, Nodes))
      PROVE  s \in Seq(tables.nodes) /\ Unlike(s) /\ ToSet(s) = SqlCallees(n)
  <2> DEFINE those == {e \in store : e[1] = n /\ e[2] \in Nodes}
             ends == StoreCallees(n, Nodes)
             row == [e \in those |-> <<e[2], e[3]>>]
  <2>1. IsFiniteSet(those)
    BY <1>1, FS_Subset
  <2>2. row \in Surjection(those, ends)
    BY DEF StoreCallees, Surjection
  <2>3. IsFiniteSet(ends)
    <3> HIDE DEF row, ends, those
    <3> QED BY <2>1, <2>2, FS_Surjection
  <2>4. \A r \in ends : \E e \in store : e[1] = n /\ r = <<e[2], e[3]>> /\ r[1] = e[2]
    BY DEF StoreCallees
  <2>5. \A e \in store : e[1] = n => \E r \in ends : r[1] = e[2]
    <3> SUFFICES ASSUME NEW e \in store, e[1] = n
                 PROVE  \E r \in ends : r[1] = e[2]
      OBVIOUS
    <3>1. <<e[2], e[3]>> \in ends /\ <<e[2], e[3]>>[1] = e[2]
      BY <1>1 DEF StoreCallees
    <3> HIDE DEF ends
    <3> QED BY <3>1
  <2> HIDE DEF ends
  <2>6. /\ \A r \in ends : r[1] \in tables.nodes
        /\ \A q, r \in ends : q[1] = r[1] => q = r
    BY <1>1, <2>4
  <2>7. s \in Seq(tables.nodes) /\ Unlike(s) /\ ToSet(s) = {r[1] : r \in ends}
    <3>1. s \in Rows(ends)
      BY DEF ends
    <3> QED BY <2>3, <2>6, <3>1, RowsAll
  <2>8. {r[1] : r \in ends} = SqlCallees(n)
    BY <1>1, <1>4, <2>4, <2>5
  <2> QED BY <2>7, <2>8
<1>6. ASSUME NEW s \in Rows(StoreCallees(n, Range(NameOf)))
      PROVE  s = <<>>
  <2>1. StoreCallees(n, Range(NameOf)) = {}
    BY <1>1, <1>2 DEF StoreCallees
  <2>2. PICK t \in SetToSeqs({}) : s = [i \in DOMAIN t |-> t[i][1]]
    BY <2>1 DEF Rows
  <2>3. t = <<>>
    BY OrderFacts, FS_EmptySet
  <2> QED BY <2>2, <2>3
<1>7. ASSUME NEW s \in Rows(StoreCallers(n))
      PROVE  s \in Seq(tables.nodes) /\ Unlike(s) /\ ToSet(s) = SqlCallers(n)
  <2> DEFINE those == {e \in store : e[2] = n}
             ends == StoreCallers(n)
             row == [e \in those |-> <<e[1], e[3]>>]
  <2>1. IsFiniteSet(those)
    BY <1>1, FS_Subset
  <2>2. row \in Surjection(those, ends)
    BY DEF StoreCallers, Surjection
  <2>3. IsFiniteSet(ends)
    <3> HIDE DEF row, ends, those
    <3> QED BY <2>1, <2>2, FS_Surjection
  <2>4. \A r \in ends : \E e \in store : e[2] = n /\ r = <<e[1], e[3]>> /\ r[1] = e[1]
    BY DEF StoreCallers
  <2>5. \A e \in store : e[2] = n => \E r \in ends : r[1] = e[1]
    <3> SUFFICES ASSUME NEW e \in store, e[2] = n
                 PROVE  \E r \in ends : r[1] = e[1]
      OBVIOUS
    <3>1. <<e[1], e[3]>> \in ends /\ <<e[1], e[3]>>[1] = e[1]
      BY <1>1 DEF StoreCallers
    <3> HIDE DEF ends
    <3> QED BY <3>1
  <2> HIDE DEF ends
  <2>6. /\ \A r \in ends : r[1] \in tables.nodes
        /\ \A q, r \in ends : q[1] = r[1] => q = r
    BY <1>1, <2>4
  <2>7. s \in Seq(tables.nodes) /\ Unlike(s) /\ ToSet(s) = {r[1] : r \in ends}
    <3>1. s \in Rows(ends)
      BY DEF ends
    <3> QED BY <2>3, <2>6, <3>1, RowsAll
  <2>8. {r[1] : r \in ends} = SqlCallers(n)
    BY <1>1, <1>4, <2>4, <2>5
  <2> QED BY <2>7, <2>8
<1>8. n \notin SqlCallees(n) /\ n \notin SqlCallers(n)
  BY <1>1, <1>4
<1>9. query.direction = "both" => SqlCallees(n) \cap SqlCallers(n) = {}
  BY <1>1, <1>4
<1> QED BY <1>5, <1>6, <1>7, <1>8, <1>9

\* What the store answers: all neighbours, or as many as it may.
LEMMA StoreAnswers ==
  ASSUME Asked, Clean, store # None, NEW n \in tables.nodes,
         NEW r \in StoreNeighbors(n, query.direction, query.max_nodes)
  PROVE  /\ r \in Seq(tables.nodes) /\ ToSet(r) \subseteq Nexts(n) /\ n \notin ToSet(r)
         /\ IsFiniteSet(ToSet(r))
         /\ ToSet(r) = Nexts(n) \/ Cardinality(ToSet(r)) = query.max_nodes
<1> DEFINE limit == query.max_nodes
           Callees == IF query.direction = "callers" THEN {} ELSE SqlCallees(n)
           Callers == IF query.direction = "callees" THEN {} ELSE SqlCallers(n)
           Out(a, b) == IF query.direction = "callers" THEN <<>>
                        ELSE FirstOf(a, limit) \o FirstOf(b, limit)
           More(c, out) == IF query.direction = "callees" THEN <<>>
                           ELSE FirstOf(c, limit - Len(out))
<1>1. PICK callees \in Rows(StoreCallees(n, Nodes)), names \in Rows(StoreCallees(n, Range(NameOf))),
           callers \in Rows(StoreCallers(n)) :
        r = FirstOf(Distinct(Out(callees, names) \o More(callers, Out(callees, names)), {}), limit)
  BY DEF StoreNeighbors
<1> HIDE DEF Out, More
<1>2. /\ callees \in Seq(tables.nodes) /\ Unlike(callees) /\ ToSet(callees) = SqlCallees(n)
      /\ callers \in Seq(tables.nodes) /\ Unlike(callers) /\ ToSet(callers) = SqlCallers(n)
      /\ names = <<>>
      /\ n \notin SqlCallees(n) /\ n \notin SqlCallers(n)
      /\ query.direction = "both" => SqlCallees(n) \cap SqlCallers(n) = {}
  BY CleanRows
<1> DEFINE s == IF query.direction = "callers" THEN <<>> ELSE callees
           t == IF query.direction = "callees" THEN <<>> ELSE callers
           first == FirstOf(s, limit)
           u == first \o FirstOf(t, limit - Len(first))
<1>3. limit \in Nat /\ query.direction \in {"callers", "callees", "both"}
  BY DEF Asked
<1>4. \A k \in Int : FirstOf(<<>>, k) = <<>>
  BY DEF FirstOf
<1>5. <<>> \in Seq(tables.nodes) /\ Unlike(<<>>) /\ ToSet(<<>>) = {}
  BY DEF Unlike, ToSet
<1>6. /\ s \in Seq(tables.nodes) /\ Unlike(s) /\ ToSet(s) = Callees
      /\ t \in Seq(tables.nodes) /\ Unlike(t) /\ ToSet(t) = Callers
      /\ Callees \cap Callers = {}
  BY <1>2, <1>3, <1>5
<1>7. /\ first \in Seq(tables.nodes) /\ Len(first) \in Nat
  <2> HIDE DEF s
  <2>1. first \in Seq(tables.nodes)
    <3> HIDE DEF limit
    <3> QED BY <1>3, <1>6, FirstOfPlaces
  <2> QED BY <2>1
<1>8. r = FirstOf(Distinct(u, {}), limit)
  <2>1. first \o <<>> = first
    <3> HIDE DEF first
    <3> QED BY <1>7
  <2>2. limit - Len(first) \in Int
    <3> HIDE DEF first
    <3> QED BY <1>3, <1>7
  <2>3. Out(callees, names) = first
    <3>1. FirstOf(names, limit) = <<>> /\ FirstOf(<<>>, limit) = <<>>
      BY <1>2, <1>3, <1>4
    <3>2. CASE query.direction = "callers"
      BY <3>1, <3>2 DEF Out
    <3>3. CASE query.direction # "callers"
      <4>1. first = FirstOf(callees, limit) /\ Out(callees, names) = FirstOf(callees, limit) \o <<>>
        BY <3>1, <3>3 DEF Out
      <4> HIDE DEF first
      <4> QED BY <2>1, <4>1
    <3> QED BY <3>2, <3>3
  <2>4. More(callers, first) = FirstOf(t, limit - Len(first))
    BY <1>4, <2>2 DEF More
  <2> HIDE DEF first, t, limit, Out, More
  <2> QED BY <1>1, <2>3, <2>4
<1>9. /\ FirstOf(Distinct(u, {}), limit) = u
      /\ u \in Seq(tables.nodes) /\ ToSet(u) \subseteq ToSet(s) \cup ToSet(t)
      /\ IsFiniteSet(ToSet(u))
      /\ ToSet(u) = ToSet(s) \cup ToSet(t) \/ Cardinality(ToSet(u)) = limit
  <2> HIDE DEF s, t, limit, Callees, Callers
  <2>1. ToSet(s) \cap ToSet(t) = {}
    BY <1>6
  <2> QED BY <1>3, <1>6, <2>1, Merged
<1>10. Nexts(n) = Callees \cup Callers
  BY <1>3, NextsFacts
<1> HIDE DEF s, t, u
<1>11. r = u
  BY <1>8, <1>9
<1>12. n \notin Callees \cup Callers
  BY <1>2
<1> HIDE DEF Callees, Callers, limit
<1> QED BY <1>6, <1>9, <1>10, <1>11, <1>12 DEF limit

\* The same for what is looked up after the store has answered.
LEMMA Answers ==
  ASSUME Asked, Clean, NEW n \in tables.nodes,
         NEW r \in StoreNeighbors(n, query.direction, query.max_nodes),
         NEW neighbors \in IF r # <<>> THEN {StillPresent(r)} ELSE SqlNeighbors(n, query.direction)
  PROVE  /\ neighbors \in Seq(tables.nodes) /\ ToSet(neighbors) \subseteq Nexts(n)
         /\ \/ ToSet(neighbors) = Nexts(n)
            \/ /\ n \notin ToSet(neighbors)
               /\ query.max_nodes > 0 /\ Cardinality(ToSet(neighbors)) = query.max_nodes
               /\ store # None /\ Cardinality(Nexts(n)) > query.max_nodes
<1>1. CASE r # <<>>
  <2>1. store # None
    BY <1>1 DEF StoreNeighbors
  <2>2. /\ r \in Seq(tables.nodes) /\ ToSet(r) \subseteq Nexts(n) /\ n \notin ToSet(r)
        /\ IsFiniteSet(ToSet(r))
        /\ ToSet(r) = Nexts(n) \/ Cardinality(ToSet(r)) = query.max_nodes
    BY <2>1, StoreAnswers
  <2>3. neighbors = r
    <3>1. {i \in DOMAIN r : Present(r[i])} = DOMAIN r
      <4>1. \A i \in DOMAIN r : r[i] \in tables.nodes
        BY <2>2, NothingBefore
      <4> QED BY <4>1 DEF Present
    <3>2. StillPresent(r) = r
      BY <2>2, <3>1, SelectedAll DEF StillPresent
    <3> QED BY <1>1, <3>2
  <2>4. ToSet(r) # {}
    <3>1. DOMAIN r # {}
      BY <1>1, <2>2
    <3> QED BY <3>1 DEF ToSet
  <2>5. Cardinality(ToSet(r)) \in Nat /\ Cardinality(ToSet(r)) # 0
    BY <2>2, <2>4, FS_CardinalityType, FS_EmptySet
  <2>6. CASE ToSet(r) # Nexts(n)
    <3>1. IsFiniteSet(Nexts(n))
      BY NextsFacts
    <3>2. Cardinality(ToSet(r)) <= Cardinality(Nexts(n))
          /\ Cardinality(ToSet(r)) # Cardinality(Nexts(n)) /\ Cardinality(Nexts(n)) \in Nat
      BY <2>2, <2>6, <3>1, FS_Subset, FS_CardinalityType
    <3> QED BY <2>1, <2>2, <2>3, <2>5, <2>6, <3>2
  <2> QED BY <2>2, <2>3, <2>6
<1>2. CASE r = <<>>
  <2> DEFINE Callees == IF query.direction = "callers" THEN {} ELSE SqlCallees(n)
             Callers == IF query.direction = "callees" THEN {} ELSE SqlCallers(n)
  <2>1. PICK orders \in SetToSeqs(Callers) \X SetToSeqs(Callees) : neighbors = orders[1] \o orders[2]
    BY <1>2 DEF SqlNeighbors
  <2>2. IsFiniteSet(Callees) /\ IsFiniteSet(Callers)
    BY NextsFacts, FS_EmptySet
  <2>3. Nexts(n) = Callees \cup Callers
    BY NextsFacts DEF Asked
  <2>4. Callees \subseteq tables.nodes /\ Callers \subseteq tables.nodes
    BY DEF SqlCallees, SqlCallers
  <2> HIDE DEF Callees, Callers
  <2> DEFINE s == orders[1]
             t == orders[2]
  <2>5. s \in SetToSeqs(Callers) /\ t \in SetToSeqs(Callees) /\ neighbors = s \o t
    BY <2>1
  <2> HIDE DEF s, t
  <2>6. s \in Seq(Callers) /\ ToSet(s) = Callers /\ t \in Seq(Callees) /\ ToSet(t) = Callees
    BY <2>2, <2>5, OrderAll
  <2>7. s \in Seq(tables.nodes) /\ t \in Seq(tables.nodes)
    <3>1. /\ \A i \in DOMAIN s : s[i] \in tables.nodes
          /\ \A i \in DOMAIN t : t[i] \in tables.nodes
      BY <2>4, <2>6 DEF ToSet
    <3> QED BY <2>6, <3>1, SeqAlso
  <2>8. /\ neighbors \in Seq(tables.nodes)
        /\ \A i \in DOMAIN s : i \in DOMAIN neighbors /\ neighbors[i] = s[i]
        /\ \A i \in DOMAIN t : Len(s) + i \in DOMAIN neighbors /\ neighbors[Len(s) + i] = t[i]
    BY <2>5, <2>7, ConcatPlaces
  <2>9. \A k \in DOMAIN neighbors : \/ \E i \in DOMAIN s : neighbors[k] = s[i]
                                    \/ \E i \in DOMAIN t : neighbors[k] = t[i]
    BY <2>5, <2>7, ConcatFacts, SMTT(60)
  <2>10. ToSet(neighbors) = ToSet(s) \cup ToSet(t)
    BY <2>8, <2>9 DEF ToSet
  <2> QED BY <2>3, <2>6, <2>8, <2>10
<1> QED BY <1>1, <1>2

-----------------------------------------------------------------------------
(***************************************************************************)
(* Breadth first.  The queue has the paths of one depth, then those of the *)
(* next.                                                                   *)
(***************************************************************************)
Near(d) == Within(Ways, query.from, d)

Walks == {s \in Seq(tables.nodes) \ {<<>>} :
            s[1] = query.from /\ IsPath(s, Ways) /\ Len(s) <= query.max_depth + 1}

Tips(q) == {Last(q[i]) : i \in DOMAIN q}
TipsAt(q, d) == {Last(q[i]) : i \in {j \in DOMAIN q : Len(q[j]) = d + 1}}

Flat(q, d) == \A i \in DOMAIN q : Len(q[i]) = d + 1

Even(q, d) ==
  /\ \A i \in DOMAIN q : Len(q[i]) \in {d + 1, d + 2}
  /\ \A i, j \in DOMAIN q : i <= j => Len(q[i]) <= Len(q[j])

\* What has been visited at a depth of d, with queue q and visited nodes v, but for the nodes
\* that are open; and that is all that will be, if the search is stuck.
Level(d, q, v, open, stuck) ==
  /\ Even(q, d)
  /\ d > 0 => Near(d - 1) \subseteq v
  /\ \/ d >= query.max_depth
     \/ /\ Near(d) \subseteq v \cup TipsAt(q, d)
        /\ stuck \/ \A n \in v \ open : Nexts(n) \subseteq v \cup Tips(q)
     \/ stuck /\ Flat(q, d)

\* A queue without its first.
LEMMA TailPlaces ==
  ASSUME NEW S, NEW q \in Seq(S), q # <<>>
  PROVE  /\ Head(q) = q[1] /\ 1 \in DOMAIN q /\ Head(q) \in S /\ Tail(q) \in Seq(S)
         /\ \A i \in DOMAIN Tail(q) : i + 1 \in DOMAIN q /\ Tail(q)[i] = q[i + 1] /\ i \in Nat
         /\ \A i \in DOMAIN q : i # 1 => i - 1 \in DOMAIN Tail(q) /\ Tail(q)[i - 1] = q[i]
OBVIOUS

\* It keeps its levels.
LEMMA TailTips ==
  ASSUME NEW S, NEW q \in Seq(S), q # <<>>, NEW d \in Nat
  PROVE  /\ Tips(q) = Tips(Tail(q)) \cup {Last(Head(q))}
         /\ TipsAt(q, d) \subseteq TipsAt(Tail(q), d) \cup {Last(Head(q))}
         /\ Even(q, d) => Even(Tail(q), d)
         /\ Flat(q, d) => Flat(Tail(q), d)
<1> DEFINE t == Tail(q)
<1>1. /\ Head(q) = q[1] /\ 1 \in DOMAIN q
      /\ \A i \in DOMAIN t : i + 1 \in DOMAIN q /\ t[i] = q[i + 1] /\ i \in Nat
      /\ \A i \in DOMAIN q : i # 1 => i - 1 \in DOMAIN t /\ t[i - 1] = q[i]
  BY TailPlaces
<1> HIDE DEF t
<1>2. Tips(q) = Tips(t) \cup {Last(Head(q))}
  BY <1>1 DEF Tips
<1>3. TipsAt(q, d) \subseteq TipsAt(t, d) \cup {Last(Head(q))}
  <2> SUFFICES ASSUME NEW i \in DOMAIN q, Len(q[i]) = d + 1, i # 1
               PROVE  Last(q[i]) \in TipsAt(t, d)
    BY <1>1 DEF TipsAt
  <2>1. i - 1 \in DOMAIN t /\ t[i - 1] = q[i]
    BY <1>1
  <2> QED BY <2>1 DEF TipsAt
<1>4. Even(q, d) => Even(t, d)
  BY <1>1, SMTT(60) DEF Even
<1>5. Flat(q, d) => Flat(t, d)
  BY <1>1 DEF Flat
<1> QED BY <1>2, <1>3, <1>4, <1>5 DEF t

\* A queue with paths that are one longer at its end.
LEMMA MoreTips ==
  ASSUME NEW S, NEW q \in Seq(S), NEW more \in Seq(S), NEW d \in Nat
  PROVE  /\ Tips(q \o more) = Tips(q) \cup Tips(more)
         /\ TipsAt(q, d) \subseteq TipsAt(q \o more, d)
         /\ Even(q, d) /\ Flat(more, d + 1) => Even(q \o more, d)
<1> DEFINE u == q \o more
<1>1. /\ Len(q) \in Nat /\ u \in Seq(S)
      /\ \A i \in DOMAIN q : i \in DOMAIN u /\ u[i] = q[i]
      /\ \A i \in DOMAIN more : Len(q) + i \in DOMAIN u /\ u[Len(q) + i] = more[i]
      /\ \A k \in DOMAIN u : k \in DOMAIN q \/ (k > Len(q) /\ k - Len(q) \in DOMAIN more)
  BY ConcatPlaces
<1>2. \A k \in DOMAIN u : k \in Nat
  BY <1>1
<1>3. \A k \in DOMAIN u : k \in DOMAIN q \/ \E i \in DOMAIN more : k = Len(q) + i /\ u[k] = more[i]
  <2> SUFFICES ASSUME NEW k \in DOMAIN u, k \notin DOMAIN q
               PROVE  \E i \in DOMAIN more : k = Len(q) + i /\ u[k] = more[i]
    OBVIOUS
  <2>1. k - Len(q) \in DOMAIN more /\ k = Len(q) + (k - Len(q))
    BY <1>1, <1>2
  <2> QED BY <1>1, <2>1
<1>4. \A k \in DOMAIN q : k \in Nat /\ k <= Len(q)
  OBVIOUS
<1>5. \A i \in DOMAIN more : i \in Nat /\ i > 0
  OBVIOUS
<1> HIDE DEF u
<1>6. Tips(u) = Tips(q) \cup Tips(more)
  BY <1>1, <1>3 DEF Tips
<1>7. TipsAt(q, d) \subseteq TipsAt(u, d)
  BY <1>1 DEF TipsAt
<1>8. ASSUME Even(q, d), Flat(more, d + 1)
      PROVE  Even(u, d)
  <2>1. \A k \in DOMAIN u : k \notin DOMAIN q => Len(u[k]) = d + 2 /\ k > Len(q)
    <3>1. (d + 1) + 1 = d + 2
      OBVIOUS
    <3> QED BY <1>1, <1>3, <1>5, <1>8, <3>1 DEF Flat
  <2>2. \A k \in DOMAIN q : Len(u[k]) \in {d + 1, d + 2}
    BY <1>1, <1>8 DEF Even
  <2>3. ASSUME NEW k \in DOMAIN u, NEW l \in DOMAIN u, k <= l
        PROVE  Len(u[k]) <= Len(u[l])
    <3>1. CASE k \in DOMAIN q /\ l \in DOMAIN q
      BY <1>1, <1>8, <2>3, <3>1 DEF Even
    <3>2. CASE k \in DOMAIN q /\ l \notin DOMAIN q
      BY <2>1, <2>2, <3>2
    <3>3. CASE k \notin DOMAIN q
      <4>1. l \notin DOMAIN q
        BY <1>1, <1>2, <1>4, <2>1, <2>3, <3>3
      <4> QED BY <2>1, <3>3, <4>1
    <3> QED BY <3>1, <3>2, <3>3
  <2> QED BY <2>1, <2>2, <2>3 DEF Even
<1> QED BY <1>6, <1>7, <1>8 DEF u

\* Links are between nodes there are.
LEMMA LinksEnds ==
  ASSUME NEW v, NEW direction
  PROVE  Links(v, direction) \subseteq v.nodes \X v.nodes
<1> DEFINE down == {l \in v.nodes \X v.nodes : \E e \in v.edges : e[1] = l[1] /\ Names(e, l[2])}
           up == {<<p[2], p[1]>> : p \in down}
<1>1. down \subseteq v.nodes \X v.nodes /\ up \subseteq v.nodes \X v.nodes
  OBVIOUS
<1>2. Links(v, direction) \subseteq down \cup up
  <2>1. Links(v, direction) = CASE direction = "callees" -> down [] direction = "callers" -> up
                                [] OTHER -> down \cup up
    BY DEF Links
  <2> HIDE DEF down, up
  <2> QED BY <2>1
<1> QED BY <1>1, <1>2

\* One link on from what is near.
LEMMA NearSteps ==
  ASSUME Asked, NEW d \in Nat, NEW T, Near(d) \subseteq T, NEW U, T \subseteq U,
         \A n \in T : Nexts(n) \subseteq U
  PROVE  Near(d + 1) \subseteq U
<1>1. Near(d + 1) = Near(d) \cup Image(Ways, Near(d))
  BY WithinSteps, ZenonT(60) DEF Near
<1>2. ASSUME NEW l \in Ways, l[1] \in T
      PROVE  l[2] \in U
  <2>1. l \in tables.nodes \X tables.nodes
    BY LinksEnds DEF Asked, Ways
  <2>2. l = <<l[1], l[2]>> /\ l[2] \in tables.nodes
    BY <2>1
  <2>3. l[2] \in Nexts(l[1])
    BY <2>2 DEF Nexts
  <2> QED BY <1>2, <2>3
<1> QED BY <1>1, <1>2 DEF Image

\* The walks in a queue of which the first is longer than those of the level.
LEMMA Relevel ==
  ASSUME Asked, NEW d \in Nat, NEW q \in Seq(Walks), q # <<>>, NEW v, NEW stuck \in BOOLEAN,
         Level(d, q, v, {}, stuck)
  PROVE  LET D == Len(Head(q)) - 1 IN
         /\ D \in Nat /\ D <= query.max_depth
         /\ Level(D, q, v, {}, stuck)
         /\ D = d \/ (D = d + 1 /\ d < query.max_depth /\ (stuck \/ Near(D) \subseteq v \cup Tips(q)))
<1> DEFINE D == Len(Head(q)) - 1
<1>1. /\ Head(q) = q[1] /\ 1 \in DOMAIN q /\ Head(q) \in Walks
      /\ \A i \in DOMAIN q : 1 <= i
  <2>1. \A i \in DOMAIN q : 1 <= i
    OBVIOUS
  <2> QED BY <2>1, TailPlaces
<1>2. Len(Head(q)) \in Nat /\ Len(Head(q)) <= query.max_depth + 1 /\ query.max_depth \in Nat
  BY <1>1 DEF Walks, Asked
<1>3. Len(Head(q)) \in {d + 1, d + 2}
  BY <1>1 DEF Level, Even
<1>4. CASE Len(Head(q)) = d + 1
  <2>1. D = d /\ D <= query.max_depth
    BY <1>2, <1>4
  <2> QED BY <2>1
<1>5. CASE Len(Head(q)) = d + 2
  <2>1. D = d + 1 /\ d < query.max_depth /\ ~ (d >= query.max_depth) /\ D \in Nat
        /\ D <= query.max_depth /\ D > 0 /\ D - 1 = d
    BY <1>2, <1>5
  <2>2. \A i \in DOMAIN q : Len(q[i]) = D + 1
    <3>1. \A i \in DOMAIN q : Len(q[i]) \in {d + 1, d + 2} /\ Len(q[1]) <= Len(q[i])
      BY <1>1 DEF Level, Even
    <3>2. \A i \in DOMAIN q : Len(q[i]) = d + 2
      BY <1>1, <1>5, <3>1
    <3> QED BY <1>5, <2>1, <3>2
  <2> HIDE DEF D
  <2>3. ~ Flat(q, d)
    BY <1>1, <1>5 DEF Flat
  <2>4. TipsAt(q, d) = {} /\ TipsAt(q, D) = Tips(q)
    <3>1. \A i \in DOMAIN q : Len(q[i]) # d + 1
      BY <2>1, <2>2
    <3> QED BY <2>2, <3>1 DEF TipsAt, Tips
  <2>5. Near(d) \subseteq v /\ (stuck \/ \A n \in v : Nexts(n) \subseteq v \cup Tips(q))
    BY <2>1, <2>3, <2>4 DEF Level
  <2>6. Even(q, D) /\ Flat(q, D)
    <3>1. \A i, j \in DOMAIN q : i <= j => Len(q[i]) <= Len(q[j])
      BY DEF Level, Even
    <3> QED BY <2>2, <3>1 DEF Even, Flat
  <2>7. stuck \/ Near(D) \subseteq v \cup Tips(q)
    <3> SUFFICES ASSUME ~ stuck
                 PROVE  Near(D) \subseteq v \cup Tips(q)
      OBVIOUS
    <3>1. \A n \in v : Nexts(n) \subseteq v \cup Tips(q)
      BY <2>5
    <3> QED BY <2>1, <2>5, <3>1, NearSteps
  <2>8. Level(D, q, v, {}, stuck)
    BY <2>1, <2>4, <2>5, <2>6, <2>7 DEF Level
  <2> QED BY <2>1, <2>7, <2>8 DEF D
<1> QED BY <1>3, <1>4, <1>5

\* The first walk is taken from the queue.
LEMMA Popped ==
  ASSUME Asked, NEW S, NEW q \in Seq(S), q # <<>>, NEW v, NEW stuck \in BOOLEAN, NEW D \in Nat,
         Level(D, q, v, {}, stuck)
  PROVE  LET c == Last(Head(q)) IN
         /\ D >= query.max_depth \/ c \in v => Level(D, Tail(q), v, {}, stuck)
         /\ Level(D, Tail(q), v \cup {c}, {}, TRUE)
         /\ D < query.max_depth /\ ~ stuck => Level(D, Tail(q), v \cup {c}, {c}, FALSE)
<1> DEFINE c == Last(Head(q))
           t == Tail(q)
<1>1. /\ Tips(q) = Tips(t) \cup {c} /\ TipsAt(q, D) \subseteq TipsAt(t, D) \cup {c}
      /\ Even(t, D) /\ (Flat(q, D) => Flat(t, D))
  BY TailTips DEF Level
<1>2. query.max_depth \in Nat
  BY DEF Asked
<1> HIDE DEF c, t
<1>3. ASSUME D >= query.max_depth \/ c \in v
      PROVE  Level(D, t, v, {}, stuck)
  BY <1>1, <1>3 DEF Level
<1>4. Level(D, t, v \cup {c}, {}, TRUE)
  BY <1>1 DEF Level
<1>5. ASSUME D < query.max_depth, ~ stuck
      PROVE  Level(D, t, v \cup {c}, {c}, FALSE)
  <2>1. ~ (D >= query.max_depth)
    BY <1>2, <1>5
  <2> QED BY <1>1, <1>5, <2>1 DEF Level
<1> QED BY <1>3, <1>4, <1>5 DEF c, t

\* The neighbours of the open node join the queue.
LEMMA Learned ==
  ASSUME NEW S, NEW q \in Seq(S), NEW more \in Seq(S), NEW v, NEW c, NEW D \in Nat,
         Level(D, q, v, {c}, FALSE), Flat(more, D + 1), Nexts(c) \subseteq v \cup Tips(q \o more)
  PROVE  Level(D, q \o more, v, {}, FALSE)
<1> DEFINE u == q \o more
<1>1. /\ Tips(u) = Tips(q) \cup Tips(more) /\ TipsAt(q, D) \subseteq TipsAt(u, D) /\ Even(u, D)
  BY MoreTips DEF Level
<1> HIDE DEF u
<1>2. D >= query.max_depth \/ \A n \in v : Nexts(n) \subseteq v \cup Tips(u)
  BY <1>1 DEF Level, u
<1>3. D >= query.max_depth \/ Near(D) \subseteq v \cup TipsAt(u, D)
  BY <1>1 DEF Level
<1> QED BY <1>1, <1>2, <1>3 DEF Level, u

\* Being stuck asks for less.
LEMMA Weakened ==
  ASSUME NEW d, NEW q, NEW v, NEW stuck \in BOOLEAN, Level(d, q, v, {}, FALSE)
  PROVE  Level(d, q, v, {}, stuck)
BY DEF Level

-----------------------------------------------------------------------------
(***************************************************************************)
(* The invariant of both searches.                                         *)
(***************************************************************************)
Question ==
  /\ {"tool", "from", "direction", "max_depth", "max_nodes"} \subseteq DOMAIN query
  /\ query.direction \in {"callers", "callees", "both"}
  /\ query.max_nodes \in Nat /\ query.max_depth \in Nat

Fresh ==
  pc \in {"open", "collect", "start"} =>
    /\ queue = <<>> /\ visited = {} /\ found = {} /\ truncated = FALSE /\ answer = <<>>

\* The node of which the neighbours are asked.
Opened == IF pc = "look up" THEN {Last(path)} ELSE {}

\* From here on a path that has not arrived is dropped.
Stuck == Seeking /\ pc = "pop" /\ Cardinality(visited) + 1 >= query.max_nodes

\* What the store may answer.
Replies(n) == StoreNeighbors(n, query.direction, query.max_nodes)

\* The queue has walks, the open node is at the end of one.
Walking ==
  /\ Present(query.from) /\ queue \in Seq(Walks) /\ visited \subseteq tables.nodes
  /\ pc = "look up" =>
       /\ path \in Walks /\ Len(path) <= query.max_depth
       /\ \E n \in visited : n = Last(path) /\ rows \in Replies(n)

\* Of a visited node all neighbours are known, or as many as max_nodes.
Covered(q, v, open) ==
  \A n \in v \ open : \/ Nexts(n) \subseteq v \cup Tips(q)
                      \/ Cardinality(Nexts(n) \cap (v \cup Tips(q))) >= query.max_nodes

PathRun ==
  /\ query.to \notin visited
  /\ \/ truncated
     \/ /\ query.from \in visited \cup Tips(queue) /\ Covered(queue, visited, Opened)
        /\ visited = {} \/ Cardinality(visited) < query.max_nodes
  /\ Unlimited => \E d \in Nat : /\ Level(d, queue, visited, Opened, Stuck)
                                 /\ pc = "look up" => Len(path) = d + 1

\* All that is within d links has been found, and nothing that is not to be visited.
Held(d, q, v, known) ==
  /\ Near(d) \subseteq known
  /\ d >= query.max_depth \/ known \subseteq v \cup Tips(q)

Room == IF query.max_nodes = 0 THEN 1 ELSE query.max_nodes

ImpactRun ==
  /\ query.from \in found /\ found \subseteq Near(query.max_depth)
  /\ Cardinality(found) <= Room
  /\ visited \cup Tips(queue) \subseteq found
  /\ \/ truncated
     \/ \E d \in Nat : /\ Level(d, queue, visited, Opened, FALSE) /\ Held(d, queue, visited, found)
                       /\ pc = "look up" => Len(path) = d + 1

Running ==
  /\ pc # "panicked"
  /\ pc \in {"pop", "look up"} => Walking /\ (Seeking => PathRun) /\ (~ Seeking => ImpactRun)

RightInv ==
  /\ PathInv /\ Question /\ changes \in Nat /\ Fresh
  /\ changes = 0 /\ Clean => Running
  /\ RightUnlessChanged

-----------------------------------------------------------------------------
\* The tables, the store and the query stay, and what is said of them.
LEMMA Same ==
  ASSUME UNCHANGED <<tables, store, query>>
  PROVE  /\ Asked' = Asked /\ Walks' = Walks /\ Clean' = Clean /\ Unlimited' = Unlimited
         /\ Ways' = Ways /\ Seeking' = Seeking /\ Question' = Question
         /\ \A d : Near(d)' = Near(d)
         /\ \A n : Nexts(n)' = Nexts(n) /\ Present(n)' = Present(n)
<1>1. Ways' = Ways
  BY DEF Ways
<1>2. \A d : Near(d)' = Near(d)
  BY <1>1 DEF Near
<1>3. \A n : Nexts(n)' = Nexts(n) /\ Present(n)' = Present(n)
  BY <1>1 DEF Nexts, Present
<1>4. Walks' = Walks
  BY <1>1 DEF Walks
<1>5. Clean' = Clean
  BY DEF Clean, Present
<1>6. Unlimited' = Unlimited
  BY DEF Unlimited, SqlCallees
<1>7. Asked' = Asked /\ Seeking' = Seeking /\ Question' = Question
  BY DEF Asked, Seeking, Question
<1> QED BY <1>1, <1>2, <1>3, <1>4, <1>5, <1>6, <1>7

\* So does what the store answers.
LEMMA RepliesSame ==
  ASSUME UNCHANGED <<store, query>>, NEW n
  PROVE  Replies(n) \subseteq Replies(n)'
<1> DEFINE limit == query.max_nodes
           Out(a, b) == IF query.direction = "callers" THEN <<>>
                        ELSE FirstOf(a, limit) \o FirstOf(b, limit)
           More(c, out) == IF query.direction = "callees" THEN <<>>
                           ELSE FirstOf(c, limit - Len(out))
           Reply(a, b, c) == FirstOf(Distinct(Out(a, b) \o More(c, Out(a, b)), {}), limit)
<1> SUFFICES ASSUME NEW r \in Replies(n)
             PROVE  r \in Replies(n)'
  OBVIOUS
<1>1. CASE store = None
  BY <1>1 DEF Replies, StoreNeighbors
<1>2. CASE store # None
  <2>1. PICK callees \in Rows(StoreCallees(n, Nodes)), names \in Rows(StoreCallees(n, Range(NameOf))),
             callers \in Rows(StoreCallers(n)) : r = Reply(callees, names, callers)
    BY <1>2 DEF Replies, StoreNeighbors
  <2>2. /\ StoreCallees(n, Nodes)' = StoreCallees(n, Nodes)
        /\ StoreCallees(n, Range(NameOf))' = StoreCallees(n, Range(NameOf))
        /\ StoreCallers(n)' = StoreCallers(n)
    BY DEF StoreCallees, StoreCallers
  <2>3. /\ callees \in Rows(StoreCallees(n, Nodes)')
        /\ names \in Rows(StoreCallees(n, Range(NameOf))')
        /\ callers \in Rows(StoreCallers(n)')
    BY <2>1, <2>2
  <2> QED BY <1>2, <2>1, <2>3 DEF Replies, StoreNeighbors
<1> QED BY <1>1, <1>2

\* To show a part of the invariant of the next state it can be said of the old tables.
LEMMA WalkingNext ==
  ASSUME UNCHANGED <<tables, store, query>>,
         Present(query.from), queue' \in Seq(Walks), visited' \subseteq tables.nodes,
         pc' = "look up" =>
           /\ path' \in Walks /\ Len(path') <= query.max_depth
           /\ \E n \in visited' : n = Last(path') /\ rows' \in Replies(n)
  PROVE  Walking'
<1>1. Walks' = Walks
  BY Same
<1>2. Present(query.from)'
  BY DEF Present
<1>3. \A n : Replies(n) \subseteq Replies(n)'
  BY RepliesSame
<1> QED BY <1>1, <1>2, <1>3 DEF Walking

LEMMA PathRunNext ==
  ASSUME UNCHANGED <<tables, store, query>>, query.to \notin visited',
         \/ truncated'
         \/ /\ query.from \in visited' \cup Tips(queue') /\ Covered(queue', visited', Opened')
            /\ visited' = {} \/ Cardinality(visited') < query.max_nodes,
         Unlimited => \E d \in Nat : /\ Level(d, queue', visited', Opened', Stuck')
                                     /\ pc' = "look up" => Len(path') = d + 1
  PROVE  PathRun'
<1>1. /\ Unlimited' = Unlimited
      /\ \A d : Near(d)' = Near(d)
      /\ \A n : Nexts(n)' = Nexts(n)
  BY Same
<1>2. Covered(queue', visited', Opened') => Covered(queue, visited, Opened)'
  BY <1>1 DEF Covered, Tips
<1>3. \A d \in Nat : Level(d, queue', visited', Opened', Stuck') => Level(d, queue, visited, Opened, Stuck)'
  BY <1>1 DEF Level, Even, Flat, Tips, TipsAt
<1>4. Unlimited' => \E d \in Nat : /\ Level(d, queue, visited, Opened, Stuck)'
                                   /\ pc' = "look up" => Len(path') = d + 1
  BY <1>1, <1>3
<1>5. Tips(queue)' = Tips(queue')
  BY DEF Tips
<1> QED BY <1>2, <1>4, <1>5 DEF PathRun

LEMMA ImpactRunNext ==
  ASSUME UNCHANGED <<tables, store, query>>,
         query.from \in found', found' \subseteq Near(query.max_depth),
         Cardinality(found') <= Room, visited' \cup Tips(queue') \subseteq found',
         \/ truncated'
         \/ \E d \in Nat : /\ Level(d, queue', visited', Opened', FALSE)
                           /\ Held(d, queue', visited', found')
                           /\ pc' = "look up" => Len(path') = d + 1
  PROVE  ImpactRun'
<1>1. /\ \A d : Near(d)' = Near(d)
      /\ \A n : Nexts(n)' = Nexts(n)
  BY Same
<1>2. \A d \in Nat : Level(d, queue', visited', Opened', FALSE) => Level(d, queue, visited, Opened, FALSE)'
  BY <1>1 DEF Level, Even, Flat, Tips, TipsAt
<1>3. \A d \in Nat : Held(d, queue', visited', found') => Held(d, queue, visited, found)'
  BY <1>1 DEF Held, Tips
<1>4. truncated' \/ \E d \in Nat : /\ Level(d, queue, visited, Opened, FALSE)'
                                   /\ Held(d, queue, visited, found)'
                                   /\ pc' = "look up" => Len(path') = d + 1
  BY <1>2, <1>3
<1>5. Near(query.max_depth)' = Near(query.max_depth)
  BY DEF Near, Ways
<1>6. Tips(queue)' = Tips(queue') /\ Room' = Room
  BY DEF Tips, Room
<1> QED BY <1>4, <1>5, <1>6 DEF ImpactRun

-----------------------------------------------------------------------------
(***************************************************************************)
(* Every step keeps it: first those of the other processes and searches.   *)
(***************************************************************************)
LEMMA RightInit == Init => RightInv
<1> SUFFICES ASSUME Init
             PROVE  RightInv
  OBVIOUS
<1>1. PathInv
  BY PathInit
<1>2. Question
  BY QueryAssumption DEF Init, CodeInit, Question
<1>3. /\ changes \in Nat /\ pc \in {"open", "collect", "start"} /\ queue = <<>> /\ visited = {} /\ found = {}
      /\ truncated = FALSE /\ answer = <<>>
  BY DEF Init, CodeInit
<1>4. Running /\ RightUnlessChanged
  BY <1>3 DEF Running, RightUnlessChanged
<1> QED BY <1>1, <1>2, <1>3, <1>4 DEF RightInv, Fresh

\* A commit, a clear or a rebuild is a change.
LEMMA ChangesCount ==
  ASSUME RightInv, PathInv', Commit \/ StoreStep
  PROVE  RightInv'
<1>1. /\ changes' = changes + 1
      /\ UNCHANGED <<query, pc, queue, visited, found, truncated, answer>>
  BY DEF Commit, Reindex, StoreStep, Clear, Rebuild, search
<1>2. changes' \in Nat /\ changes' # 0
  BY <1>1 DEF RightInv
<1>3. Question' /\ Fresh'
  BY <1>1 DEF RightInv, Question, Fresh
<1> QED BY <1>2, <1>3 DEF RightInv, RightUnlessChanged

\* A walk has not begun before the tables are open.
LEMMA OpenRight ==
  ASSUME RightInv, PathInv', Open
  PROVE  RightInv'
<1>1. /\ UNCHANGED <<query, queue, visited, found, truncated, answer, changes>>
      /\ pc = "open" /\ pc' \in {"start", "collect", "failed"}
  BY DEF Open
<1>2. Question' /\ Fresh' /\ Running'
  BY <1>1 DEF RightInv, Question, Fresh, Running
<1>3. RightUnlessChanged'
  BY <1>1 DEF RightUnlessChanged
<1> QED BY <1>1, <1>2, <1>3 DEF RightInv

\* The searches of ContextSearch leave the state of a walk alone.
LEMMA SearchesRight ==
  ASSUME RightInv, PathInv', Exact \/ Lexical \/ Embed \/ Unify \/ Compose \/ Deliver
  PROVE  RightInv'
<1>1. pc = "collect" /\ ~ Seeking
  <2>1. pc = "collect"
    BY DEF Exact, Lexical, Embed, Unify, Compose, Deliver, At
  <2> QED BY <2>1 DEF RightInv, PathInv, Led, Trails
<1>2. /\ UNCHANGED <<queue, visited, found, truncated, answer, changes>>
      /\ query' = query \/ \E n : query' = [query EXCEPT !.from = n]
      /\ pc' \in {"open", "collect", "start", "answered", "failed"}
  BY <1>1 DEF Exact, Lexical, Embed, Unify, Compose, Deliver, codeVars, search
<1>3. Question' /\ query'.tool = query.tool
  BY <1>2 DEF RightInv, Question
<1>4. queue = <<>> /\ visited = {} /\ found = {} /\ truncated = FALSE /\ answer = <<>>
  BY <1>1 DEF RightInv, Fresh
<1>5. Fresh' /\ Running'
  BY <1>2, <1>4 DEF Fresh, Running
<1>6. RightUnlessChanged'
  BY <1>1, <1>2, <1>3, <1>4 DEF RightUnlessChanged, Seeking
<1> QED BY <1>2, <1>3, <1>5, <1>6 DEF RightInv

\* No step at all.
LEMMA StutterRight ==
  ASSUME RightInv, PathInv', UNCHANGED vars
  PROVE  RightInv'
<1>1. UNCHANGED <<tables, store, query, pc, queue, visited, found, rows, path, truncated, answer, changes>>
  BY DEF vars, codeVars, search
<1>2. /\ Question' = Question /\ Clean' = Clean /\ Unlimited' = Unlimited
      /\ changes' \in Nat /\ Fresh'
  BY <1>1, Same DEF RightInv, Fresh
<1>3. changes' = 0 /\ Clean' => Running'
  <2> SUFFICES ASSUME Running
               PROVE  Running'
    BY <1>1, <1>2 DEF RightInv
  <2>1. pc' \in {"pop", "look up"} => Walking'
    <3> SUFFICES ASSUME Walking
                 PROVE  Walking'
      BY <1>1 DEF Running
    <3> QED BY <1>1, WalkingNext DEF Walking
  <2>2. Opened' = Opened /\ Stuck' = Stuck /\ Seeking' = Seeking
    BY <1>1 DEF Opened, Stuck, Seeking
  <2>3. PathRun => PathRun'
    <3> SUFFICES ASSUME PathRun
                 PROVE  PathRun'
      OBVIOUS
    <3> QED BY <1>1, <2>2, PathRunNext DEF PathRun
  <2>4. ImpactRun => ImpactRun'
    <3> SUFFICES ASSUME ImpactRun
                 PROVE  ImpactRun'
      OBVIOUS
    <3> QED BY <1>1, <2>2, ImpactRunNext DEF ImpactRun
  <2> QED BY <1>1, <2>1, <2>2, <2>3, <2>4 DEF Running
<1>4. RightUnlessChanged'
  BY <1>1, <1>2 DEF RightInv, RightUnlessChanged
<1> QED BY <1>2, <1>3, <1>4 DEF RightInv

-----------------------------------------------------------------------------
(***************************************************************************)
(* The steps of the searches.                                              *)
(***************************************************************************)
\* A sequence of one.
LEMMA OneElement ==
  ASSUME NEW S, NEW x \in S
  PROVE  <<x>> \in Seq(S) \ {<<>>} /\ Len(<<x>>) = 1 /\ DOMAIN <<x>> = {1} /\ <<x>>[1] = x
OBVIOUS

\* The first walk has one node.
LEMMA StartRight ==
  ASSUME RightInv, PathInv', Start
  PROVE  RightInv'
<1>1. /\ pc = "start" /\ pc' \in {"pop", "not found"}
      /\ UNCHANGED <<tables, store, query, visited, truncated, answer, changes>>
  BY DEF Start
<1>2. /\ Question' /\ Clean' = Clean /\ changes' \in Nat /\ Seeking' = Seeking
      /\ Asked
  BY <1>1, Same DEF RightInv, Question, Asked, PathInv, Grounded
<1>3. RightUnlessChanged' /\ Fresh'
  BY <1>1 DEF RightUnlessChanged, Fresh
<1>4. ASSUME pc' = "pop"
      PROVE  Walking' /\ PathRun' /\ ImpactRun'
  <2> DEFINE one == <<query.from>>
             q == <<one>>
  <2>1. /\ Present(query.from) /\ queue' = q /\ found' = {query.from}
        /\ visited' = {} /\ truncated' = FALSE
    BY <1>1, <1>4 DEF Start, RightInv, Fresh
  <2>2. one \in Walks /\ Len(one) = 1 /\ Last(one) = query.from
    <3>1. one \in Seq(tables.nodes) \ {<<>>} /\ Len(one) = 1 /\ one[1] = query.from
      <4>1. query.from \in tables.nodes
        BY <2>1 DEF Present
      <4> QED BY <4>1, OneElement
    <3>2. IsPath(one, Ways) /\ Last(one) = query.from
      BY DEF IsPath, Last
    <3> QED BY <1>2, <3>1, <3>2 DEF Walks, Asked
  <2> HIDE DEF one
  <2>3. q \in Seq(Walks) /\ DOMAIN q = {1} /\ q[1] = one
    BY <2>2, OneElement
  <2> HIDE DEF q
  <2>4. Tips(q) = {query.from} /\ TipsAt(q, 0) = {query.from} /\ Even(q, 0)
    BY <2>2, <2>3 DEF Tips, TipsAt, Even
  <2>5. Near(0) = {query.from}
    BY WithinSteps DEF Near
  <2>6. \A stuck : Level(0, q, {}, {}, stuck)
    BY <2>4, <2>5 DEF Level
  <2>7. Opened' = {} /\ visited' = {}
    BY <1>4, <2>1 DEF Opened
  <2>8. Walking'
    <3>1. queue' \in Seq(Walks)
      BY <2>1, <2>3
    <3> QED BY <1>1, <1>4, <2>1, <3>1, WalkingNext
  <2>9. PathRun'
    <3>1. Covered(queue', visited', Opened')
      BY <2>7 DEF Covered
    <3>2. \E d \in Nat : /\ Level(d, queue', visited', Opened', Stuck')
                         /\ pc' = "look up" => Len(path') = d + 1
      BY <1>4, <2>1, <2>6, <2>7
    <3> QED BY <1>1, <2>1, <2>4, <2>7, <3>1, <3>2, PathRunNext
  <2>10. ImpactRun'
    <3>1. Near(0) \subseteq Near(query.max_depth)
      <4>1. query.max_depth \in Nat /\ 0 \in 0 .. query.max_depth
        BY <1>2 DEF Asked
      <4> QED BY <4>1, WithinGrows DEF Near
    <3>2. Cardinality(found') <= Room
      <4>1. Cardinality(found') = 1
        BY <2>1, FS_Singleton
      <4> QED BY <1>2, <4>1 DEF Room, Asked
    <3>3. Held(0, queue', visited', found')
      BY <2>1, <2>4, <2>5 DEF Held
    <3>4. \E d \in Nat : /\ Level(d, queue', visited', Opened', FALSE)
                         /\ Held(d, queue', visited', found')
                         /\ pc' = "look up" => Len(path') = d + 1
      BY <1>4, <2>1, <2>6, <2>7, <3>3
    <3> QED BY <1>1, <2>1, <2>4, <2>5, <2>7, <3>1, <3>2, <3>4, ImpactRunNext
  <2> QED BY <2>8, <2>9, <2>10
<1>5. Running'
  BY <1>1, <1>4 DEF Running
<1> QED BY <1>2, <1>3, <1>5 DEF RightInv

\* A node has finitely many neighbours.
LEMMA NextsFinite ==
  ASSUME Asked, NEW n
  PROVE  IsFiniteSet(tables.nodes) /\ IsFiniteSet(Nexts(n)) /\ Nexts(n) \subseteq tables.nodes
<1>1. IsFiniteSet(tables.nodes)
  BY VersionFacts DEF Asked
<1> QED BY <1>1, FS_Subset DEF Nexts

\* Who is covered stays so, the more is known.
LEMMA CoveredStill ==
  ASSUME Asked, NEW q, NEW v, NEW open, Covered(q, v, open), NEW r, NEW w, NEW opened,
         v \cup Tips(q) \subseteq w \cup Tips(r), w \ opened \subseteq v \ open
  PROVE  Covered(r, w, opened)
<1> SUFFICES ASSUME NEW n \in w \ opened,
                    Cardinality(Nexts(n) \cap (v \cup Tips(q))) >= query.max_nodes
             PROVE  Cardinality(Nexts(n) \cap (w \cup Tips(r))) >= query.max_nodes
  BY DEF Covered
<1> DEFINE less == Nexts(n) \cap (v \cup Tips(q))
           more == Nexts(n) \cap (w \cup Tips(r))
<1>1. IsFiniteSet(more) /\ less \subseteq more
  BY NextsFinite, FS_Subset
<1> HIDE DEF less, more
<1>2. Cardinality(less) <= Cardinality(more) /\ Cardinality(less) \in Nat /\ Cardinality(more) \in Nat
  BY <1>1, FS_Subset, FS_CardinalityType
<1>3. Cardinality(less) >= query.max_nodes /\ query.max_nodes \in Nat
  BY DEF less, Asked
<1> QED BY <1>2, <1>3 DEF more

\* What is known of the walk that is first, and of the queue without it.
LEMMA PopFacts ==
  ASSUME Asked, Walking, pc = "pop", queue # <<>>
  PROVE  /\ Head(queue) \in Walks /\ Tail(queue) \in Seq(Walks)
         /\ Current \in tables.nodes /\ Depth \in Nat /\ Len(Head(queue)) = Depth + 1
         /\ Tips(queue) = Tips(Tail(queue)) \cup {Current}
         /\ \A d \in Nat, stuck \in BOOLEAN : Level(d, queue, visited, {}, stuck) =>
              /\ Level(Depth, queue, visited, {}, stuck)
              /\ Depth = d \/ (Depth = d + 1 /\ d < query.max_depth
                                 /\ (stuck \/ Near(Depth) \subseteq visited \cup Tips(queue)))
              /\ Depth >= query.max_depth \/ Current \in visited =>
                   Level(Depth, Tail(queue), visited, {}, stuck)
              /\ Level(Depth, Tail(queue), visited \cup {Current}, {}, TRUE)
              /\ Depth < query.max_depth /\ ~ stuck =>
                   Level(Depth, Tail(queue), visited \cup {Current}, {Current}, FALSE)
<1>1. queue \in Seq(Walks)
  BY DEF Walking
<1>2. Head(queue) \in Walks /\ Tail(queue) \in Seq(Walks)
  BY <1>1, TailPlaces
<1>3. Head(queue) \in Seq(tables.nodes) \ {<<>>}
  BY <1>2 DEF Walks
<1>4. Len(Head(queue)) \in Nat /\ Len(Head(queue)) >= 1 /\ Last(Head(queue)) \in tables.nodes
  BY <1>3 DEF Last
<1>5. Current \in tables.nodes /\ Depth \in Nat /\ Len(Head(queue)) = Depth + 1
      /\ Current = Last(Head(queue)) /\ Depth = Len(Head(queue)) - 1
  BY <1>4 DEF Current, Depth
<1>6. Tips(queue) = Tips(Tail(queue)) \cup {Current}
  <2>1. 0 \in Nat
    OBVIOUS
  <2> QED BY <1>1, <1>5, <2>1, TailTips
<1>7. ASSUME NEW d \in Nat, NEW stuck \in BOOLEAN, Level(d, queue, visited, {}, stuck)
      PROVE  /\ Level(Depth, queue, visited, {}, stuck)
             /\ Depth = d \/ (Depth = d + 1 /\ d < query.max_depth
                                /\ (stuck \/ Near(Depth) \subseteq visited \cup Tips(queue)))
             /\ Depth >= query.max_depth \/ Current \in visited =>
                  Level(Depth, Tail(queue), visited, {}, stuck)
             /\ Level(Depth, Tail(queue), visited \cup {Current}, {}, TRUE)
             /\ Depth < query.max_depth /\ ~ stuck =>
                  Level(Depth, Tail(queue), visited \cup {Current}, {Current}, FALSE)
  <2>1. /\ Level(Depth, queue, visited, {}, stuck)
        /\ Depth = d \/ (Depth = d + 1 /\ d < query.max_depth
                           /\ (stuck \/ Near(Depth) \subseteq visited \cup Tips(queue)))
    BY <1>1, <1>5, <1>7, Relevel
  <2> QED BY <1>1, <1>5, <2>1, Popped
<1> QED BY <1>2, <1>5, <1>6, <1>7

\* The impact graph takes the next walk.
LEMMA PopImpactRight ==
  ASSUME RightInv, PathInv', PopImpact
  PROVE  RightInv'
<1>1. /\ ~ Seeking /\ pc = "pop" /\ queue # <<>> /\ pc' \in {"pop", "look up"}
      /\ UNCHANGED <<tables, store, query, found, truncated, answer, changes>>
      /\ queue' = Tail(queue)
  BY DEF PopImpact, Drop, Ask, Seeking
<1>2. /\ Question' /\ Clean' = Clean /\ changes' \in Nat /\ Seeking' = Seeking
      /\ Asked
  BY <1>1, Same DEF RightInv, Question, Asked, PathInv, Grounded
<1>3. RightUnlessChanged' /\ Fresh'
  BY <1>1 DEF RightUnlessChanged, Fresh
<1>4. ASSUME Walking, ImpactRun
      PROVE  Walking' /\ ImpactRun'
  <2>1. Opened = {}
    BY <1>1 DEF Opened
  <2>2. /\ Head(queue) \in Walks /\ Tail(queue) \in Seq(Walks)
        /\ Current \in tables.nodes /\ Depth \in Nat /\ Len(Head(queue)) = Depth + 1
        /\ Tips(queue) = Tips(Tail(queue)) \cup {Current}
    BY <1>1, <1>2, <1>4, PopFacts
  <2>3. query.max_depth \in Nat
    BY <1>2 DEF Asked
  <2>4. /\ query.from \in found /\ found \subseteq Near(query.max_depth)
        /\ Cardinality(found) <= Room /\ visited \cup Tips(queue) \subseteq found
    BY <1>4 DEF ImpactRun
  <2>5. ASSUME ~ truncated
        PROVE  /\ Near(Depth) \subseteq found
               /\ Depth >= query.max_depth \/ found \subseteq visited \cup Tips(queue)
               /\ Depth >= query.max_depth \/ Current \in visited =>
                    Level(Depth, Tail(queue), visited, {}, FALSE)
               /\ Depth < query.max_depth =>
                    Level(Depth, Tail(queue), visited \cup {Current}, {Current}, FALSE)
    <3>1. PICK d \in Nat : Level(d, queue, visited, {}, FALSE) /\ Held(d, queue, visited, found)
      BY <1>4, <2>1, <2>5 DEF ImpactRun
    <3>2. /\ Depth = d \/ (Depth = d + 1 /\ d < query.max_depth
                             /\ Near(Depth) \subseteq visited \cup Tips(queue))
          /\ Depth >= query.max_depth \/ Current \in visited =>
               Level(Depth, Tail(queue), visited, {}, FALSE)
          /\ Depth < query.max_depth =>
               Level(Depth, Tail(queue), visited \cup {Current}, {Current}, FALSE)
      BY <1>1, <1>2, <1>4, <3>1, PopFacts
    <3>3. Near(Depth) \subseteq found
      BY <2>4, <3>1, <3>2 DEF Held
    <3>4. Depth >= query.max_depth \/ found \subseteq visited \cup Tips(queue)
      <4>1. d >= query.max_depth => Depth >= query.max_depth
        BY <2>3, <3>2
      <4> QED BY <3>1, <4>1 DEF Held
    <3> QED BY <3>2, <3>3, <3>4
  <2>6. CASE Depth >= query.max_depth \/ Current \in visited
    <3>1. pc' = "pop" /\ UNCHANGED visited
      BY <1>1, <2>6 DEF PopImpact, Drop
    <3>2. Opened' = {}
      BY <3>1 DEF Opened
    <3>3. Walking'
      BY <1>1, <1>4, <2>2, <3>1, WalkingNext DEF Walking
    <3>4. \/ truncated'
          \/ \E d \in Nat : /\ Level(d, queue', visited', Opened', FALSE)
                            /\ Held(d, queue', visited', found')
                            /\ pc' = "look up" => Len(path') = d + 1
      <4> SUFFICES ASSUME ~ truncated
                   PROVE  /\ Level(Depth, queue', visited', Opened', FALSE)
                          /\ Held(Depth, queue', visited', found')
        BY <1>1, <2>2, <3>1
      <4>1. Level(Depth, queue', visited', Opened', FALSE)
        BY <1>1, <2>5, <2>6, <3>1, <3>2
      <4>2. Held(Depth, queue', visited', found')
        BY <1>1, <2>2, <2>5, <2>6, <3>1 DEF Held
      <4> QED BY <4>1, <4>2
    <3>5. ImpactRun'
      BY <1>1, <2>2, <2>4, <3>1, <3>4, ImpactRunNext
    <3> QED BY <3>3, <3>5
  <2>7. CASE Depth < query.max_depth /\ Current \notin visited
    <3>1. /\ pc' = "look up" /\ visited' = visited \cup {Current} /\ path' = Head(queue)
          /\ rows' \in Replies(Current)
      <4>1. ~ (Depth >= query.max_depth \/ Current \in visited)
        BY <2>2, <2>3, <2>7
      <4> QED BY <4>1 DEF PopImpact, Ask, Replies
    <3>2. Opened' = {Current}
      BY <3>1 DEF Opened, Current
    <3>3. Walking'
      <4>1. Len(path') <= query.max_depth
        <5>1. \A n \in Nat : n < query.max_depth => n + 1 <= query.max_depth
          BY <2>3
        <5>2. Depth + 1 <= query.max_depth
          BY <2>2, <2>7, <5>1
        <5>3. Len(path') = Depth + 1
          BY <2>2, <3>1
        <5> QED BY <5>2, <5>3
      <4>2. Current \in visited' /\ Current = Last(path') /\ visited' \subseteq tables.nodes
        BY <1>4, <2>2, <3>1 DEF Current, Walking
      <4>3. Present(query.from)
        BY <1>4 DEF Walking
      <4> QED BY <1>1, <2>2, <3>1, <4>1, <4>2, <4>3, WalkingNext
    <3>4. \/ truncated'
          \/ \E d \in Nat : /\ Level(d, queue', visited', Opened', FALSE)
                            /\ Held(d, queue', visited', found')
                            /\ pc' = "look up" => Len(path') = d + 1
      <4> SUFFICES ASSUME ~ truncated
                   PROVE  /\ Level(Depth, queue', visited', Opened', FALSE)
                          /\ Held(Depth, queue', visited', found')
        BY <1>1, <2>2, <3>1
      <4>1. Level(Depth, queue', visited', Opened', FALSE)
        BY <1>1, <2>5, <2>7, <3>1, <3>2
      <4>2. Held(Depth, queue', visited', found')
        BY <1>1, <2>2, <2>5, <2>7, <3>1 DEF Held
      <4> QED BY <4>1, <4>2
    <3>5. ImpactRun'
      BY <1>1, <2>2, <2>4, <3>1, <3>4, ImpactRunNext
    <3> QED BY <3>3, <3>5
  <2> QED BY <2>2, <2>3, <2>6, <2>7
<1>5. changes' = 0 /\ Clean' => Running'
  BY <1>1, <1>2, <1>4 DEF RightInv, Running
<1> QED BY <1>2, <1>3, <1>5 DEF RightInv

\* A walk that has arrived is a path, and a shortest one where nothing is left out.
LEMMA ArrivedRight ==
  ASSUME Asked, Walking, PathRun, Seeking, pc = "pop", queue # <<>>, Current = query.to,
         UNCHANGED <<tables, store, query>>, answer' = StillPresent(Head(queue)),
         pc' = "answered"
  PROVE  RightUnlessChanged'
<1> DEFINE w == Head(queue)
<1>1. /\ w \in Walks /\ Current \in tables.nodes /\ Depth \in Nat /\ Len(w) = Depth + 1
  BY PopFacts
<1>2. /\ w \in Seq(tables.nodes) \ {<<>>} /\ w[1] = query.from /\ IsPath(w, Ways)
      /\ Len(w) <= query.max_depth + 1
  BY <1>1 DEF Walks
<1>3. StillPresent(w) = w
  <2> HIDE DEF w
  <2>1. \A i \in DOMAIN w : w[i] \in tables.nodes
    BY <1>2, NothingBefore
  <2>2. {i \in DOMAIN w : Present(w[i])} = DOMAIN w
    BY <2>1 DEF Present
  <2> QED BY <1>2, <2>2, SelectedAll DEF StillPresent
<1>4. Last(w) = query.to
  BY DEF Current
<1>5. ASSUME Unlimited, NEW k \in 0 .. Len(w) - 2
      PROVE  query.to \notin Within(Ways, query.from, k)
  <2>1. Opened = {} /\ Stuck \in BOOLEAN
    BY DEF Opened, Stuck
  <2>2. PICK d \in Nat : Level(d, queue, visited, {}, Stuck)
    BY <1>5, <2>1 DEF PathRun
  <2>3. Level(Depth, queue, visited, {}, Stuck)
    BY <2>1, <2>2, PopFacts
  <2>4. Depth > 0 /\ Depth - 1 \in Nat /\ k \in 0 .. Depth - 1
    <3> HIDE DEF w
    <3> QED BY <1>1
  <2>5. Near(Depth - 1) \subseteq visited
    BY <2>3, <2>4 DEF Level
  <2>6. Within(Ways, query.from, k) \subseteq Near(Depth - 1)
    BY <2>4, WithinGrows DEF Near
  <2> QED BY <2>5, <2>6 DEF PathRun
<1> HIDE DEF w
<1>6. answer' = w /\ answer' # <<>> /\ Head(w) = w[1]
  <2>1. answer' = w
    BY <1>3 DEF w
  <2> QED BY <1>2, <2>1
<1>7. Unlimited' = Unlimited
  BY Same
<1>8. Links(tables', query'.direction) = Ways
  BY DEF Ways
<1>9. /\ Head(answer') = query'.from /\ Last(answer') = query'.to
      /\ IsPath(answer', Links(tables', query'.direction))
      /\ Len(answer') <= query'.max_depth + 1
      /\ Unlimited' => \A k \in 0 .. Len(answer') - 2 :
                          query'.to \notin Within(Links(tables', query'.direction), query'.from, k)
  BY <1>2, <1>4, <1>5, <1>6, <1>7, <1>8
<1>10. query'.tool = "path" /\ pc' # "panicked" /\ answer' # <<>>
  BY <1>6 DEF Seeking
<1> QED BY <1>9, <1>10 DEF RightUnlessChanged

\* The search for a path takes the next walk: it has arrived, is dropped, or goes on.
LEMMA PopPathRight ==
  ASSUME RightInv, PathInv', PopPath
  PROVE  RightInv'
<1>1. /\ Seeking /\ pc = "pop" /\ queue # <<>>
      /\ pc' \in {"pop", "look up", "answered", "panicked"}
      /\ UNCHANGED <<tables, store, query, found, changes>>
  BY DEF PopPath, Drop, Ask, Seeking
<1>2. /\ Question' /\ Clean' = Clean /\ changes' \in Nat /\ Seeking' = Seeking
      /\ Asked
  BY <1>1, Same DEF RightInv, Question, Asked, PathInv, Grounded
<1>3. Fresh'
  BY <1>1 DEF Fresh
<1>4. ASSUME Walking, PathRun
      PROVE  \/ pc' = "answered" /\ RightUnlessChanged'
             \/ pc' \in {"pop", "look up"} /\ Walking' /\ PathRun'
  <2>1. Opened = {} /\ Stuck \in BOOLEAN
    BY <1>1 DEF Opened, Stuck
  <2>2. /\ Head(queue) \in Walks /\ Tail(queue) \in Seq(Walks)
        /\ Current \in tables.nodes /\ Depth \in Nat /\ Len(Head(queue)) = Depth + 1
        /\ Tips(queue) = Tips(Tail(queue)) \cup {Current}
    BY <1>1, <1>2, <1>4, PopFacts
  <2>3. query.max_depth \in Nat /\ query.max_nodes \in Nat
    BY <1>2 DEF Asked
  <2>4. /\ Present(query.from) /\ visited \subseteq tables.nodes /\ query.to \notin visited
    BY <1>4 DEF Walking, PathRun
  <2>5. ~ truncated => /\ query.from \in visited \cup Tips(queue) /\ Covered(queue, visited, {})
                       /\ visited = {} \/ Cardinality(visited) < query.max_nodes
    BY <1>4, <2>1 DEF PathRun
  <2>6. ASSUME Unlimited
        PROVE  /\ Depth >= query.max_depth \/ Current \in visited =>
                    Level(Depth, Tail(queue), visited, {}, Stuck)
               /\ Level(Depth, Tail(queue), visited \cup {Current}, {}, TRUE)
               /\ Depth < query.max_depth /\ ~ Stuck =>
                    Level(Depth, Tail(queue), visited \cup {Current}, {Current}, FALSE)
    <3>1. PICK d \in Nat : Level(d, queue, visited, {}, Stuck)
      BY <1>4, <2>1, <2>6 DEF PathRun
    <3> QED BY <1>1, <1>2, <1>4, <2>1, <3>1, PopFacts
  <2>7. IsFiniteSet(visited) /\ Cardinality(visited) \in Nat
        /\ Cardinality(visited \cup {Current}) \in {Cardinality(visited), Cardinality(visited) + 1}
    <3>1. IsFiniteSet(visited)
      BY <1>2, <2>4, NextsFinite, FS_Subset
    <3> QED BY <3>1, FS_CardinalityType, FS_AddElement
  <2>12. Depth < query.max_depth <=> ~ (Depth >= query.max_depth)
    <3>1. \A n \in Nat : n < query.max_depth <=> ~ (n >= query.max_depth)
      BY <2>3
    <3> QED BY <2>2, <3>1
  <2>8. CASE Current = query.to
    <3>1. pc' = "answered" /\ answer' = StillPresent(Head(queue))
      BY <2>8 DEF PopPath
    <3> QED BY <1>1, <1>2, <1>4, <2>8, <3>1, ArrivedRight
  <2>9. CASE Current # query.to /\ (Depth >= query.max_depth \/ Current \in visited)
    <3>1. /\ pc' = "pop" /\ queue' = Tail(queue) /\ UNCHANGED visited
          /\ \/ Depth >= query.max_depth /\ truncated' = TRUE
             \/ Current \in visited /\ UNCHANGED truncated
      <4>1. CASE Depth >= query.max_depth
        BY <1>1, <2>9, <4>1 DEF PopPath, Drop
      <4>2. CASE Depth < query.max_depth /\ Current \in visited
        <5>1. ~ (Depth >= query.max_depth)
          BY <2>12, <4>2
        <5> QED BY <1>1, <2>9, <4>2, <5>1 DEF PopPath, Drop
      <4> QED BY <2>9, <2>12, <4>1, <4>2
    <3>2. Opened' = {} /\ Stuck' = Stuck
      BY <1>1, <1>2, <3>1 DEF Opened, Stuck
    <3>3. Walking'
      BY <1>1, <2>2, <2>4, <3>1, WalkingNext
    <3>4. \/ truncated'
          \/ /\ query.from \in visited' \cup Tips(queue') /\ Covered(queue', visited', Opened')
             /\ visited' = {} \/ Cardinality(visited') < query.max_nodes
      <4> SUFFICES ASSUME ~ truncated, Current \in visited
                   PROVE  /\ query.from \in visited \cup Tips(Tail(queue))
                          /\ Covered(Tail(queue), visited, {})
                          /\ visited = {} \/ Cardinality(visited) < query.max_nodes
        BY <3>1, <3>2
      <4>1. visited \cup Tips(queue) = visited \cup Tips(Tail(queue))
        BY <2>2
      <4>2. Covered(Tail(queue), visited, {})
        BY <1>2, <2>5, <4>1, CoveredStill
      <4> QED BY <2>5, <4>1, <4>2
    <3>5. Unlimited => \E d \in Nat : /\ Level(d, queue', visited', Opened', Stuck')
                                      /\ pc' = "look up" => Len(path') = d + 1
      BY <2>2, <2>6, <2>9, <3>1, <3>2
    <3>6. PathRun'
      BY <1>1, <2>4, <3>1, <3>4, <3>5, PathRunNext
    <3> QED BY <3>1, <3>3, <3>6
  <2>10. CASE /\ Current # query.to /\ Depth < query.max_depth /\ Current \notin visited
              /\ Cardinality(visited) + 1 >= query.max_nodes
    <3>1. /\ pc' = "pop" /\ queue' = Tail(queue) /\ visited' = visited \cup {Current}
          /\ truncated' = TRUE
      <4>1. ~ (Depth >= query.max_depth)
        BY <2>10, <2>12
      <4> QED BY <1>1, <2>10, <4>1 DEF PopPath, Drop
    <3>2. Cardinality(visited') + 1 >= query.max_nodes
      BY <2>3, <2>7, <2>10, <3>1
    <3>3. Opened' = {} /\ Stuck' = TRUE
      BY <1>1, <1>2, <3>1, <3>2 DEF Opened, Stuck, Seeking
    <3>4. Walking'
      BY <1>1, <2>2, <2>4, <3>1, WalkingNext
    <3>5. Unlimited => \E d \in Nat : /\ Level(d, queue', visited', Opened', Stuck')
                                      /\ pc' = "look up" => Len(path') = d + 1
      BY <2>2, <2>6, <3>1, <3>3
    <3>6. PathRun'
      BY <1>1, <2>4, <2>10, <3>1, <3>5, PathRunNext
    <3> QED BY <3>1, <3>4, <3>6
  <2>11. CASE /\ Current # query.to /\ Depth < query.max_depth /\ Current \notin visited
              /\ ~ (Cardinality(visited) + 1 >= query.max_nodes)
    <3>1. /\ pc' = "look up" /\ queue' = Tail(queue) /\ visited' = visited \cup {Current}
          /\ path' = Head(queue) /\ rows' \in Replies(Current) /\ UNCHANGED truncated
      <4>1. ~ (Depth >= query.max_depth) /\ Present(Current)
        BY <2>2, <2>11, <2>12 DEF Present
      <4> QED BY <2>11, <4>1 DEF PopPath, Ask, Replies
    <3>2. Opened' = {Current} /\ Stuck' = FALSE /\ Stuck = FALSE
      BY <2>11, <3>1 DEF Opened, Stuck, Current
    <3>3. Walking'
      <4>1. Len(path') <= query.max_depth
        <5>1. \A n \in Nat : n < query.max_depth => n + 1 <= query.max_depth
          BY <2>3
        <5>2. Depth + 1 <= query.max_depth
          BY <2>2, <2>11, <5>1
        <5>3. Len(path') = Depth + 1
          BY <2>2, <3>1
        <5> QED BY <5>2, <5>3
      <4>2. Current \in visited' /\ Current = Last(path') /\ visited' \subseteq tables.nodes
        BY <2>2, <2>4, <3>1 DEF Current
      <4> QED BY <1>1, <2>2, <2>4, <3>1, <4>1, <4>2, WalkingNext
    <3>4. \/ truncated'
          \/ /\ query.from \in visited' \cup Tips(queue') /\ Covered(queue', visited', Opened')
             /\ visited' = {} \/ Cardinality(visited') < query.max_nodes
      <4> DEFINE w == visited \cup {Current}
      <4> SUFFICES ASSUME ~ truncated
                   PROVE  /\ query.from \in w \cup Tips(Tail(queue))
                          /\ Covered(Tail(queue), w, {Current})
                          /\ Cardinality(w) < query.max_nodes
        BY <3>1, <3>2
      <4>1. visited \cup Tips(queue) \subseteq w \cup Tips(Tail(queue))
            /\ w \ {Current} \subseteq visited \ {}
        BY <2>2
      <4>2. Cardinality(w) < query.max_nodes
        <5> HIDE DEF w
        <5>1. Cardinality(w) \in {Cardinality(visited), Cardinality(visited) + 1}
          BY <2>7 DEF w
        <5>2. ~ (Cardinality(visited) + 1 >= query.max_nodes)
          BY <2>11
        <5> QED BY <2>3, <2>7, <5>1, <5>2
      <4> HIDE DEF w
      <4>3. Covered(Tail(queue), w, {Current})
        BY <1>2, <2>5, <4>1, CoveredStill
      <4> QED BY <2>5, <4>1, <4>2, <4>3
    <3>5. Unlimited => \E d \in Nat : /\ Level(d, queue', visited', Opened', Stuck')
                                      /\ pc' = "look up" => Len(path') = d + 1
      BY <2>2, <2>6, <2>11, <3>1, <3>2
    <3>6. PathRun'
      BY <1>1, <2>4, <2>11, <3>1, <3>4, <3>5, PathRunNext
    <3> QED BY <3>1, <3>3, <3>6
  <2> QED BY <2>8, <2>9, <2>10, <2>11, <2>12
<1>5. changes' = 0 /\ Clean' => Running' /\ RightUnlessChanged'
  <2> SUFFICES ASSUME changes = 0, Clean
               PROVE  Running' /\ RightUnlessChanged'
    BY <1>1, <1>2
  <2>1. Walking /\ PathRun
    BY <1>1 DEF RightInv, Running
  <2>2. Running'
    BY <1>1, <1>2, <1>4, <2>1 DEF Running
  <2>3. pc' # "answered" /\ pc' # "panicked" => RightUnlessChanged'
    BY DEF RightUnlessChanged
  <2> QED BY <1>4, <2>1, <2>2, <2>3
<1>6. RightUnlessChanged'
  <2>1. ~ (changes' = 0 /\ Clean') => RightUnlessChanged'
    BY DEF RightUnlessChanged
  <2> QED BY <1>5, <2>1
<1> QED BY <1>2, <1>3, <1>5, <1>6 DEF RightInv

\* What is near is inside of any set that no link leads out of.
LEMMA NearClosed ==
  ASSUME Asked, NEW T, query.from \in T, \A n \in T : Nexts(n) \subseteq T, NEW d \in Nat
  PROVE  Near(d) \subseteq T
<1>1. ASSUME NEW l \in Ways, l[1] \in T
      PROVE  l[2] \in T
  <2>1. l \in tables.nodes \X tables.nodes
    BY LinksEnds DEF Asked, Ways
  <2>2. l = <<l[1], l[2]>> /\ l[2] \in tables.nodes
    BY <2>1
  <2>3. l[2] \in Nexts(l[1])
    BY <2>2 DEF Nexts
  <2> QED BY <1>1, <2>3
<1>2. Image(Ways, T) \subseteq T
  BY <1>1 DEF Image
<1> QED BY <1>2, WithinClosed DEF Near

\* With an empty queue nothing leads out of what has been visited.
LEMMA AnswerRight ==
  ASSUME RightInv, PathInv', Answer
  PROVE  RightInv'
<1>1. /\ pc = "pop" /\ queue = <<>> /\ pc' = "answered"
      /\ UNCHANGED <<tables, store, query, visited, found, truncated, answer, changes>>
  BY DEF Answer
<1>2. /\ Question' /\ Clean' = Clean /\ changes' \in Nat /\ Seeking' = Seeking
      /\ Asked
  BY <1>1, Same DEF RightInv, Question, Asked, PathInv, Grounded
<1>3. Fresh' /\ Running'
  BY <1>1 DEF Fresh, Running
<1>4. Tips(queue) = {} /\ Opened = {}
  BY <1>1 DEF Tips, Opened
<1>5. Links(tables', query'.direction) = Ways
  BY <1>1 DEF Ways
<1>6. ASSUME changes = 0, Clean, Seeking
      PROVE  /\ answer = <<>>
             /\ ~ truncated => query.to \notin Within(Ways, query.from, Cardinality(tables.nodes))
  <2>1. Walking /\ PathRun
    BY <1>1, <1>6 DEF RightInv, Running
  <2>2. answer = <<>>
    BY <1>1, <1>6 DEF RightInv, PathInv, Led, Trails
  <2>3. ASSUME ~ truncated
        PROVE  query.to \notin Within(Ways, query.from, Cardinality(tables.nodes))
    <3>1. /\ query.from \in visited /\ query.to \notin visited /\ Covered(queue, visited, {})
          /\ Cardinality(visited) < query.max_nodes
      BY <1>4, <2>1, <2>3 DEF PathRun
    <3>2. IsFiniteSet(tables.nodes) /\ visited \subseteq tables.nodes
      BY <1>2, <2>1, NextsFinite DEF Walking
    <3>3. IsFiniteSet(visited) /\ Cardinality(visited) \in Nat /\ Cardinality(tables.nodes) \in Nat
      BY <3>2, FS_Subset, FS_CardinalityType
    <3>4. ASSUME NEW n \in visited
          PROVE  Nexts(n) \subseteq visited
      <4>1. \/ Nexts(n) \subseteq visited
            \/ Cardinality(Nexts(n) \cap visited) >= query.max_nodes
        BY <1>4, <3>1 DEF Covered
      <4> DEFINE some == Nexts(n) \cap visited
      <4>2. IsFiniteSet(some) /\ Cardinality(some) <= Cardinality(visited)
        BY <3>3, FS_Subset
      <4>3. Cardinality(some) \in Nat
        BY <4>2, FS_CardinalityType
      <4>4. query.max_nodes \in Nat
        BY <1>2 DEF Asked
      <4> HIDE DEF some
      <4>5. ~ (Cardinality(some) >= query.max_nodes)
        BY <3>1, <3>3, <4>2, <4>3, <4>4
      <4> QED BY <4>1, <4>5 DEF some
    <3>5. Near(Cardinality(tables.nodes)) \subseteq visited
      BY <1>2, <3>1, <3>3, <3>4, NearClosed
    <3> QED BY <3>1, <3>5 DEF Near
  <2> QED BY <2>2, <2>3
<1>7. ASSUME changes = 0, Clean, ~ Seeking
      PROVE  /\ found \subseteq Within(Ways, query.from, query.max_depth)
             /\ ~ truncated => found = Within(Ways, query.from, query.max_depth)
  <2>1. ImpactRun
    BY <1>1, <1>7 DEF RightInv, Running
  <2>2. found \subseteq Near(query.max_depth) /\ query.from \in found /\ visited \subseteq found
    BY <2>1 DEF ImpactRun
  <2>3. ASSUME ~ truncated
        PROVE  Near(query.max_depth) \subseteq found
    <3>1. PICK d \in Nat : Level(d, queue, visited, {}, FALSE) /\ Held(d, queue, visited, found)
      BY <1>4, <2>1, <2>3 DEF ImpactRun
    <3>2. query.max_depth \in Nat
      BY <1>2 DEF Asked
    <3>3. CASE d >= query.max_depth
      <4>1. query.max_depth \in 0 .. d
        BY <3>2, <3>3
      <4>2. Near(query.max_depth) \subseteq Near(d)
        BY <4>1, WithinGrows DEF Near
      <4> QED BY <3>1, <4>2 DEF Held
    <3>4. CASE ~ (d >= query.max_depth)
      <4>1. found = visited
        BY <1>4, <2>2, <3>1, <3>4 DEF Held
      <4>2. \A n \in visited : Nexts(n) \subseteq visited
        BY <1>1, <1>4, <3>1, <3>4 DEF Level, Flat
      <4> QED BY <1>2, <2>2, <3>2, <4>1, <4>2, NearClosed
    <3> QED BY <3>3, <3>4
  <2> QED BY <2>2, <2>3 DEF Near
<1>8. RightUnlessChanged'
  <2> SUFFICES ASSUME changes = 0, Clean
               PROVE  RightUnlessChanged'
    BY <1>1, <1>2 DEF RightUnlessChanged
  <2>1. CASE Seeking
    BY <1>1, <1>5, <1>6, <2>1 DEF RightUnlessChanged, Seeking
  <2>2. CASE ~ Seeking
    BY <1>1, <1>5, <1>7, <2>2 DEF RightUnlessChanged, Seeking
  <2> QED BY <2>1, <2>2
<1> QED BY <1>2, <1>3, <1>8 DEF RightInv

\* One walk more for each of a list of neighbours.
LEMMA MoreWalks ==
  ASSUME Asked, NEW p \in Walks, Len(p) <= query.max_depth, NEW list \in Seq(tables.nodes),
         ToSet(list) \subseteq Nexts(Last(p))
  PROVE  LET more == [i \in 1 .. Len(list) |-> Append(p, list[i])] IN
         more \in Seq(Walks) /\ Flat(more, Len(p)) /\ Tips(more) = ToSet(list)
<1> DEFINE more == [i \in 1 .. Len(list) |-> Append(p, list[i])]
<1>1. /\ p \in Seq(tables.nodes) \ {<<>>} /\ p[1] = query.from /\ IsPath(p, Ways)
      /\ query.max_depth \in Nat
  BY DEF Walks, Asked
<1>2. DOMAIN list = 1 .. Len(list) /\ Len(list) \in Nat
  OBVIOUS
<1>3. ASSUME NEW i \in 1 .. Len(list)
      PROVE  /\ Append(p, list[i]) \in Walks /\ Len(Append(p, list[i])) = Len(p) + 1
             /\ Last(Append(p, list[i])) = list[i]
  <2> DEFINE x == list[i]
             longer == Append(p, x)
  <2>1. x \in tables.nodes /\ <<Last(p), x>> \in Ways
    BY <1>2 DEF ToSet, Nexts
  <2> HIDE DEF x
  <2>2. longer \in Seq(tables.nodes) \ {<<>>} /\ longer[1] = p[1] /\ IsPath(longer, Ways)
    BY <1>1, <2>1, Extended
  <2>3. Len(longer) = Len(p) + 1 /\ longer[Len(p) + 1] = x
    BY <1>1, <2>1
  <2>4. Len(longer) <= query.max_depth + 1
    <3>1. Len(p) \in Nat
      BY <1>1
    <3> HIDE DEF longer
    <3> QED BY <1>1, <2>3, <3>1
  <2> HIDE DEF longer
  <2>5. longer \in Walks
    BY <1>1, <2>2, <2>4 DEF Walks
  <2>6. Last(longer) = x
    BY <2>3 DEF Last
  <2> QED BY <2>3, <2>5, <2>6 DEF longer, x
<1>4. more \in Seq(Walks) /\ DOMAIN more = DOMAIN list
  BY <1>2, <1>3
<1>5. \A i \in DOMAIN list : Len(more[i]) = Len(p) + 1 /\ Last(more[i]) = list[i]
  BY <1>2, <1>3
<1> HIDE DEF more
<1>6. Flat(more, Len(p))
  BY <1>4, <1>5 DEF Flat
<1>7. Tips(more) = ToSet(list)
  BY <1>4, <1>5 DEF Tips, ToSet
<1> QED BY <1>4, <1>6, <1>7 DEF more

\* What there is room for.
LEMMA KeptFacts ==
  ASSUME NEW S, NEW new \in Seq(S), NEW limit \in Int
  PROVE  LET kept == FirstOf(new, limit) IN
         /\ kept \in Seq(S) /\ ToSet(kept) \subseteq ToSet(new)
         /\ IF limit >= 0 THEN Len(kept) <= limit ELSE kept = <<>>
         /\ Len(kept) < Len(new) \/ kept = new
<1> DEFINE kept == FirstOf(new, limit)
<1>1. /\ kept \in Seq(S) /\ Len(kept) <= Len(new) /\ Len(new) \in Nat
      /\ \A k \in DOMAIN kept : k \in DOMAIN new /\ kept[k] = new[k]
      /\ limit >= 0 => Len(kept) <= limit
  BY FirstOfFacts
<1>2. ~ (limit >= 0) => kept = <<>>
  BY DEF FirstOf
<1> HIDE DEF kept
<1>3. Len(kept) < Len(new) \/ kept = new
  <2> SUFFICES ASSUME ~ (Len(kept) < Len(new))
               PROVE  kept = new
    OBVIOUS
  <2>1. Len(kept) = Len(new) /\ Len(kept) \in Nat
    BY <1>1
  <2>2. kept = [i \in 1 .. Len(kept) |-> kept[i]] /\ new = [i \in 1 .. Len(new) |-> new[i]]
        /\ DOMAIN kept = 1 .. Len(kept)
    BY <1>1
  <2> QED BY <1>1, <2>1, <2>2
<1>4. ToSet(kept) \subseteq ToSet(new)
  BY <1>1 DEF ToSet
<1> QED BY <1>1, <1>2, <1>3, <1>4 DEF kept

\* What is near is a node.
LEMMA NearNodes ==
  ASSUME Asked, Present(query.from), NEW d \in Nat
  PROVE  Near(d) \subseteq tables.nodes
<1>1. query.from \in tables.nodes /\ \A n \in tables.nodes : Nexts(n) \subseteq tables.nodes
  BY DEF Present, Nexts
<1> QED BY <1>1, NearClosed

\* The neighbours of the open node make walks, for the search for a path
LEMMA LookUpPath ==
  ASSUME Asked, Clean, Walking, PathRun, Seeking, query.direction = "callees",
         LookUp, UNCHANGED <<tables, store, query>>
  PROVE  Walking' /\ PathRun'
<1> DEFINE n == Last(path)
<1>1. /\ pc = "look up" /\ pc' = "pop" /\ UNCHANGED <<visited, truncated>>
  BY DEF LookUp, Seeking
<1>2. PICK neighbors \in Neighbors :
        queue' = queue \o [i \in 1 .. Len(neighbors) |-> Append(path, neighbors[i])]
  BY DEF LookUp, Seeking
<1>3. /\ Present(query.from) /\ queue \in Seq(Walks) /\ visited \subseteq tables.nodes
      /\ path \in Walks /\ Len(path) <= query.max_depth
      /\ n \in visited /\ n \in tables.nodes
      /\ rows \in StoreNeighbors(n, query.direction, query.max_nodes)
  BY <1>1 DEF Walking, Replies
<1>4. neighbors \in IF rows # <<>> THEN {StillPresent(rows)} ELSE SqlNeighbors(n, query.direction)
  BY <1>2 DEF Neighbors
<1>5. Opened = {n} /\ Stuck = FALSE /\ Opened' = {} /\ Stuck' \in BOOLEAN
  BY <1>1 DEF Opened, Stuck
<1> HIDE DEF n
<1>6. /\ neighbors \in Seq(tables.nodes) /\ ToSet(neighbors) \subseteq Nexts(n)
      /\ \/ ToSet(neighbors) = Nexts(n)
         \/ /\ query.max_nodes > 0 /\ Cardinality(ToSet(neighbors)) = query.max_nodes
            /\ store # None /\ Cardinality(Nexts(n)) > query.max_nodes
  BY <1>3, <1>4, Answers
<1> DEFINE more == [i \in 1 .. Len(neighbors) |-> Append(path, neighbors[i])]
<1>7. more \in Seq(Walks) /\ Flat(more, Len(path)) /\ Tips(more) = ToSet(neighbors)
  BY <1>3, <1>6, MoreWalks DEF n
<1>8. queue' = queue \o more
  BY <1>2
<1> HIDE DEF more
<1>9. queue' \in Seq(Walks) /\ Tips(queue') = Tips(queue) \cup ToSet(neighbors)
  <2>1. 0 \in Nat
    OBVIOUS
  <2> QED BY <1>3, <1>7, <1>8, <2>1, ConcatPlaces, MoreTips
<1>10. Walking'
  BY <1>1, <1>3, <1>9, WalkingNext
<1>11. \/ truncated'
       \/ /\ query.from \in visited' \cup Tips(queue') /\ Covered(queue', visited', Opened')
          /\ visited' = {} \/ Cardinality(visited') < query.max_nodes
  <2> SUFFICES ASSUME ~ truncated
               PROVE  /\ query.from \in visited \cup Tips(queue') /\ Covered(queue', visited, {})
                      /\ visited = {} \/ Cardinality(visited) < query.max_nodes
    BY <1>1, <1>5
  <2>1. /\ query.from \in visited \cup Tips(queue) /\ Covered(queue, visited, {n})
        /\ visited = {} \/ Cardinality(visited) < query.max_nodes
    BY <1>5 DEF PathRun
  <2> DEFINE known == visited \cup Tips(queue')
  <2>2. Covered(queue', visited, {n})
    BY <1>9, <2>1, CoveredStill
  <2>3. Nexts(n) \subseteq known \/ Cardinality(Nexts(n) \cap known) >= query.max_nodes
    <3> SUFFICES ASSUME Cardinality(ToSet(neighbors)) = query.max_nodes
                 PROVE  Cardinality(Nexts(n) \cap known) >= query.max_nodes
      BY <1>6, <1>9
    <3> DEFINE some == Nexts(n) \cap known
    <3>1. ToSet(neighbors) \subseteq some
      BY <1>6, <1>9
    <3>2. IsFiniteSet(some)
      BY NextsFinite, FS_Subset
    <3> HIDE DEF some
    <3>3. /\ Cardinality(ToSet(neighbors)) <= Cardinality(some)
          /\ Cardinality(some) \in Nat /\ query.max_nodes \in Nat
      BY <3>1, <3>2, FS_Subset, FS_CardinalityType DEF Asked
    <3> QED BY <3>3 DEF some
  <2>4. Covered(queue', visited, {})
    BY <2>2, <2>3 DEF Covered
  <2> QED BY <1>9, <2>1, <2>4
<1>12. Unlimited => \E d \in Nat : /\ Level(d, queue', visited', Opened', Stuck')
                                   /\ pc' = "look up" => Len(path') = d + 1
  <2> SUFFICES ASSUME Unlimited
               PROVE  \E d \in Nat : Level(d, queue', visited, {}, Stuck')
    BY <1>1, <1>5
  <2>1. PICK d \in Nat : Level(d, queue, visited, {n}, FALSE) /\ Len(path) = d + 1
    BY <1>1, <1>5 DEF PathRun
  <2>2. Nexts(n) = ToSet(neighbors)
    <3>1. Nexts(n) = SqlCallees(n)
      BY <1>3, NextsFacts
    <3>2. store = None \/ Cardinality(Nexts(n)) <= query.max_nodes
      BY <1>3, <3>1 DEF Unlimited
    <3>3. Cardinality(Nexts(n)) \in Nat /\ query.max_nodes \in Nat
      BY NextsFinite, FS_CardinalityType DEF Asked
    <3> QED BY <1>6, <3>2, <3>3
  <2>3. Level(d, queue \o more, visited, {}, FALSE)
    <3>1. Nexts(n) \subseteq visited \cup Tips(queue \o more)
      BY <1>8, <1>9, <2>2
    <3>2. Flat(more, d + 1)
      BY <1>7, <2>1
    <3> QED BY <1>3, <1>7, <2>1, <3>1, <3>2, Learned
  <2>4. Level(d, queue', visited, {}, Stuck')
    BY <1>5, <1>8, <2>3, Weakened
  <2> QED BY <2>4
<1>13. PathRun'
  <2>1. query.to \notin visited'
    BY <1>1 DEF PathRun
  <2> QED BY <1>11, <1>12, <2>1, PathRunNext
<1> QED BY <1>10, <1>13

\* and for the impact graph, as far as there is room.
LEMMA LookUpImpact ==
  ASSUME Asked, Clean, Walking, ImpactRun, ~ Seeking,
         LookUp, UNCHANGED <<tables, store, query>>
  PROVE  Walking' /\ ImpactRun'
<1> DEFINE n == Last(path)
           New(list) == Distinct(list, found)
           limit == query.max_nodes - Cardinality(found)
           Kept(list) == FirstOf(New(list), limit)
<1>1. pc = "look up" /\ pc' = "pop" /\ UNCHANGED visited
  BY DEF LookUp
<1>2. PICK neighbors \in Neighbors : AddImpact(neighbors)
  BY DEF LookUp, Seeking
<1> DEFINE new == New(neighbors)
           kept == Kept(neighbors)
<1>3. /\ found' = found \cup ToSet(kept)
      /\ queue' = queue \o [i \in 1 .. Len(kept) |-> Append(path, kept[i])]
      /\ truncated' = (truncated \/ Len(kept) < Len(new))
  BY <1>2 DEF AddImpact
<1>4. /\ Present(query.from) /\ queue \in Seq(Walks) /\ visited \subseteq tables.nodes
      /\ path \in Walks /\ Len(path) <= query.max_depth
      /\ n \in visited /\ n \in tables.nodes
      /\ rows \in StoreNeighbors(n, query.direction, query.max_nodes)
  BY <1>1 DEF Walking, Replies
<1>5. neighbors \in IF rows # <<>> THEN {StillPresent(rows)} ELSE SqlNeighbors(n, query.direction)
  BY <1>2 DEF Neighbors
<1>6. Opened = {n} /\ Opened' = {}
  BY <1>1 DEF Opened
<1> HIDE DEF n
<1>7. /\ neighbors \in Seq(tables.nodes) /\ ToSet(neighbors) \subseteq Nexts(n)
      /\ \/ ToSet(neighbors) = Nexts(n)
         \/ /\ n \notin ToSet(neighbors)
            /\ query.max_nodes > 0 /\ Cardinality(ToSet(neighbors)) = query.max_nodes
  BY <1>4, <1>5, Answers
<1>8. /\ query.from \in found /\ found \subseteq Near(query.max_depth)
      /\ Cardinality(found) <= Room /\ visited \cup Tips(queue) \subseteq found
  BY DEF ImpactRun
<1>9. query.max_depth \in Nat /\ query.max_nodes \in Nat
  BY DEF Asked
<1>10. IsFiniteSet(found) /\ Cardinality(found) \in Nat
  <2>1. found \subseteq tables.nodes
    BY <1>4, <1>8, <1>9, NearNodes
  <2> QED BY <2>1, NextsFinite, FS_Subset, FS_CardinalityType
<1>11. new \in Seq(tables.nodes) /\ ToSet(new) = ToSet(neighbors) \ found
  BY <1>7, DistinctFacts
<1>12. limit \in Int
  BY <1>9, <1>10
<1> HIDE DEF New, limit
<1>13. /\ kept \in Seq(tables.nodes) /\ ToSet(kept) \subseteq ToSet(new)
       /\ IF limit >= 0 THEN Len(kept) <= limit ELSE kept = <<>>
       /\ Len(kept) < Len(new) \/ kept = new
  BY <1>11, <1>12, KeptFacts
<1> HIDE DEF Kept
<1>14. ToSet(kept) \subseteq Nexts(n)
  BY <1>7, <1>11, <1>13
<1> DEFINE more == [i \in 1 .. Len(kept) |-> Append(path, kept[i])]
<1>15. more \in Seq(Walks) /\ Flat(more, Len(path)) /\ Tips(more) = ToSet(kept)
  BY <1>4, <1>13, <1>14, MoreWalks DEF n
<1>16. queue' = queue \o more
  BY <1>3
<1> HIDE DEF more
<1>17. queue' \in Seq(Walks) /\ Tips(queue') = Tips(queue) \cup ToSet(kept)
  <2>1. 0 \in Nat
    OBVIOUS
  <2> QED BY <1>4, <1>15, <1>16, <2>1, ConcatPlaces, MoreTips
<1>18. Walking'
  BY <1>1, <1>4, <1>17, WalkingNext
<1>19. found' \subseteq Near(query.max_depth)
  <2>1. /\ path \in Seq(tables.nodes) \ {<<>>} /\ path[1] = query.from /\ IsPath(path, Ways)
        /\ Len(path) \in Nat /\ Len(path) >= 1
    BY <1>4 DEF Walks
  <2>2. n \in Near(Len(path) - 1)
    BY <2>1, WithinPath DEF Near, n
  <2> DEFINE d == Len(path) - 1
  <2>3. d \in Nat /\ d + 1 = Len(path) /\ d + 1 \in 0 .. query.max_depth
    BY <1>4, <1>9, <2>1
  <2> HIDE DEF d
  <2>4. Nexts(n) \subseteq Near(d + 1)
    <3>1. Near(d + 1) = Near(d) \cup Image(Ways, Near(d))
      BY <2>3, WithinSteps, ZenonT(60) DEF Near
    <3>2. n \in Near(d)
      BY <2>2 DEF d
    <3>3. ASSUME NEW m \in Nexts(n)
          PROVE  m \in Image(Ways, Near(d))
      <4> DEFINE l == <<n, m>>
      <4>1. l \in Ways /\ l[1] = n /\ l[2] = m
        BY DEF Nexts
      <4> HIDE DEF l
      <4> QED BY <3>2, <4>1 DEF Image
    <3> QED BY <3>1, <3>3
  <2>5. Near(d + 1) \subseteq Near(query.max_depth)
    BY <1>9, <2>3, WithinGrows DEF Near
  <2> QED BY <1>3, <1>8, <1>14, <2>4, <2>5
<1>20. IsFiniteSet(found') /\ Cardinality(found') \in Nat /\ Cardinality(found') <= Room
  <2>1. IsFiniteSet(ToSet(kept)) /\ Cardinality(ToSet(kept)) <= Len(kept)
        /\ Cardinality(ToSet(kept)) \in Nat /\ Len(kept) \in Nat
    BY <1>13, PlacesCount, FS_CardinalityType
  <2>2. IsFiniteSet(found') /\ Cardinality(found') <= Cardinality(found) + Cardinality(ToSet(kept))
    <3> DEFINE both == found \cap ToSet(kept)
    <3>1. /\ IsFiniteSet(found \cup ToSet(kept))
          /\ Cardinality(found \cup ToSet(kept)) =
               Cardinality(found) + Cardinality(ToSet(kept)) - Cardinality(both)
      BY <1>10, <2>1, FS_Union
    <3>2. Cardinality(both) \in Nat
      BY <1>10, FS_Subset, FS_CardinalityType
    <3> HIDE DEF both
    <3> QED BY <1>3, <1>10, <2>1, <3>1, <3>2
  <2>3. Cardinality(found') \in Nat
    BY <2>2, FS_CardinalityType
  <2>4. CASE limit >= 0
    <3>1. Cardinality(found) + Len(kept) <= query.max_nodes
      BY <1>9, <1>10, <1>13, <2>1, <2>4 DEF limit
    <3>2. Cardinality(found') <= query.max_nodes /\ query.max_nodes <= Room
      BY <1>9, <1>10, <2>1, <2>2, <2>3, <3>1 DEF Room
    <3>3. Room \in Nat
      BY <1>9 DEF Room
    <3> QED BY <1>9, <2>2, <2>3, <3>2, <3>3
  <2>5. CASE ~ (limit >= 0)
    <3>1. ToSet(kept) = {}
      BY <1>13, <2>5 DEF ToSet
    <3>2. found' = found
      BY <1>3, <3>1
    <3> QED BY <1>8, <1>10, <3>2
  <2> QED BY <2>2, <2>3, <2>4, <2>5
<1>21. visited' \cup Tips(queue') \subseteq found'
  BY <1>1, <1>3, <1>8, <1>17
<1>22. ASSUME ~ truncated'
       PROVE  \E d \in Nat : /\ Level(d, queue', visited', Opened', FALSE)
                             /\ Held(d, queue', visited', found')
                             /\ pc' = "look up" => Len(path') = d + 1
  <2>1. ~ truncated /\ kept = new
    BY <1>3, <1>13, <1>22
  <2>2. ToSet(neighbors) \subseteq found' /\ n \in found'
    BY <1>3, <1>4, <1>8, <1>11, <2>1
  <2>3. ToSet(neighbors) = Nexts(n)
    <3> SUFFICES ASSUME n \notin ToSet(neighbors), query.max_nodes > 0,
                        Cardinality(ToSet(neighbors)) = query.max_nodes
                 PROVE  FALSE
      BY <1>7
    <3>1. IsFiniteSet(ToSet(neighbors))
      BY <1>7, PlacesCount
    <3> DEFINE all == ToSet(neighbors) \cup {n}
    <3>2. Cardinality(all) = query.max_nodes + 1
      BY <3>1, FS_AddElement
    <3>3. Cardinality(all) <= Cardinality(found')
      BY <1>20, <2>2, FS_Subset
    <3> HIDE DEF all
    <3>4. Room = query.max_nodes
      BY <1>9 DEF Room
    <3> QED BY <1>9, <1>20, <3>2, <3>3, <3>4
  <2>4. PICK d \in Nat : /\ Level(d, queue, visited, {n}, FALSE) /\ Held(d, queue, visited, found)
                         /\ Len(path) = d + 1
    BY <1>1, <1>6, <2>1 DEF ImpactRun
  <2>5. ~ (d >= query.max_depth)
    BY <1>4, <1>9, <2>4
  <2>6. found \subseteq visited \cup Tips(queue) /\ Near(d) \subseteq found
    BY <2>4, <2>5 DEF Held
  <2>7. found' \subseteq visited \cup Tips(queue')
    BY <1>3, <1>17, <2>6
  <2>8. Level(d, queue \o more, visited, {}, FALSE)
    <3>1. Nexts(n) \subseteq visited \cup Tips(queue \o more)
      BY <1>16, <2>2, <2>3, <2>7
    <3>2. Flat(more, d + 1)
      BY <1>15, <2>4
    <3> QED BY <1>4, <1>15, <2>4, <3>1, <3>2, Learned
  <2>9. Held(d, queue', visited', found')
    BY <1>1, <1>3, <2>6, <2>7 DEF Held
  <2> QED BY <1>1, <1>6, <1>16, <2>8, <2>9
<1>23. ImpactRun'
  <2>1. query.from \in found'
    BY <1>3, <1>8
  <2> QED BY <1>19, <1>20, <1>21, <1>22, <2>1, ImpactRunNext
<1> QED BY <1>18, <1>23

\* A look-up keeps the invariant.
LEMMA LookUpRight ==
  ASSUME RightInv, PathInv', LookUp
  PROVE  RightInv'
<1>1. /\ pc = "look up" /\ pc' = "pop"
      /\ UNCHANGED <<tables, store, query, answer, changes>>
  BY DEF LookUp
<1>2. /\ Question' /\ Clean' = Clean /\ changes' \in Nat /\ Seeking' = Seeking
      /\ Asked
  BY <1>1, Same DEF RightInv, Question, Asked, PathInv, Grounded
<1>3. RightUnlessChanged' /\ Fresh'
  BY <1>1 DEF RightUnlessChanged, Fresh
<1>4. changes' = 0 /\ Clean' => Running'
  <2> SUFFICES ASSUME changes = 0, Clean
               PROVE  Running'
    BY <1>1, <1>2
  <2>1. Walking /\ (Seeking => PathRun) /\ (~ Seeking => ImpactRun)
    BY <1>1 DEF RightInv, Running
  <2>2. ASSUME Seeking
        PROVE  Walking' /\ PathRun'
    <3>1. query.direction = "callees"
      BY <2>2 DEF RightInv, PathInv, Grounded
    <3> QED BY <1>1, <1>2, <2>1, <2>2, <3>1, LookUpPath
  <2>3. ASSUME ~ Seeking
        PROVE  Walking' /\ ImpactRun'
    BY <1>1, <1>2, <2>1, <2>3, LookUpImpact
  <2> QED BY <1>1, <1>2, <2>2, <2>3 DEF Running
<1> QED BY <1>2, <1>3, <1>4 DEF RightInv

\* So does every step.
LEMMA RightStep == RightInv /\ [Next]_vars => RightInv'
<1> SUFFICES ASSUME RightInv, [Next]_vars
             PROVE  RightInv'
  OBVIOUS
<1>1. PathInv'
  BY PathStep DEF RightInv
<1>2. CASE Next
  <2>1. CASE QueryStep
    BY <1>1, <2>1, StartRight, PopImpactRight, PopPathRight, LookUpRight, AnswerRight DEF QueryStep
  <2>2. CASE StoreStep \/ Commit
    BY <1>1, <2>2, ChangesCount
  <2>3. CASE Open \/ Exact \/ Lexical \/ Embed \/ Unify \/ Compose \/ Deliver
    BY <1>1, <2>3, OpenRight, SearchesRight
  <2> QED BY <1>2, <2>1, <2>2, <2>3 DEF Next
<1>3. CASE UNCHANGED vars
  BY <1>1, <1>3, StutterRight
<1> QED BY <1>2, <1>3

(***************************************************************************)
(* If nothing changes and the store is clean, the answers of               *)
(* call_find_execution_path and call_get_impact_graph are right: a path is *)
(* one, within max_depth, and a shortest one if no node has more than      *)
(* max_nodes callees; no path and no "truncated" means there is none; and  *)
(* an impact graph has only what is within max_depth, and all of it unless *)
(* "truncated".                                                            *)
(***************************************************************************)
THEOREM AnswersRight == Spec => []RightUnlessChanged
<1>1. RightInv => RightUnlessChanged
  BY DEF RightInv
<1> QED BY <1>1, RightInit, RightStep, PTL DEF Spec

-----------------------------------------------------------------------------
(***************************************************************************)
(* The full-text index.                                                    *)
(***************************************************************************)
\* The greatest of finitely many numbers.
LEMMA Greatest ==
  ASSUME NEW S \in SUBSET Nat, NEW n \in Nat, \A x \in S : x <= n, S # {}
  PROVE  Max(S) \in S /\ \A x \in S : x <= Max(S)
<1> DEFINE T == {n - x : x \in S}
<1>1. T \in SUBSET Nat /\ T # {}
  <2>1. \A x \in S : n - x \in Nat
    OBVIOUS
  <2> QED BY <2>1
<1>2. PICK y \in T : \A z \in T : y <= z
  <2> HIDE DEF T
  <2> QED BY <1>1, Least
<1>3. PICK x \in S : y = n - x
  OBVIOUS
<1>4. \A z \in S : x >= z
  <2> SUFFICES ASSUME NEW z \in S
               PROVE  x >= z
    OBVIOUS
  <2>1. n - x <= n - z /\ x \in Nat /\ z \in Nat
    BY <1>2, <1>3
  <2> QED BY <2>1
<1>5. Max(S) \in S /\ \A z \in S : Max(S) >= z
  BY <1>4 DEF Max
<1> QED BY <1>5

LEMMA Bounded ==
  ASSUME NEW S \in SUBSET Nat, IsFiniteSet(S)
  PROVE  \E n \in Nat : \A x \in S : x <= n
<1>1. PICK s \in Seq(S) : \A x \in S : \E i \in 1 .. Len(s) : s[i] = x
  BY DEF IsFiniteSet
<1> DEFINE I == {k \in Nat : k <= Len(s) => \E n \in Nat : \A i \in 1 .. k : s[i] <= n}
<1>2. 0 \in I
  OBVIOUS
<1>3. ASSUME NEW k \in I
      PROVE  k + 1 \in I
  <2> SUFFICES ASSUME k + 1 <= Len(s)
               PROVE  \E n \in Nat : \A i \in 1 .. k + 1 : s[i] <= n
    OBVIOUS
  <2>1. PICK n \in Nat : \A i \in 1 .. k : s[i] <= n
    OBVIOUS
  <2>2. s[k + 1] \in Nat /\ \A i \in 1 .. k : s[i] \in Nat
    <3>1. Len(s) \in Nat /\ \A i \in 1 .. Len(s) : s[i] \in S
      OBVIOUS
    <3>2. k + 1 \in 1 .. Len(s) /\ \A i \in 1 .. k : i \in 1 .. Len(s)
      BY <3>1
    <3> QED BY <3>1, <3>2
  <2>3. \A i \in 1 .. k + 1 : i = k + 1 \/ i \in 1 .. k
    OBVIOUS
  <2> DEFINE more == s[k + 1]
  <2>4. n + more \in Nat /\ more <= n + more /\ \A i \in 1 .. k : s[i] <= n + more
    <3> HIDE DEF more
    <3> QED BY <2>1, <2>2 DEF more
  <2>5. \A i \in 1 .. k + 1 : s[i] <= n + more
    BY <2>3, <2>4
  <2> QED BY <2>4, <2>5
<1>4. Len(s) \in I
  <2>1. I \in SUBSET Nat /\ Len(s) \in Nat
    OBVIOUS
  <2> HIDE DEF I
  <2> QED BY <1>2, <1>3, <2>1, Induction
<1>5. PICK n \in Nat : \A i \in 1 .. Len(s) : s[i] <= n
  BY <1>4
<1> QED BY <1>1, <1>5

\* The index (rowids, postings, haunted) is that of the nodes N of which M match.
Indexes(r, p, h, N, M) ==
  /\ r \in [N -> Nat] /\ \A n, m \in N : r[n] = r[m] => n = m
  /\ p \in SUBSET Nat /\ h \in SUBSET Nat /\ IsFiniteSet(h)
  /\ \A n \in M : r[n] \in p
  /\ \A id \in p : id \in h \/ \E n \in M : r[n] = id

LEMMA Deleted ==
  ASSUME NEW r, NEW p, NEW h, NEW N, NEW v, v.matching \subseteq N,
         Indexes(r, p, h, N, v.matching), NEW gone \in SUBSET N
  PROVE  \E r1, p1 :
           /\ DeleteAll([rowid |-> r, postings |-> p, haunted |-> h], gone, v)
                = [rowid |-> r1, postings |-> p1, haunted |-> h]
           /\ Indexes(r1, p1, h, N \ gone, v.matching \ gone)
<1> DEFINE M == v.matching
           before == [rowid |-> r, postings |-> p, haunted |-> h]
           r1 == [n \in N \ gone |-> r[n]]
           p1 == p \ {r[n] : n \in gone \cap M}
           fts == DeleteAll(before, gone, v)
<1>1. DOMAIN r = N
  BY DEF Indexes
<1>2. fts = [rowid |-> r1, postings |-> p1, haunted |-> h]
  BY <1>1 DEF DeleteAll
<1>3. Indexes(r1, p1, h, N \ gone, M \ gone)
  <2>1. r1 \in [N \ gone -> Nat] /\ \A n, m \in N \ gone : r1[n] = r1[m] => n = m
    BY DEF Indexes
  <2>2. p1 \in SUBSET Nat /\ h \in SUBSET Nat /\ IsFiniteSet(h)
    BY DEF Indexes
  <2>3. \A n \in M \ gone : r1[n] \in p1
    BY DEF Indexes
  <2>4. \A id \in p1 : id \in h \/ \E n \in M \ gone : r1[n] = id
    BY DEF Indexes
  <2> QED BY <2>1, <2>2, <2>3, <2>4 DEF Indexes
<1> HIDE DEF r1, p1, fts
<1> QED BY <1>2, <1>3 DEF fts

LEMMA Inserted ==
  ASSUME NEW r, NEW p, NEW h, NEW N, IsFiniteSet(N), NEW M \in SUBSET N, Indexes(r, p, h, N, M),
         NEW w, w.written \in Seq(w.nodes), w.matching \subseteq w.nodes, N \subseteq w.nodes,
         w.nodes \subseteq N \cup ToSet(w.written),
         w.matching \ ToSet(w.written) = M \ ToSet(w.written)
  PROVE  LET fts == InsertAll([rowid |-> r, postings |-> p, haunted |-> h], w) IN
         Indexes(fts.rowid, fts.postings, fts.haunted, w.nodes, w.matching) /\ h \subseteq fts.haunted
<1> DEFINE before == [rowid |-> r, postings |-> p, haunted |-> h]
           top == Max(Range(r) \cup {0})
           W == ToSet(w.written)
           places(n) == {i \in DOMAIN w.written : w.written[i] = n}
           last == [n \in W |-> Max(places(n))]
           added == {top + i : i \in {j \in DOMAIN w.written : w.written[j] \in w.matching}}
           replaced == {r[n] : n \in N \cap W} \cup {top + i : i \in DOMAIN w.written \ Range(last)}
           r1 == [n \in N \cup W |-> IF n \in W THEN top + last[n] ELSE r[n]]
           p1 == p \cup added
           h1 == h \cup (replaced \cap p1)
<1>1. DOMAIN r = N /\ \A n \in N : r[n] \in Nat
  BY DEF Indexes
<1>2. InsertAll(before, w) = [rowid |-> r1, postings |-> p1, haunted |-> h1]
  BY <1>1 DEF InsertAll
<1>3. N \cup W = w.nodes
  BY DEF ToSet
<1>4. top \in Nat /\ \A n \in N : r[n] <= top
  <2> DEFINE S == Range(r) \cup {0}
  <2>1. S \in SUBSET Nat /\ 0 \in S /\ \A n \in N : r[n] \in S
    BY <1>1 DEF Range
  <2>2. IsFiniteSet(Range(r))
    <3>1. r \in Surjection(N, Range(r))
      BY <1>1 DEF Surjection, Range, Indexes
    <3> QED BY <3>1, FS_Surjection
  <2>3. IsFiniteSet(S)
    BY <2>2, FS_AddElement
  <2> HIDE DEF S
  <2>4. PICK n \in Nat : \A x \in S : x <= n
    BY <2>1, <2>3, Bounded
  <2>5. Max(S) \in S /\ \A x \in S : x <= Max(S)
    BY <2>1, <2>4, Greatest
  <2> QED BY <2>1, <2>5 DEF S
<1>5. Len(w.written) \in Nat /\ DOMAIN w.written = 1 .. Len(w.written)
  OBVIOUS
<1>6. ASSUME NEW n \in W
      PROVE  last[n] \in DOMAIN w.written /\ w.written[last[n]] = n
             /\ last[n] \in Nat /\ last[n] >= 1
  <2>1. places(n) \in SUBSET Nat /\ places(n) # {} /\ \A i \in places(n) : i <= Len(w.written)
    BY <1>5 DEF ToSet
  <2>2. Max(places(n)) \in places(n)
    <3> HIDE DEF places
    <3> QED BY <1>5, <2>1, Greatest
  <2>3. last[n] = Max(places(n))
    OBVIOUS
  <2> QED BY <1>5, <2>2, <2>3
<1>7. IsFiniteSet(replaced)
  <2>1. IsFiniteSet(N \cap W) /\ IsFiniteSet(DOMAIN w.written \ Range(last))
    BY <1>5, FS_Subset, UpTo
  <2>2. ASSUME NEW S, IsFiniteSet(S), NEW f, DOMAIN f = S
        PROVE  IsFiniteSet({f[x] : x \in S})
    <3>1. f \in Surjection(S, {f[x] : x \in S}) \/ [x \in S |-> f[x]] \in Surjection(S, {f[x] : x \in S})
      BY DEF Surjection
    <3> QED BY <2>2, <3>1, FS_Surjection
  <2> DEFINE f1 == [n \in N \cap W |-> r[n]]
             f2 == [i \in DOMAIN w.written \ Range(last) |-> top + i]
  <2>3. IsFiniteSet({f1[x] : x \in N \cap W})
    <3>1. DOMAIN f1 = N \cap W
      OBVIOUS
    <3> HIDE DEF f1
    <3> QED BY <2>1, <2>2, <3>1
  <2>4. IsFiniteSet({f2[x] : x \in DOMAIN w.written \ Range(last)})
    <3>1. DOMAIN f2 = DOMAIN w.written \ Range(last)
      OBVIOUS
    <3> HIDE DEF f2
    <3> QED BY <2>1, <2>2, <3>1
  <2>5. replaced = {f1[x] : x \in N \cap W} \cup {f2[x] : x \in DOMAIN w.written \ Range(last)}
    OBVIOUS
  <2> HIDE DEF f1, f2, replaced
  <2> QED BY <2>3, <2>4, <2>5, FS_Union
<1>8. \A i \in DOMAIN w.written : i \in Nat /\ i >= 1 /\ w.written[i] \in W
  BY <1>5 DEF ToSet
<1> HIDE DEF top, W, last
<1>9. r1 \in [w.nodes -> Nat] /\ \A n, m \in w.nodes : r1[n] = r1[m] => n = m
  <2>1. \A n \in w.nodes : r1[n] \in Nat /\ n \in N \cup W
    BY <1>1, <1>3, <1>4, <1>6
  <2>2. ASSUME NEW n \in w.nodes, NEW m \in w.nodes, r1[n] = r1[m]
        PROVE  n = m
    <3>1. CASE n \in W /\ m \in W
      <4>1. top + last[n] = top + last[m]
        BY <2>1, <2>2, <3>1, <1>3
      <4>2. last[n] = last[m]
        BY <4>1, <1>4, <1>6, <3>1
      <4> QED BY <4>2, <1>6, <3>1
    <3>2. CASE n \in W /\ m \notin W
      BY <1>1, <1>3, <1>4, <1>6, <2>1, <2>2, <3>2
    <3>3. CASE n \notin W /\ m \in W
      BY <1>1, <1>3, <1>4, <1>6, <2>1, <2>2, <3>3
    <3>4. CASE n \notin W /\ m \notin W
      BY <1>3, <2>1, <2>2, <3>4 DEF Indexes
    <3> QED BY <3>1, <3>2, <3>3, <3>4
  <2>3. r1 \in [w.nodes -> Nat]
    BY <1>3, <2>1
  <2> HIDE DEF r1
  <2> QED BY <2>2, <2>3
<1>10. p1 \in SUBSET Nat /\ h1 \in SUBSET Nat /\ IsFiniteSet(h1)
  <2>1. p1 \in SUBSET Nat /\ h \in SUBSET Nat /\ IsFiniteSet(h)
    <3>1. \A i \in DOMAIN w.written : top + i \in Nat
      BY <1>4, <1>8
    <3>2. added \subseteq Nat
      BY <3>1
    <3> HIDE DEF added
    <3> QED BY <3>2 DEF Indexes
  <2>2. IsFiniteSet(replaced \cap p1)
    BY <1>7, FS_Subset
  <2>3. h1 = h \cup (replaced \cap p1)
    OBVIOUS
  <2> HIDE DEF replaced, p1, h1
  <2> QED BY <2>1, <2>2, <2>3, FS_Union
<1>11. \A n \in w.matching : r1[n] \in p1
  <2> SUFFICES ASSUME NEW n \in w.matching
               PROVE  r1[n] \in p1
    OBVIOUS
  <2>1. CASE n \in W
    BY <1>3, <1>6, <2>1
  <2>2. CASE n \notin W
    <3>1. n \in M
      BY <2>2 DEF W
    <3> QED BY <1>3, <2>2, <3>1 DEF Indexes
  <2> QED BY <2>1, <2>2
<1>12. \A id \in p1 : id \in h1 \/ \E n \in w.matching : r1[n] = id
  <2> SUFFICES ASSUME NEW id \in p1, id \notin h1
               PROVE  \E n \in w.matching : r1[n] = id
    OBVIOUS
  <2>1. id \notin h /\ id \notin replaced
    OBVIOUS
  <2>2. CASE id \in added
    <3>1. PICK i \in DOMAIN w.written : id = top + i /\ w.written[i] \in w.matching
      BY <2>2
    <3>2. i \in Range(last)
      BY <2>1, <3>1
    <3>3. PICK n \in W : i = last[n]
      BY <3>2 DEF Range, last
    <3>4. n \in w.matching
      BY <1>6, <3>1, <3>3
    <3>5. r1[n] = id
      BY <1>3, <3>1, <3>3
    <3> QED BY <3>4, <3>5
  <2>3. CASE id \in p
    <3>1. PICK n \in M : r[n] = id
      BY <2>1, <2>3 DEF Indexes
    <3>2. n \notin W
      BY <2>1, <3>1
    <3>3. n \in w.matching
      BY <3>1, <3>2 DEF W
    <3> QED BY <1>3, <3>1, <3>2, <3>3
  <2> QED BY <2>2, <2>3
<1>13. Indexes(r1, p1, h1, w.nodes, w.matching) /\ h \subseteq h1
  <2>1. h \subseteq h1
    OBVIOUS
  <2> HIDE DEF r1, p1, h1
  <2> QED BY <1>9, <1>10, <1>11, <1>12, <2>1 DEF Indexes
<1> HIDE DEF r1, p1, h1
<1> QED BY <1>2, <1>13

\* The index is that of the tables, which follow one another as an indexer writes them.
IndexInv ==
  /\ tables \in Versions /\ future \in Seq(Versions)
  /\ future # <<>> => Continues(tables, future[1])
  /\ \A i \in 1 .. Len(future) - 1 : Continues(future[i], future[i + 1])
  /\ Indexes(rowid, postings, haunted, tables.nodes, tables.matching)
  /\ always \subseteq tables.matching /\ tables.matching \subseteq ever /\ IsFiniteSet(ever)

LEMMA MatchFacts ==
  ASSUME NEW v \in Versions
  PROVE  /\ v.matching \subseteq v.nodes /\ v.written \in Seq(v.nodes)
         /\ IsFiniteSet(v.nodes) /\ IsFiniteSet(v.matching)
<1>1. v.matching \subseteq v.nodes /\ v.written \in Seq(v.nodes)
  BY SearchAssumption
<1>2. IsFiniteSet(v.nodes)
  BY VersionFacts
<1> QED BY <1>1, <1>2, FS_Subset

LEMMA IndexInit == Init => IndexInv
<1> SUFFICES ASSUME Init
             PROVE  IndexInv
  OBVIOUS
<1>1. PICK m \in Menus : \E h \in m.histories : tables = Head(h) /\ future = Tail(h)
  BY DEF Init, CodeInit
<1>2. PICK h \in m.histories : tables = Head(h) /\ future = Tail(h)
  BY <1>1
<1>3. h \in Seq(Versions) /\ h # <<>>
  BY QueryAssumption
<1> DEFINE none == [nodes |-> {}, matching |-> {}]
<1>4. Continues(none, Head(h)) /\ \A i \in 1 .. Len(h) - 1 : Continues(h[i], h[i + 1])
  BY SearchAssumption
<1>5. /\ tables \in Versions /\ future \in Seq(Versions) /\ tables = h[1]
      /\ Len(future) = Len(h) - 1 /\ Len(h) \in Nat
      /\ \A i \in 1 .. Len(future) : future[i] = h[i + 1]
  BY <1>2, <1>3
<1>6. future # <<>> => Continues(tables, future[1])
  <2>1. future # <<>> => 1 \in 1 .. Len(h) - 1 /\ 1 \in 1 .. Len(future)
    BY <1>5
  <2> QED BY <1>4, <1>5, <2>1
<1>7. \A i \in 1 .. Len(future) - 1 : Continues(future[i], future[i + 1])
  <2> SUFFICES ASSUME NEW i \in 1 .. Len(future) - 1
               PROVE  Continues(future[i], future[i + 1])
    OBVIOUS
  <2>1. i + 1 \in 1 .. Len(h) - 1 /\ i \in 1 .. Len(future) /\ i + 1 \in 1 .. Len(future)
    BY <1>5
  <2> QED BY <1>4, <1>5, <2>1
<1>8. Indexes(rowid, postings, haunted, tables.nodes, tables.matching)
  <2> DEFINE r == [n \in {} |-> 0]
             fts == InsertAll([rowid |-> r, postings |-> {}, haunted |-> {}], tables)
  <2>1. rowid = fts.rowid /\ postings = fts.postings /\ haunted = fts.haunted
    BY DEF Init, NoFts
  <2>2. Indexes(r, {}, {}, {}, {}) /\ IsFiniteSet({})
    BY FS_EmptySet DEF Indexes
  <2>3. /\ tables.written \in Seq(tables.nodes) /\ tables.matching \subseteq tables.nodes
        /\ tables.nodes \subseteq {} \cup ToSet(tables.written)
        /\ tables.matching \ ToSet(tables.written) = {} \ ToSet(tables.written)
    BY <1>2, <1>4, <1>5, MatchFacts DEF Continues
  <2> HIDE DEF r
  <2>4. Indexes(fts.rowid, fts.postings, fts.haunted, tables.nodes, tables.matching)
    BY <2>2, <2>3, Inserted, ZenonT(60)
  <2> HIDE DEF fts
  <2> QED BY <2>1, <2>4
<1>9. always = tables.matching /\ ever = tables.matching /\ IsFiniteSet(tables.matching)
  BY <1>5, MatchFacts DEF Init
<1> QED BY <1>5, <1>6, <1>7, <1>8, <1>9 DEF IndexInv

LEMMA CommitIndexes ==
  ASSUME IndexInv, Commit
  PROVE  /\ IndexInv'
         /\ haunted \subseteq haunted' /\ ever \subseteq ever' /\ always' \subseteq always
<1> DEFINE v == tables
           w == tables'
           before == [rowid |-> rowid, postings |-> postings, haunted |-> haunted]
           gone == DOMAIN rowid \ w.nodes
           middle == DeleteAll(before, gone, v)
           fts == InsertAll(middle, w)
<1>1. /\ future # <<>> /\ w = Head(future) /\ future' = Tail(future)
      /\ rowid' = fts.rowid /\ postings' = fts.postings /\ haunted' = fts.haunted
      /\ always' = always \cap w.matching /\ ever' = ever \cup w.matching
  BY DEF Commit, Reindex
<1>2. v \in Versions /\ w \in Versions /\ future' \in Seq(Versions) /\ Continues(v, w)
  BY <1>1 DEF IndexInv
<1>3. (future' # <<>> => Continues(w, future'[1]))
      /\ \A i \in 1 .. Len(future') - 1 : Continues(future'[i], future'[i + 1])
  <2>1. /\ future \in Seq(Versions) /\ w = future[1] /\ Len(future') = Len(future) - 1
        /\ \A i \in 1 .. Len(future') : future'[i] = future[i + 1]
        /\ future' # <<>> => 1 \in 1 .. Len(future')
        /\ Len(future) \in Nat
    BY <1>1, <1>2 DEF IndexInv
  <2>2. \A i \in 1 .. Len(future) - 1 : Continues(future[i], future[i + 1])
    BY DEF IndexInv
  <2>3. future' # <<>> => 1 \in 1 .. Len(future) - 1
    BY <2>1
  <2>4. \A i \in 1 .. Len(future') - 1 : /\ i + 1 \in 1 .. Len(future) - 1
                                        /\ i \in 1 .. Len(future') /\ i + 1 \in 1 .. Len(future')
    BY <2>1
  <2> QED BY <2>1, <2>2, <2>3, <2>4
<1>4. /\ v.matching \in SUBSET v.nodes /\ IsFiniteSet(v.nodes)
      /\ w.matching \subseteq w.nodes /\ w.written \in Seq(w.nodes) /\ IsFiniteSet(w.matching)
  BY <1>2, MatchFacts
<1>5. Indexes(rowid, postings, haunted, v.nodes, v.matching) /\ DOMAIN rowid = v.nodes
  BY DEF IndexInv, Indexes
<1>6. gone \in SUBSET v.nodes /\ gone = v.nodes \ w.nodes
  BY <1>5
<1> HIDE DEF gone
<1>7. PICK r, p : /\ middle = [rowid |-> r, postings |-> p, haunted |-> haunted]
                  /\ Indexes(r, p, haunted, v.nodes \ gone, v.matching \ gone)
  <2>1. PICK u : u = v
    OBVIOUS
  <2>2. u.matching \subseteq u.nodes /\ gone \in SUBSET u.nodes
        /\ Indexes(rowid, postings, haunted, u.nodes, u.matching)
    BY <1>4, <1>5, <1>6, <2>1
  <2>3. \E r, p :
          /\ DeleteAll([rowid |-> rowid, postings |-> postings, haunted |-> haunted], gone, u)
               = [rowid |-> r, postings |-> p, haunted |-> haunted]
          /\ Indexes(r, p, haunted, u.nodes \ gone, u.matching \ gone)
    BY ONLY <2>2, Deleted, ZenonT(60)
  <2> QED BY <2>1, <2>3
<1> HIDE DEF middle
<1> DEFINE N == v.nodes \ gone
           M == v.matching \ gone
<1>8. /\ IsFiniteSet(N) /\ M \in SUBSET N /\ N \subseteq w.nodes
      /\ w.nodes \subseteq N \cup ToSet(w.written)
      /\ w.matching \ ToSet(w.written) = M \ ToSet(w.written)
  <2>1. IsFiniteSet(N)
    BY <1>4, FS_Subset
  <2> QED BY <1>2, <1>4, <1>6, <2>1 DEF Continues
<1>9. Indexes(fts.rowid, fts.postings, fts.haunted, w.nodes, w.matching) /\ haunted \subseteq fts.haunted
  <2> DEFINE same == [rowid |-> r, postings |-> p, haunted |-> haunted]
  <2>1. Indexes(r, p, haunted, N, M)
    BY <1>7
  <2>2. middle = same
    BY <1>7
  <2> HIDE DEF N, M
  <2>3. LET next == InsertAll(same, w) IN
        Indexes(next.rowid, next.postings, next.haunted, w.nodes, w.matching) /\ haunted \subseteq next.haunted
    BY <1>4, <1>8, <2>1, Inserted
  <2> QED BY <2>2, <2>3
<1> HIDE DEF fts
<1>10. IsFiniteSet(ever')
  <2>1. IsFiniteSet(ever)
    BY DEF IndexInv
  <2> QED BY <1>1, <1>4, <2>1, FS_Union
<1>11. Indexes(rowid, postings, haunted, tables.nodes, tables.matching)'
  BY <1>1, <1>9 DEF Indexes
<1>12. IndexInv'
  BY <1>1, <1>2, <1>3, <1>10, <1>11 DEF IndexInv
<1> QED BY <1>1, <1>9, <1>12

\* Nobody else writes.
LEMMA IndexStep ==
  ASSUME IndexInv, [Next]_vars
  PROVE  /\ IndexInv'
         /\ haunted \subseteq haunted' /\ ever \subseteq ever' /\ always' \subseteq always
         /\ Commit \/ UNCHANGED ftsVars
<1>1. CASE Commit
  BY <1>1, CommitIndexes
<1>2. CASE ~ Commit
  <2>1. UNCHANGED <<tables, future, rowid, postings, always, ever, haunted>>
    <3>1. CASE QueryStep /\ UNCHANGED ftsVars
      BY <3>1 DEF QueryStep, Start, PopImpact, PopPath, LookUp, Answer, ftsVars
    <3>2. CASE StoreStep /\ UNCHANGED ftsVars
      BY <3>2 DEF StoreStep, Clear, Rebuild, ftsVars
    <3>3. CASE Open \/ Exact \/ Lexical \/ Embed \/ Unify \/ Compose \/ Deliver
      BY <3>3 DEF Open, Exact, Lexical, Embed, Unify, Compose, Deliver, codeVars, ftsVars
    <3>4. CASE UNCHANGED vars
      BY <3>4 DEF vars, codeVars, ftsVars
    <3> QED BY <1>2, <3>1, <3>2, <3>3, <3>4 DEF Next
  <2>2. IndexInv'
    BY <2>1 DEF IndexInv, Indexes
  <2> QED BY <2>1, <2>2 DEF ftsVars
<1> QED BY <1>1, <1>2

(***************************************************************************)
(* The full-text index has every symbol that matches.  What it has besides *)
(* are postings of rows that were replaced, which may have come to belong  *)
(* to another row since.                                                   *)
(***************************************************************************)
IndexFollows ==
  /\ \A n \in tables.matching : rowid[n] \in postings
  /\ \A id \in postings : id \in haunted \/ \E n \in tables.matching : rowid[n] = id

(***************************************************************************)
(* That is so for any histories in which whatever is new, or matches       *)
(* otherwise, is written: the triggers of nodes keep the index.            *)
(***************************************************************************)
THEOREM IndexServes == Spec => []IndexFollows
<1>1. IndexInv => IndexFollows
  BY DEF IndexInv, Indexes, IndexFollows
<1>2. IndexInv /\ [Next]_vars => IndexInv'
  BY IndexStep
<1> QED BY <1>1, <1>2, IndexInit, PTL DEF Spec

-----------------------------------------------------------------------------
(***************************************************************************)
(* Types.                                                                  *)
(***************************************************************************)
\* Whatever is asked, the store answers nodes and names.
LEMMA StoreEnds ==
  ASSUME Grounded, Question, NEW n \in Nodes,
         NEW answered \in StoreNeighbors(n, query.direction, query.max_nodes)
  PROVE  answered \in Seq(Ends)
<1>1. CASE store = None
  BY <1>1 DEF StoreNeighbors
<1>2. CASE store # None
  <2> DEFINE limit == query.max_nodes
             Good(s) == s \in Seq(Ends)
  <2>1. limit \in Int /\ IsFiniteSet(store)
    BY <1>2 DEF Grounded, Question
  <2>2. ASSUME NEW ends, IsFiniteSet(ends), \A r \in ends : r[1] \in Ends, NEW s \in Rows(ends)
        PROVE  Good(s)
    BY <2>2, RowsFacts
  <2>3. ASSUME NEW ends
        PROVE  IsFiniteSet(StoreCallees(n, ends)) /\ \A r \in StoreCallees(n, ends) : r[1] \in Ends
    <3> DEFINE those == {e \in store : e[1] = n /\ e[2] \in ends}
               row == [e \in those |-> <<e[2], e[3]>>]
    <3>1. IsFiniteSet(those)
      BY <2>1, FS_Subset
    <3>2. row \in Surjection(those, StoreCallees(n, ends))
      BY DEF StoreCallees, Surjection
    <3>3. \A r \in StoreCallees(n, ends) : r[1] \in Ends
      BY <1>2 DEF StoreCallees, Grounded
    <3> QED BY <3>1, <3>2, <3>3, FS_Surjection
  <2>4. IsFiniteSet(StoreCallers(n)) /\ \A r \in StoreCallers(n) : r[1] \in Ends
    <3> DEFINE those == {e \in store : e[2] = n}
               row == [e \in those |-> <<e[1], e[3]>>]
    <3>1. IsFiniteSet(those)
      BY <2>1, FS_Subset
    <3>2. row \in Surjection(those, StoreCallers(n))
      BY DEF StoreCallers, Surjection
    <3>3. \A r \in StoreCallers(n) : r[1] \in Ends
      BY <1>2 DEF StoreCallers, Grounded, Ends
    <3> QED BY <3>1, <3>2, <3>3, FS_Surjection
  <2>5. ASSUME NEW s, Good(s), NEW bound \in Int
        PROVE  Good(FirstOf(s, bound))
    BY <2>5, FirstOfFacts
  <2>6. ASSUME NEW s, NEW t, Good(s), Good(t)
        PROVE  Good(s \o t) /\ Len(s) \in Nat
    BY <2>6, ConcatFacts
  <2>7. ASSUME NEW s, Good(s)
        PROVE  Good(Distinct(s, {}))
    BY <2>7, DistinctFacts
  <2>8. Good(<<>>)
    OBVIOUS
  <2> DEFINE Out(a, b) == IF query.direction = "callers" THEN <<>>
                          ELSE FirstOf(a, limit) \o FirstOf(b, limit)
             More(c, out) == IF query.direction = "callees" THEN <<>>
                             ELSE FirstOf(c, limit - Len(out))
  <2>9. PICK callees \in Rows(StoreCallees(n, Nodes)), names \in Rows(StoreCallees(n, Range(NameOf))),
             callers \in Rows(StoreCallers(n)) :
          answered = FirstOf(Distinct(Out(callees, names) \o More(callers, Out(callees, names)), {}), limit)
    BY <1>2 DEF StoreNeighbors
  <2>10. Good(callees) /\ Good(names) /\ Good(callers)
    <3> HIDE DEF Good
    <3> QED BY <2>2, <2>3, <2>4
  <2> HIDE DEF Good, limit
  <2> DEFINE out == Out(callees, names)
             more == More(callers, out)
  <2>11. Good(out) /\ Len(out) \in Nat
    BY <2>1, <2>5, <2>6, <2>8, <2>10
  <2>12. Good(more)
    <3> HIDE DEF out
    <3>1. limit - Len(out) \in Int
      BY <2>1, <2>11
    <3> QED BY <2>5, <2>8, <2>10, <3>1
  <2>13. Good(answered)
    <3> HIDE DEF more, out
    <3>1. Good(FirstOf(Distinct(out \o more, {}), limit))
      BY <2>1, <2>5, <2>6, <2>7, <2>11, <2>12
    <3> QED BY <2>9, <3>1 DEF more, out
  <2> QED BY <2>13 DEF Good
<1> QED BY <1>1, <1>2

\* What is looked up are nodes.
LEMMA LookedUpNodes ==
  ASSUME tables \in Versions, query.direction \in {"callers", "callees", "both"}, rows \in Seq(Ends),
         NEW neighbors \in Neighbors
  PROVE  neighbors \in Seq(Nodes)
<1>1. tables.nodes \subseteq Nodes /\ IsFiniteSet(tables.nodes)
  BY VersionFacts
<1>2. CASE rows # <<>>
  <2> DEFINE I == {i \in DOMAIN rows : Present(rows[i])}
  <2>1. I \in SUBSET DOMAIN rows /\ neighbors = Selected(rows, I)
    BY <1>2 DEF Neighbors, StillPresent
  <2>2. \A i \in I : rows[i] \in Nodes
    BY <1>1 DEF Present
  <2> HIDE DEF I
  <2>3. /\ neighbors \in Seq(Ends)
        /\ \A k \in DOMAIN neighbors : \E i \in I : neighbors[k] = rows[i]
    BY <2>1, SelectedFacts
  <2> QED BY <2>2, <2>3, SeqAlso
<1>3. CASE rows = <<>>
  <2> DEFINE n == Last(path)
             callers == IF query.direction = "callees" THEN {} ELSE SqlCallers(n)
             callees == IF query.direction = "callers" THEN {} ELSE SqlCallees(n)
  <2>1. PICK orders \in SetToSeqs(callers) \X SetToSeqs(callees) : neighbors = orders[1] \o orders[2]
    BY <1>3 DEF Neighbors, SqlNeighbors
  <2>2. callers \subseteq tables.nodes /\ callees \subseteq tables.nodes
    BY DEF SqlCallers, SqlCallees
  <2> HIDE DEF callers, callees
  <2>3. IsFiniteSet(callers) /\ IsFiniteSet(callees) /\ callers \subseteq Nodes /\ callees \subseteq Nodes
    BY <1>1, <2>2, FS_Subset
  <2>4. orders[1] \in Seq(callers) /\ orders[2] \in Seq(callees)
    BY <2>1, <2>3, OrderFacts
  <2>5. orders[1] \in Seq(Nodes) /\ orders[2] \in Seq(Nodes)
    BY <2>3, <2>4, SeqAlso, NothingBefore
  <2> QED BY <2>1, <2>5, ConcatFacts
<1> QED BY <1>2, <1>3

\* The state of a walk, whatever has changed; a path within max_depth.
Step(s) == s \in Seq(Nodes) \ {<<>>}

CodeInv ==
  /\ pc \in {"open", "collect", "start", "pop", "look up", "answered", "not found", "panicked",
             "failed"}
  /\ queue \in Seq(Seq(Nodes) \ {<<>>})
  /\ \A i \in DOMAIN queue : Len(queue[i]) <= query.max_depth + 1
  /\ pc = "look up" => Step(path) /\ Len(path) <= query.max_depth /\ rows \in Seq(Ends)
  /\ visited \subseteq Nodes /\ found \subseteq Nodes /\ IsFiniteSet(found)
  /\ pc \in {"open", "collect", "start"} => found = {}
  /\ truncated \in BOOLEAN
  /\ Cardinality(found) <= Room
  /\ Len(answer) <= query.max_depth + 1

LEMMA RoomFacts ==
  ASSUME Question
  PROVE  /\ query.max_nodes \in Nat /\ query.max_depth \in Nat
         /\ Room \in Nat /\ Room >= 1 /\ query.max_nodes <= Room
<1> DEFINE n == query.max_nodes
<1>1. n \in Nat /\ query.max_depth \in Nat /\ Room = IF n = 0 THEN 1 ELSE n
  BY DEF Question, Room
<1> HIDE DEF n
<1>2. Room \in Nat /\ Room >= 1 /\ n <= Room
  BY <1>1
<1> QED BY <1>1, <1>2 DEF n

LEMMA WalkTypesInit == Init => CodeInv
<1> SUFFICES ASSUME Init
             PROVE  CodeInv
  OBVIOUS
<1>1. Question
  BY RightInit DEF RightInv
<1>2. Cardinality({}) = 0 /\ IsFiniteSet({})
  BY FS_EmptySet
<1>3. /\ pc \in {"open", "collect", "start"} /\ queue = <<>> /\ visited = {} /\ found = {}
      /\ truncated = FALSE /\ answer = <<>>
  BY DEF Init, CodeInit
<1>4. queue \in Seq(Seq(Nodes) \ {<<>>}) /\ DOMAIN queue = {} /\ Len(answer) = 0
  BY <1>3
<1>5. Room \in Nat /\ Room >= 1 /\ query.max_depth \in Nat
  BY <1>1, RoomFacts
<1>6. (\A i \in DOMAIN queue : Len(queue[i]) <= query.max_depth + 1) /\ Len(answer) <= query.max_depth + 1
  BY <1>4, <1>5
<1>7. Cardinality(found) <= Room /\ IsFiniteSet(found)
  BY <1>2, <1>3, <1>5
<1> QED BY <1>3, <1>4, <1>6, <1>7 DEF CodeInv

\* Steps that leave the walk alone.
LEMMA WalkTypesStay ==
  ASSUME CodeInv, UNCHANGED <<queue, visited, found, truncated, answer>>,
         query'.max_depth = query.max_depth, query'.max_nodes = query.max_nodes,
         \/ UNCHANGED <<pc, rows, path>>
         \/ pc' \in {"open", "collect", "start", "answered", "failed"} /\ pc \in {"open", "collect"}
  PROVE  CodeInv'
<1>1. Room' = Room
  BY DEF Room
<1> QED BY <1>1 DEF CodeInv, Step

LEMMA StartTypes ==
  ASSUME CodeInv, Question, tables \in Versions, Start
  PROVE  CodeInv'
<1>1. /\ pc = "start" /\ pc' \in {"pop", "not found"}
      /\ UNCHANGED <<query, visited, rows, path, truncated, answer>>
  BY DEF Start
<1>2. Room' = Room /\ Room \in Nat /\ Room >= 1 /\ query.max_depth \in Nat
  <2>1. Room' = Room
    BY <1>1 DEF Room
  <2> QED BY <2>1, RoomFacts
<1>3. CASE pc' = "not found"
  BY <1>1, <1>2, <1>3 DEF Start, CodeInv
<1>4. CASE pc' = "pop"
  <2> DEFINE one == <<query.from>>
  <2>1. queue' = <<one>> /\ found' = {query.from} /\ query.from \in Nodes
    BY <1>4, VersionFacts DEF Start, Present
  <2>2. one \in Seq(Nodes) \ {<<>>} /\ Len(one) = 1
    BY <2>1, OneElement
  <2> HIDE DEF one
  <2>3. <<one>> \in Seq(Seq(Nodes) \ {<<>>}) /\ DOMAIN <<one>> = {1} /\ <<one>>[1] = one
    BY <2>2, OneElement
  <2>4. IsFiniteSet(found') /\ Cardinality(found') = 1
    BY <2>1, FS_Singleton
  <2>5. queue' \in Seq(Seq(Nodes) \ {<<>>}) /\ \A i \in DOMAIN queue' : Len(queue'[i]) <= query'.max_depth + 1
    <3>1. \A i \in DOMAIN <<one>> : Len(<<one>>[i]) <= query.max_depth + 1
      <4>1. Len(one) <= query.max_depth + 1
        BY <1>2, <2>2
      <4>2. \A i \in DOMAIN <<one>> : <<one>>[i] = one
        BY <2>3
      <4> QED BY <4>1, <4>2, Zenon
    <3> QED BY <1>1, <2>1, <2>3, <3>1
  <2> QED BY <1>1, <1>2, <1>4, <2>1, <2>4, <2>5 DEF CodeInv
<1> QED BY <1>1, <1>3, <1>4

\* A path is taken from the queue: dropped, or gone on from.
LEMMA TakenTypes ==
  ASSUME CodeInv, Question, Grounded, pc = "pop", queue # <<>>
  PROVE  /\ Step(Head(queue)) /\ Len(Head(queue)) <= query.max_depth + 1 /\ Current \in Nodes
         /\ Tail(queue) \in Seq(Seq(Nodes) \ {<<>>})
         /\ \A i \in DOMAIN Tail(queue) : Len(Tail(queue)[i]) <= query.max_depth + 1
<1> DEFINE S == Seq(Nodes) \ {<<>>}
<1>1. queue \in Seq(S) /\ \A i \in DOMAIN queue : Len(queue[i]) <= query.max_depth + 1
  BY DEF CodeInv
<1> HIDE DEF S
<1>2. /\ Len(queue) \in Nat /\ Len(queue) >= 1 /\ Head(queue) = queue[1] /\ 1 \in DOMAIN queue
      /\ Tail(queue) \in Seq(S) /\ Len(Tail(queue)) = Len(queue) - 1
      /\ \A i \in DOMAIN Tail(queue) : i + 1 \in DOMAIN queue /\ Tail(queue)[i] = queue[i + 1]
  BY <1>1
<1>3. Head(queue) \in S /\ Len(Head(queue)) <= query.max_depth + 1
  BY <1>1, <1>2
<1>4. \A i \in DOMAIN Tail(queue) : Len(Tail(queue)[i]) <= query.max_depth + 1
  BY <1>1, <1>2
<1>5. ASSUME NEW s \in S
      PROVE  s[Len(s)] \in Nodes
  BY DEF S
<1>6. Current \in Nodes
  BY <1>3, <1>5 DEF Current, Last
<1> QED BY <1>2, <1>3, <1>4, <1>6 DEF S, Step

LEMMA PopTypes ==
  ASSUME CodeInv, Question, Grounded, PopImpact \/ PopPath
  PROVE  CodeInv'
<1>1. pc = "pop" /\ queue # <<>> /\ UNCHANGED query /\ Room' = Room
  BY DEF PopImpact, PopPath, Room
<1>2. /\ Step(Head(queue)) /\ Len(Head(queue)) <= query.max_depth + 1 /\ Current \in Nodes
      /\ Tail(queue) \in Seq(Seq(Nodes) \ {<<>>})
      /\ \A i \in DOMAIN Tail(queue) : Len(Tail(queue)[i]) <= query.max_depth + 1
  BY <1>1, TakenTypes
<1>3. CASE Drop /\ visited' \subseteq visited \cup {Current} /\ truncated' \in BOOLEAN
  BY <1>1, <1>2, <1>3 DEF Drop, CodeInv
<1>4. CASE Ask /\ Depth < query.max_depth
  <2>1. Len(Head(queue)) <= query.max_depth
    BY <1>2, <1>4 DEF Depth, Step, Question
  <2>2. rows' \in Seq(Ends)
    BY <1>2, <1>4, StoreEnds DEF Ask
  <2> QED BY <1>1, <1>2, <1>4, <2>1, <2>2 DEF Ask, CodeInv, Step
<1>5. CASE /\ pc' = "answered" /\ answer' = StillPresent(Head(queue)) /\ truncated' = FALSE
           /\ UNCHANGED <<queue, visited, found, rows, path>>
  <2> DEFINE s == Head(queue)
             I == {i \in DOMAIN s : Present(s[i])}
  <2>1. s \in Seq(Nodes) /\ I \in SUBSET DOMAIN s
    BY <1>2 DEF Step
  <2>2. answer' = Selected(s, I)
    BY <1>5 DEF StillPresent
  <2>3. Cardinality(I) <= Len(s)
    <3>1. I \subseteq 1 .. Len(s) /\ Len(s) \in Nat
      BY <2>1
    <3> HIDE DEF I, s
    <3>2. IsFiniteSet(1 .. Len(s)) /\ Cardinality(1 .. Len(s)) = Len(s)
      BY <3>1, UpTo
    <3> QED BY <3>1, <3>2, FS_Subset
  <2> HIDE DEF I, s
  <2>4. Len(answer') = Cardinality(I) /\ Cardinality(I) \in Nat /\ Len(s) \in Nat
    BY <2>1, <2>2, SelectedFacts
  <2>5. Len(answer') <= query'.max_depth + 1
    BY <1>1, <1>2, <2>3, <2>4 DEF s, Question
  <2> QED BY <1>1, <1>5, <2>5 DEF CodeInv
<1>6. CASE /\ pc' = "panicked" /\ visited' = visited \cup {Current}
           /\ UNCHANGED <<queue, found, rows, path, truncated, answer>>
  BY <1>1, <1>2, <1>6 DEF CodeInv
<1>7. \/ Drop /\ visited' \subseteq visited \cup {Current} /\ truncated' \in BOOLEAN
      \/ Ask /\ Depth < query.max_depth
      \/ /\ pc' = "answered" /\ answer' = StillPresent(Head(queue)) /\ truncated' = FALSE
         /\ UNCHANGED <<queue, visited, found, rows, path>>
      \/ /\ pc' = "panicked" /\ visited' = visited \cup {Current}
         /\ UNCHANGED <<queue, found, rows, path, truncated, answer>>
  <2>1. truncated \in BOOLEAN /\ Depth \in Int /\ query.max_depth \in Nat
    <3>1. Len(Head(queue)) \in Nat
      BY <1>2 DEF Step
    <3>2. Depth \in Int
      BY <3>1 DEF Depth
    <3>3. truncated \in BOOLEAN
      BY DEF CodeInv
    <3> QED BY <3>2, <3>3, RoomFacts
  <2>2. CASE PopImpact
    BY <2>1, <2>2 DEF PopImpact
  <2>3. CASE PopPath
    <3>1. CASE Current = query.to
      BY <2>3, <3>1 DEF PopPath
    <3>2. CASE Current # query.to /\ Depth >= query.max_depth
      BY <2>1, <2>3, <3>2 DEF PopPath
    <3>3. CASE Current # query.to /\ Depth < query.max_depth /\ Current \in visited
      BY <2>1, <2>3, <3>3 DEF PopPath
    <3>4. CASE /\ Current # query.to /\ ~ (Depth >= query.max_depth)
               /\ ~ (Depth < query.max_depth /\ Current \in visited)
      <4>1. Depth < query.max_depth
        BY <2>1, <3>4
      <4> QED BY <2>1, <2>3, <3>4, <4>1 DEF PopPath
    <3> QED BY <3>1, <3>2, <3>3, <3>4
  <2> QED BY <2>2, <2>3
<1> QED BY <1>3, <1>4, <1>5, <1>6, <1>7

\* The paths that are queued are one node longer.
LEMMA MorePaths ==
  ASSUME Step(path), NEW list \in Seq(Nodes), NEW d \in Nat, Len(path) <= d,
         queue \in Seq(Seq(Nodes) \ {<<>>}), \A i \in DOMAIN queue : Len(queue[i]) <= d + 1,
         NEW q, q = queue \o [i \in 1 .. Len(list) |-> Append(path, list[i])]
  PROVE  q \in Seq(Seq(Nodes) \ {<<>>}) /\ \A i \in DOMAIN q : Len(q[i]) <= d + 1
<1> DEFINE Lists == Seq(Nodes) \ {<<>>}
           more == [i \in 1 .. Len(list) |-> Append(path, list[i])]
<1>1. \A n \in Nodes : Append(path, n) \in Lists /\ Len(Append(path, n)) = Len(path) + 1
  BY DEF Step
<1>2. Len(path) \in Nat
  BY DEF Step
<1>3. Len(list) \in Nat /\ \A i \in 1 .. Len(list) : list[i] \in Nodes
  OBVIOUS
<1> HIDE DEF Lists
<1>4. more \in Seq(Lists) /\ \A i \in DOMAIN more : Len(more[i]) <= d + 1
  <2>1. \A i \in 1 .. Len(list) : more[i] \in Lists /\ Len(more[i]) <= d + 1
    BY <1>1, <1>2, <1>3
  <2>2. DOMAIN more = 1 .. Len(list) /\ more = [i \in 1 .. Len(list) |-> more[i]]
    OBVIOUS
  <2> HIDE DEF more
  <2> QED BY <1>3, <2>1, <2>2
<1>5. queue \in Seq(Lists)
  BY DEF Lists
<1> HIDE DEF more
<1>6. q = queue \o more
  BY DEF more
<1>7. /\ q \in Seq(Lists)
      /\ \A k \in DOMAIN q : (\E i \in DOMAIN queue : q[k] = queue[i]) \/ \E i \in DOMAIN more : q[k] = more[i]
  <2>1. queue \in Seq(Lists) /\ more \in Seq(Lists)
    BY <1>4, <1>5
  <2>2. /\ q \in Seq(Lists) /\ Len(queue) \in Nat /\ \A k \in DOMAIN q : k \in Nat
        /\ \A i \in DOMAIN queue : q[i] = queue[i]
        /\ \A i \in DOMAIN more : q[Len(queue) + i] = more[i]
        /\ \A k \in DOMAIN q : k \in DOMAIN queue \/ (k > Len(queue) /\ k - Len(queue) \in DOMAIN more)
    <3> DEFINE u == queue \o more
    <3>1. /\ u \in Seq(Lists) /\ Len(u) = Len(queue) + Len(more) /\ Len(queue) \in Nat
          /\ \A i \in DOMAIN queue : i \in DOMAIN u /\ u[i] = queue[i]
          /\ \A i \in DOMAIN more : Len(queue) + i \in DOMAIN u /\ u[Len(queue) + i] = more[i]
          /\ \A k \in DOMAIN u : k \in DOMAIN queue \/ (k > Len(queue) /\ k - Len(queue) \in DOMAIN more)
      BY <2>1, ConcatPlaces, SMTT(60)
    <3>2. q = u
      BY <1>6
    <3> HIDE DEF u
    <3>3. \A k \in DOMAIN u : k \in Nat
      BY <3>1
    <3> QED BY <3>1, <3>2, <3>3, Zenon
  <2>3. \A k \in DOMAIN q : k - Len(queue) \in DOMAIN more => q[k] = more[k - Len(queue)]
    <3>1. \A k \in DOMAIN q : Len(queue) + (k - Len(queue)) = k
      BY <2>2
    <3> QED BY <2>2, <3>1
  <2> QED BY <2>2, <2>3
<1>8. \A k \in DOMAIN q : Len(q[k]) <= d + 1
  BY <1>4, <1>7
<1> QED BY <1>7, <1>8 DEF Lists

LEMMA LookUpTypes ==
  ASSUME CodeInv, Question, Grounded, LookUp
  PROVE  CodeInv'
<1>1. /\ pc = "look up" /\ pc' = "pop" /\ UNCHANGED <<query, visited, answer>> /\ Room' = Room
      /\ Room \in Nat /\ (query.max_nodes <= Room) /\ query.max_nodes \in Nat /\ query.max_depth \in Nat
  <2>1. pc = "look up" /\ pc' = "pop" /\ UNCHANGED <<query, visited, answer>>
    BY DEF LookUp
  <2>2. Room' = Room
    BY <2>1 DEF Room
  <2> QED BY <2>1, <2>2, RoomFacts
<1>2. PICK neighbors \in Neighbors :
        IF query.tool # "path" THEN AddImpact(neighbors)
        ELSE /\ queue' = queue \o [i \in 1 .. Len(neighbors) |-> Append(path, neighbors[i])]
             /\ UNCHANGED <<found, truncated>>
  BY DEF LookUp
<1>3. neighbors \in Seq(Nodes)
  BY <1>1, LookedUpNodes DEF CodeInv, Question, Grounded
<1>4. PICK list \in Seq(Nodes) :
        /\ queue' = queue \o [i \in 1 .. Len(list) |-> Append(path, list[i])]
        /\ found' \subseteq Nodes /\ IsFiniteSet(found') /\ Cardinality(found') <= Room
        /\ truncated' \in BOOLEAN
  <2>1. CASE query.tool = "path"
    BY <1>1, <1>2, <1>3, <2>1 DEF CodeInv
  <2>2. CASE query.tool # "path"
    <3> DEFINE new == Distinct(neighbors, found)
               limit == query.max_nodes - Cardinality(found)
               kept == FirstOf(new, limit)
    <3>1. /\ found' = found \cup ToSet(kept)
          /\ queue' = queue \o [i \in 1 .. Len(kept) |-> Append(path, kept[i])]
          /\ truncated' = (truncated \/ Len(kept) < Len(new))
      BY <1>2, <2>2 DEF AddImpact
    <3>2. /\ found \subseteq Nodes /\ IsFiniteSet(found) /\ Cardinality(found) <= Room
          /\ Cardinality(found) \in Nat
      BY FS_CardinalityType DEF CodeInv
    <3>3. new \in Seq(Nodes)
      BY <1>3, DistinctFacts
    <3>4. limit \in Int
      <4> DEFINE n == query.max_nodes
                 c == Cardinality(found)
      <4>1. n \in Nat /\ c \in Nat
        BY <1>1, <3>2
      <4> HIDE DEF n, c
      <4>2. n - c \in Int
        BY <4>1
      <4> QED BY <4>2 DEF n, c
    <3> HIDE DEF new, limit
    <3>5. kept \in Seq(Nodes) /\ IF limit >= 0 THEN Len(kept) <= limit ELSE kept = <<>>
      BY <3>3, <3>4, KeptFacts
    <3> HIDE DEF kept
    <3>6. IsFiniteSet(ToSet(kept)) /\ Cardinality(ToSet(kept)) <= Len(kept) /\ Len(kept) \in Nat
          /\ ToSet(kept) \subseteq Nodes
      BY <3>5, PlacesCount DEF ToSet
    <3>7. /\ IsFiniteSet(found') /\ Cardinality(found') \in Nat /\ Cardinality(ToSet(kept)) \in Nat
          /\ Cardinality(found') <= Cardinality(found) + Cardinality(ToSet(kept))
      <4>1. IsFiniteSet(found \cap ToSet(kept)) /\ Cardinality(found \cap ToSet(kept)) \in Nat
        BY <3>2, FS_Subset, FS_CardinalityType
      <4>2. /\ IsFiniteSet(found') 
            /\ Cardinality(found') = Cardinality(found) + Cardinality(ToSet(kept))
                                       - Cardinality(found \cap ToSet(kept))
        BY <3>1, <3>2, <3>6, FS_Union
      <4>3. Cardinality(found') \in Nat /\ Cardinality(ToSet(kept)) \in Nat
        BY <3>6, <4>2, FS_CardinalityType
      <4> QED BY <3>2, <4>1, <4>2, <4>3
    <3>8. Cardinality(found') <= Room
      <4>1. CASE limit >= 0
        <5> DEFINE n == query.max_nodes
                   c == Cardinality(found)
                   a == Cardinality(ToSet(kept))
                   b == Len(kept)
                   e == Cardinality(found')
        <5>1. /\ n \in Nat /\ c \in Nat /\ a \in Nat /\ b \in Nat /\ e \in Nat /\ Room \in Nat
              /\ n <= Room /\ a <= b /\ e <= c + a
          BY <1>1, <3>2, <3>6, <3>7
        <5>2. b <= n - c
          BY <3>5, <4>1 DEF limit
        <5> HIDE DEF n, a, b, c, e
        <5>3. e <= Room
          BY <5>1, <5>2
        <5> QED BY <5>3 DEF e
      <4>2. CASE ~ (limit >= 0)
        <5>1. ToSet(kept) = {}
          BY <3>5, <4>2 DEF ToSet
        <5> QED BY <3>1, <3>2, <5>1
      <4> QED BY <4>1, <4>2
    <3>9. truncated' \in BOOLEAN
      BY <3>1
    <3> QED BY <3>1, <3>2, <3>5, <3>6, <3>7, <3>8, <3>9
  <2> QED BY <2>1, <2>2
<1>5. /\ Step(path) /\ Len(path) <= query.max_depth
      /\ queue \in Seq(Seq(Nodes) \ {<<>>})
      /\ \A i \in DOMAIN queue : Len(queue[i]) <= query.max_depth + 1
  BY <1>1 DEF CodeInv
<1>6. /\ queue' \in Seq(Seq(Nodes) \ {<<>>})
      /\ \A i \in DOMAIN queue' : Len(queue'[i]) <= query.max_depth + 1
  BY <1>1, <1>4, <1>5, MorePaths
<1> QED BY <1>1, <1>4, <1>6 DEF CodeInv

LEMMA WalkTypes ==
  ASSUME RightInv, CodeInv, [Next]_vars
  PROVE  CodeInv'
<1>1. Question /\ Grounded /\ tables \in Versions
  BY DEF RightInv, PathInv, Grounded
<1>2. CASE QueryStep
  <2>1. ASSUME Answer
        PROVE  CodeInv'
    BY <2>1 DEF Answer, CodeInv, Room
  <2> QED BY <1>1, <1>2, <2>1, StartTypes, PopTypes, LookUpTypes DEF QueryStep
<1>3. CASE StoreStep \/ Commit \/ UNCHANGED vars
  <2>1. UNCHANGED <<query, pc, queue, visited, found, rows, path, truncated, answer>>
    BY <1>3 DEF StoreStep, Clear, Rebuild, Commit, Reindex, vars, codeVars, search
  <2> QED BY <2>1, WalkTypesStay
<1>4. CASE Open \/ Exact \/ Lexical \/ Embed \/ Unify \/ Compose \/ Deliver
  <2>1. /\ UNCHANGED <<queue, visited, found, truncated, answer>>
        /\ query' = query \/ \E n : query' = [query EXCEPT !.from = n]
        /\ \/ UNCHANGED <<pc, rows, path>>
           \/ pc' \in {"open", "collect", "start", "answered", "failed"} /\ pc \in {"open", "collect"}
    BY <1>4 DEF Open, Exact, Lexical, Embed, Unify, Compose, Deliver, At, codeVars, search
  <2>2. query'.max_depth = query.max_depth /\ query'.max_nodes = query.max_nodes
    BY <1>1, <2>1 DEF Question
  <2> QED BY <2>1, <2>2, WalkTypesStay
<1> QED BY <1>2, <1>3, <1>4 DEF Next

\* What is left to do is done before anything else is, and a graph or a path has nothing of it.
Idle ==
  /\ pc \notin {"open", "collect"} => todo = <<>>
  /\ query.tool \in {"impact", "path"} => todo = <<>>

LEMMA IdleStep == Idle /\ "tool" \in DOMAIN query /\ [Next]_vars => Idle'
<1> SUFFICES ASSUME Idle, "tool" \in DOMAIN query, [Next]_vars
             PROVE  Idle'
  OBVIOUS
<1> USE DEF Idle
<1>1. CASE QueryStep /\ UNCHANGED searchVars
  <2>1. UNCHANGED <<query, todo>> /\ pc \notin {"open", "collect"}
    BY <1>1 DEF QueryStep, Start, PopImpact, PopPath, LookUp, Answer, searchVars
  <2> QED BY <2>1
<1>2. CASE StoreStep /\ UNCHANGED searchVars
  BY <1>2 DEF StoreStep, Clear, Rebuild, search, searchVars
<1>3. CASE Commit
  BY <1>3 DEF Commit, Reindex, search, searchVars
<1>4. CASE UNCHANGED vars
  BY <1>4 DEF search, searchVars, vars, codeVars
<1>5. CASE Exact \/ Lexical \/ Compose
  <2>1. pc = "collect" /\ todo # <<>> /\ UNCHANGED codeVars
    BY <1>5 DEF Exact, Lexical, Compose, At
  <2>2. UNCHANGED <<pc, query>>
    BY <2>1 DEF codeVars, search
  <2> QED BY <2>1, <2>2
<1>6. CASE Unify \/ Embed
  <2>1. /\ pc = "collect" /\ todo # <<>> /\ query' = query
        /\ pc' \in {"open", "collect"} \/ todo' = <<>>
    BY <1>6 DEF Unify, Embed, At
  <2> QED BY <2>1
<1>7. CASE Open
  <2>1. query' = query /\ (todo' = <<>> \/ (pc = "open" /\ todo' = todo))
    BY <1>7 DEF Open
  <2>2. pc' \notin {"open", "collect"} => todo' = <<>> \/ query.tool \in {"impact", "path"}
    BY <1>7 DEF Open
  <2> QED BY <2>1, <2>2
<1>8. CASE Deliver
  <2>1. todo = <<>> /\ todo' = todo
    BY <1>8 DEF Deliver, searchVars
  <2> QED BY <2>1
<1> QED BY <1>1, <1>2, <1>3, <1>4, <1>5, <1>6, <1>7, <1>8 DEF Next

(***************************************************************************)
(* Types, for any histories and queries: no search finds more nodes than   *)
(* max_nodes or answers a path longer than max_depth, and no two rows of   *)
(* the index have one rowid.                                               *)
(***************************************************************************)
THEOREM QueryTypes == Spec => []TypeOK
<1> DEFINE Inv == RightInv /\ CodeInv /\ IndexInv /\ Idle
<1>1. Init => Inv
  <2>1. Init => Idle
    BY DEF Init, CodeInit, Program, Idle
  <2> QED BY <2>1, RightInit, WalkTypesInit, IndexInit
<1>2. Inv /\ [Next]_vars => Inv'
  <2> SUFFICES ASSUME Inv, [Next]_vars
               PROVE  Inv'
    OBVIOUS
  <2>1. RightInv' /\ CodeInv' /\ IndexInv'
    BY RightStep, WalkTypes, IndexStep
  <2>2. Idle'
    BY IdleStep DEF RightInv, Question
  <2> QED BY <2>1, <2>2
<1>3. Inv => TypeOK
  <2> SUFFICES ASSUME Inv
               PROVE  TypeOK
    OBVIOUS
  <2>1. CodeTypeOK
    <3>1. tables \in Versions /\ changes \in Nat
      BY DEF IndexInv, RightInv
    <3>2. \A i \in DOMAIN queue : queue[i] # <<>> /\ ToSet(queue[i]) \subseteq Nodes
      <4>1. \A i \in DOMAIN queue : queue[i] \in Seq(Nodes) \ {<<>>}
        <5> DEFINE S == Seq(Nodes) \ {<<>>}
        <5>1. queue \in Seq(S)
          BY DEF CodeInv
        <5> HIDE DEF S
        <5>2. \A i \in DOMAIN queue : queue[i] \in S
          BY <5>1
        <5> QED BY <5>2 DEF S
      <4>2. \A s \in Seq(Nodes) : ToSet(s) \subseteq Nodes
        BY DEF ToSet
      <4> QED BY <4>1, <4>2
    <3> QED BY <3>1, <3>2 DEF CodeInv, CodeTypeOK, Room
  <2>2. DOMAIN rowid = tables.nodes /\ IsInjective(rowid) /\ postings \subseteq Nat /\ haunted \subseteq Nat
    BY DEF IndexInv, Indexes, IsInjective
  <2> QED BY <2>1, <2>2 DEF IndexInv, TypeOK, Idle
<1> QED BY <1>1, <1>2, <1>3, PTL DEF Spec

-----------------------------------------------------------------------------
(***************************************************************************)
(* The lists of the searches.                                              *)
(***************************************************************************)
\* The positions from one to another: that stretch of the sequence.
LEMMA SelectedRun ==
  ASSUME NEW S, NEW s \in Seq(S), NEW lo \in Nat, NEW hi \in Nat, lo <= hi, hi <= Len(s),
         NEW I, I = {i \in DOMAIN s : lo < i /\ i <= hi}
  PROVE  /\ DOMAIN Selected(s, I) = 1 .. hi - lo
         /\ \A k \in 1 .. hi - lo : Selected(s, I)[k] = s[lo + k]
<1> DEFINE th(k) == CHOOSE i \in I : Cardinality(Below(I, i)) = k
<1>1. I = lo + 1 .. hi /\ Len(s) \in Nat /\ hi - lo \in Nat
  OBVIOUS
<1>2. Selected(s, I) = [k \in 1 .. Cardinality(I) |-> s[th(k)]]
  BY DEF Selected, Below
<1>3. Cardinality(I) = hi - lo
  <2> HIDE DEF th
  <2>1. Cardinality(lo + 1 .. hi) = IF lo + 1 > hi THEN 0 ELSE hi - (lo + 1) + 1
    BY FS_Interval
  <2>2. Cardinality(lo + 1 .. hi) = hi - lo
    <3> DEFINE c == Cardinality(lo + 1 .. hi)
    <3>1. c = IF lo + 1 > hi THEN 0 ELSE hi - (lo + 1) + 1
      BY <2>1
    <3> HIDE DEF c
    <3>2. c = hi - lo
      BY <3>1
    <3> QED BY <3>2 DEF c
  <2> QED BY <1>1, <2>2
<1>4. \A i \in I : Cardinality(Below(I, i)) = i - lo
  <2> SUFFICES ASSUME NEW i \in I
               PROVE  Cardinality(Below(I, i)) = i - lo
    OBVIOUS
  <2>1. Below(I, i) = lo + 1 .. i /\ i \in Nat /\ i >= lo + 1
    BY <1>1 DEF Below
  <2>2. Cardinality(lo + 1 .. i) = IF lo + 1 > i THEN 0 ELSE i - (lo + 1) + 1
    BY <2>1, FS_Interval
  <2> QED BY <2>1, <2>2
<1>5. \A k \in 1 .. hi - lo : th(k) = lo + k
  <2> SUFFICES ASSUME NEW k \in 1 .. hi - lo
               PROVE  th(k) = lo + k
    OBVIOUS
  <2>1. lo + k \in I /\ (lo + k) - lo = k
    BY <1>1
  <2>2. \A i \in I : i - lo = k => i = lo + k
    BY <1>1
  <2> QED BY <1>4, <2>1, <2>2
<1> HIDE DEF th
<1> QED BY <1>2, <1>3, <1>5

Falling(s) == /\ \A i \in DOMAIN s : s[i].score \in Int
              /\ \A i, j \in DOMAIN s : i < j => s[i].score > s[j].score

\* What is in order already stays so.
LEMMA RankedSame ==
  ASSUME NEW S, NEW s \in Seq(S), Falling(s)
  PROVE  Ranked(s) = s
<1> DEFINE upTo(i) == {j \in DOMAIN s : \/ s[j].score > s[i].score
                                        \/ (s[j].score = s[i].score /\ j <= i)}
           th(k) == CHOOSE i \in DOMAIN s : Cardinality(upTo(i)) = k
<1>1. DOMAIN s = 1 .. Len(s) /\ Len(s) \in Nat /\ s = [i \in 1 .. Len(s) |-> s[i]]
  OBVIOUS
<1>2. ASSUME NEW i \in DOMAIN s
      PROVE  Cardinality(upTo(i)) = i
  <2>1. \A j \in DOMAIN s : /\ j < i => s[j].score > s[i].score
                            /\ j > i => s[j].score < s[i].score
                            /\ s[j].score \in Int
    BY DEF Falling
  <2>2. \A j \in DOMAIN s : (s[j].score > s[i].score \/ (s[j].score = s[i].score /\ j <= i)) <=> j <= i
    <3> SUFFICES ASSUME NEW j \in DOMAIN s
                 PROVE  (s[j].score > s[i].score \/ (s[j].score = s[i].score /\ j <= i)) <=> j <= i
      OBVIOUS
    <3> DEFINE a == s[j].score
               b == s[i].score
    <3>1. /\ a \in Int /\ b \in Int /\ i \in Nat /\ j \in Nat
          /\ (j < i => a > b) /\ (j > i => a < b) /\ (j = i => a = b)
      BY <1>1, <2>1
    <3> HIDE DEF a, b
    <3>2. (a > b \/ (a = b /\ j <= i)) <=> j <= i
      BY <3>1
    <3> QED BY <3>2 DEF a, b
  <2>3. upTo(i) = 1 .. i /\ i \in Nat
    <3>1. upTo(i) = {j \in DOMAIN s : j <= i}
      BY <2>2
    <3> HIDE DEF upTo
    <3> QED BY <1>1, <3>1
  <2> HIDE DEF upTo
  <2> QED BY <2>3, UpTo
<1>3. \A k \in DOMAIN s : th(k) = k
  BY <1>2
<1>4. Ranked(s) = [k \in DOMAIN s |-> s[th(k)]]
  BY DEF Ranked
<1> HIDE DEF th
<1> QED BY <1>1, <1>3, <1>4

Differ(s) == \A i, j \in DOMAIN s : SameHit(s[i], s[j]) => i = j

\* Hits that are of different keys or sources are all pushed.
LEMMA PushedAll ==
  ASSUME NEW S, NEW list \in Seq(S), NEW more \in Seq(S), Differ(list \o more)
  PROVE  PushAll(list, more) = list \o more
<1> DEFINE all == list \o more
           I == {i \in DOMAIN all : \A j \in 1 .. i - 1 : ~ SameHit(all[j], all[i])}
<1>1. all \in Seq(S)
  OBVIOUS
<1>2. PushAll(list, more) = Selected(all, I)
  BY DEF PushAll
<1>3. I = DOMAIN all
  <2> HIDE DEF all
  <2>1. \A i \in DOMAIN all : \A j \in 1 .. i - 1 : j \in DOMAIN all /\ j # i
    BY <1>1
  <2>2. \A i, j \in DOMAIN all : SameHit(all[i], all[j]) => i = j
    BY DEF all, Differ
  <2> QED BY <2>1, <2>2
<1> HIDE DEF all, I
<1>4. PushAll(list, more) = all
  BY <1>1, <1>2, <1>3, SelectedAll
<1> QED BY <1>4 DEF all

Hits == [source : {"code", "workspace", "global"}, key : Nodes \cup UNION {Range(Memories[s]) : s \in DOMAIN Memories},
         row : Nat, score : Int]

Of(s, source) == \A i \in DOMAIN s : s[i].source = source

\* Numbered from a score downwards.
From(s, score) == \A i \in DOMAIN s : s[i].score = score - (i - 1)

Keyed(s) == \A i, j \in DOMAIN s : s[i].key = s[j].key => i = j

\* The three sources' hits, one after the other.
Parts(c, w, g) ==
  /\ c \in Seq(Hits) /\ w \in Seq(Hits) /\ g \in Seq(Hits)
  /\ Of(c, "code") /\ Of(w, "workspace") /\ Of(g, "global")
  /\ Keyed(c) /\ Keyed(w) /\ Keyed(g)

Placed(c, w, g, all) ==
  /\ all \in Seq(Hits) /\ Len(all) = Len(c) + Len(w) + Len(g)
  /\ Len(c) \in Nat /\ Len(w) \in Nat /\ Len(g) \in Nat
  /\ \A i \in DOMAIN all :
       /\ i \in Nat /\ i >= 1
       /\ i <= Len(c) => i \in DOMAIN c /\ all[i] = c[i]
       /\ Len(c) < i /\ i <= Len(c) + Len(w) => i - Len(c) \in DOMAIN w /\ all[i] = w[i - Len(c)]
       /\ Len(c) + Len(w) < i => i - Len(c) - Len(w) \in DOMAIN g /\ all[i] = g[i - Len(c) - Len(w)]

LEMMA PartsPlaces ==
  ASSUME NEW c, NEW w, NEW g, Parts(c, w, g)
  PROVE  Placed(c, w, g, (c \o w) \o g)
<1> DEFINE all == (c \o w) \o g
<1> DEFINE T == Hits
           cw == c \o w
<1>1. c \in Seq(T) /\ w \in Seq(T) /\ g \in Seq(T)
  BY DEF Parts
<1> HIDE DEF T
<1>2. /\ cw \in Seq(T) /\ Len(cw) = Len(c) + Len(w) /\ Len(c) \in Nat /\ Len(w) \in Nat
      /\ \A i \in DOMAIN c : i \in DOMAIN cw /\ cw[i] = c[i]
      /\ \A i \in DOMAIN w : Len(c) + i \in DOMAIN cw /\ cw[Len(c) + i] = w[i]
      /\ \A k \in DOMAIN cw : k \in DOMAIN c \/ (k > Len(c) /\ k - Len(c) \in DOMAIN w)
  BY <1>1, ConcatPlaces
<1>3. all = cw \o g
  OBVIOUS
<1> HIDE DEF cw, all
<1>4. /\ all \in Seq(T) /\ Len(all) = Len(cw) + Len(g) /\ Len(g) \in Nat
      /\ \A i \in DOMAIN cw : i \in DOMAIN all /\ all[i] = cw[i]
      /\ \A i \in DOMAIN g : Len(cw) + i \in DOMAIN all /\ all[Len(cw) + i] = g[i]
      /\ \A k \in DOMAIN all : k \in DOMAIN cw \/ (k > Len(cw) /\ k - Len(cw) \in DOMAIN g)
  <2> DEFINE u == cw \o g
  <2>1. /\ u \in Seq(T) /\ Len(u) = Len(cw) + Len(g) /\ Len(g) \in Nat
        /\ \A i \in DOMAIN cw : i \in DOMAIN u /\ u[i] = cw[i]
        /\ \A i \in DOMAIN g : Len(cw) + i \in DOMAIN u /\ u[Len(cw) + i] = g[i]
        /\ \A k \in DOMAIN u : k \in DOMAIN cw \/ (k > Len(cw) /\ k - Len(cw) \in DOMAIN g)
    <3>1. cw \in Seq(T) /\ g \in Seq(T)
      BY <1>1, <1>2
    <3> QED BY <3>1, ConcatPlaces
  <2>2. all = u
    BY <1>3
  <2> HIDE DEF u
  <2> QED BY <2>1, <2>2, Zenon
<1> DEFINE a == Len(c)
           b == Len(w)
<1>5. a \in Nat /\ b \in Nat /\ Len(cw) = a + b /\ Len(g) \in Nat
      /\ DOMAIN c = 1 .. a /\ DOMAIN w = 1 .. b /\ DOMAIN g = 1 .. Len(g)
      /\ DOMAIN cw = 1 .. a + b /\ DOMAIN all = 1 .. Len(all)
      /\ Len(all) = a + b + Len(g)
  BY <1>1, <1>2, <1>4
<1> HIDE DEF a, b
<1>6. ASSUME NEW i \in DOMAIN all
      PROVE  /\ i \in Nat /\ i >= 1
             /\ i <= a => i \in DOMAIN c /\ all[i] = c[i]
             /\ a < i /\ i <= a + b => i - a \in DOMAIN w /\ all[i] = w[i - a]
             /\ a + b < i => i - a - b \in DOMAIN g /\ all[i] = g[i - a - b]
  <2>1. i \in Nat /\ i >= 1 /\ i <= a + b + Len(g)
    BY <1>5
  <2>2. ASSUME i <= a
        PROVE  i \in DOMAIN c /\ all[i] = c[i]
    <3>1. i \in DOMAIN c
      BY <1>5, <2>1, <2>2
    <3> QED BY <1>2, <1>4, <3>1
  <2>3. ASSUME a < i, i <= a + b
        PROVE  i - a \in DOMAIN w /\ all[i] = w[i - a]
    <3>1. i - a \in DOMAIN w /\ a + (i - a) = i
      BY <1>5, <2>1, <2>3
    <3>2. i \in DOMAIN cw /\ cw[i] = w[i - a]
      BY <1>2, <3>1 DEF a
    <3> QED BY <1>4, <3>1, <3>2
  <2>4. ASSUME a + b < i
        PROVE  i - a - b \in DOMAIN g /\ all[i] = g[i - a - b]
    <3>1. i - a - b \in DOMAIN g /\ Len(cw) + (i - a - b) = i
      BY <1>5, <2>1, <2>4
    <3> QED BY <1>4, <3>1
  <2> QED BY <2>1, <2>2, <2>3, <2>4
<1> QED BY <1>2, <1>4, <1>5, <1>6 DEF a, b, T, all, Placed

\* No two of them are the same.
LEMMA PartsDiffer ==
  ASSUME NEW c, NEW w, NEW g, Parts(c, w, g), NEW all, all = (c \o w) \o g
  PROVE  Differ(all)
<1>0. Placed(c, w, g, all)
  BY PartsPlaces
<1>1. /\ Len(c) \in Nat /\ Len(w) \in Nat /\ Len(g) \in Nat
      /\ \A i \in DOMAIN all :
           /\ i \in Nat /\ i >= 1
           /\ i <= Len(c) => i \in DOMAIN c /\ all[i] = c[i]
           /\ Len(c) < i /\ i <= Len(c) + Len(w) => i - Len(c) \in DOMAIN w /\ all[i] = w[i - Len(c)]
           /\ Len(c) + Len(w) < i => i - Len(c) - Len(w) \in DOMAIN g /\ all[i] = g[i - Len(c) - Len(w)]
  BY <1>0 DEF Placed
<1> DEFINE a == Len(c)
           b == Len(c) + Len(w)
<1>2. \A i \in DOMAIN all : /\ i <= a => all[i].source = "code"
                            /\ a < i /\ i <= b => all[i].source = "workspace"
                            /\ b < i => all[i].source = "global"
  BY <1>1 DEF Parts, Of
<1> SUFFICES ASSUME NEW i \in DOMAIN all, NEW j \in DOMAIN all,
                    all[i].source = all[j].source, all[i].key = all[j].key
             PROVE  i = j
  BY DEF SameHit, Differ
<1>3. i \in Nat /\ j \in Nat /\ a \in Nat /\ b \in Nat /\ a <= b
  BY <1>1
<1>7. "code" # "workspace" /\ "code" # "global" /\ "workspace" # "global"
  OBVIOUS
<1>4. CASE i <= a
  <2>1. j <= a
    <3>1. all[j].source = "code"
      BY <1>2, <1>4
    <3>2. ~ (a < j /\ j <= b) /\ ~ (b < j)
      BY <1>2, <1>7, <3>1
    <3> HIDE DEF a, b
    <3> QED BY <1>3, <3>2
  <2> QED BY <1>1, <1>4, <2>1 DEF Parts, Keyed
<1>5. CASE a < i /\ i <= b
  <2>1. a < j /\ j <= b
    <3>1. all[j].source = "workspace"
      BY <1>2, <1>5
    <3>2. ~ (j <= a) /\ ~ (b < j)
      BY <1>2, <1>7, <3>1
    <3> HIDE DEF a, b
    <3> QED BY <1>3, <3>2
  <2>2. i - a = j - a
    BY <1>1, <1>5, <2>1 DEF Parts, Keyed
  <2> QED BY <1>3, <2>2
<1>6. CASE b < i
  <2>1. b < j
    <3>1. all[j].source = "global"
      BY <1>2, <1>6
    <3>2. ~ (j <= a) /\ ~ (a < j /\ j <= b)
      BY <1>2, <1>7, <3>1
    <3> HIDE DEF a, b
    <3> QED BY <1>3, <3>2
  <2>2. i - Len(c) - Len(w) = j - Len(c) - Len(w)
    BY <1>1, <1>6, <2>1 DEF Parts, Keyed
  <2> QED BY <1>1, <1>3, <2>2
<1> QED BY <1>3, <1>4, <1>5, <1>6

\* They are in the order of their scores, if those of the sources are far enough apart.
LEMMA PartsFall ==
  ASSUME NEW c, NEW w, NEW g, Parts(c, w, g), NEW all, all = (c \o w) \o g,
         NEW x \in Int, NEW y \in Int, NEW z \in Int,
         From(c, x), From(w, y), From(g, z), x > y + Len(c), y > z + Len(w), x > z + Len(c)
  PROVE  Falling(all)
<1>0. Placed(c, w, g, all)
  BY PartsPlaces
<1>1. /\ Len(c) \in Nat /\ Len(w) \in Nat /\ Len(g) \in Nat
      /\ \A i \in DOMAIN all :
           /\ i \in Nat /\ i >= 1
           /\ i <= Len(c) => i \in DOMAIN c /\ all[i] = c[i]
           /\ Len(c) < i /\ i <= Len(c) + Len(w) => i - Len(c) \in DOMAIN w /\ all[i] = w[i - Len(c)]
           /\ Len(c) + Len(w) < i => i - Len(c) - Len(w) \in DOMAIN g /\ all[i] = g[i - Len(c) - Len(w)]
  BY <1>0 DEF Placed
<1> DEFINE a == Len(c)
           b == Len(w)
<1>2. \A i \in DOMAIN all :
        /\ i <= a => all[i].score = x - (i - 1)
        /\ a < i /\ i <= a + b => all[i].score = y - (i - a - 1)
        /\ a + b < i => all[i].score = z - (i - a - b - 1)
  BY <1>1 DEF From
<1>3. a \in Nat /\ b \in Nat /\ x > y + a /\ y > z + b /\ x > z + a
  BY <1>1
<1> HIDE DEF a, b
<1>4. \A i \in DOMAIN all : i \in Nat /\ i >= 1
  BY <1>1
<1>5. ASSUME NEW i \in DOMAIN all
      PROVE  all[i].score \in Int
  <2> DEFINE p == all[i].score
  <2>1. /\ i <= a => p = x - (i - 1)
        /\ a < i /\ i <= a + b => p = y - (i - a - 1)
        /\ a + b < i => p = z - (i - a - b - 1)
        /\ i \in Nat
    BY <1>2, <1>4
  <2> HIDE DEF p
  <2>2. p \in Int
    BY <1>3, <2>1, SMTT(60)
  <2> QED BY <2>2 DEF p
<1>6. ASSUME NEW i \in DOMAIN all, NEW j \in DOMAIN all, i < j
      PROVE  all[i].score > all[j].score
  <2> DEFINE p == all[i].score
             q == all[j].score
  <2>1. /\ i <= a => p = x - (i - 1)
        /\ a < i /\ i <= a + b => p = y - (i - a - 1)
        /\ a + b < i => p = z - (i - a - b - 1)
        /\ j <= a => q = x - (j - 1)
        /\ a < j /\ j <= a + b => q = y - (j - a - 1)
        /\ a + b < j => q = z - (j - a - b - 1)
        /\ i \in Nat /\ j \in Nat /\ i >= 1 /\ j >= 1
    BY <1>2, <1>4
  <2> HIDE DEF p, q
  <2>2. p > q
    <3>1. CASE i <= a /\ j <= a
      BY <1>3, <1>6, <2>1, <3>1
    <3>2. CASE i <= a /\ a < j /\ j <= a + b
      BY <1>3, <1>6, <2>1, <3>2, SMTT(60)
    <3>3. CASE i <= a /\ a + b < j
      BY <1>3, <1>6, <2>1, <3>3, SMTT(60)
    <3>4. CASE a < i /\ i <= a + b /\ j <= a + b
      BY <1>3, <1>6, <2>1, <3>4, SMTT(60)
    <3>5. CASE a < i /\ i <= a + b /\ a + b < j
      BY <1>3, <1>6, <2>1, <3>5, SMTT(60)
    <3>6. CASE a + b < i
      BY <1>3, <1>6, <2>1, <3>6, SMTT(60)
    <3> QED BY <1>3, <1>6, <2>1, <3>1, <3>2, <3>3, <3>4, <3>5, <3>6
  <2> QED BY <2>2 DEF p, q
<1> QED BY <1>5, <1>6 DEF Falling

-----------------------------------------------------------------------------
(***************************************************************************)
(* What the sources answer.                                                *)
(***************************************************************************)
LEMMA Product ==
  ASSUME NEW a \in Nat, NEW b \in Nat
  PROVE  a * b \in Nat
OBVIOUS

LEMMA Disjoint ==
  ASSUME NEW A, NEW B, IsFiniteSet(A), IsFiniteSet(B), A \cap B = {}
  PROVE  /\ Cardinality(A \cup B) = Cardinality(A) + Cardinality(B)
         /\ Cardinality(A) \in Nat /\ Cardinality(B) \in Nat
<1> DEFINE a == Cardinality(A)
           b == Cardinality(B)
           c == Cardinality(A \cap B)
           d == Cardinality(A \cup B)
<1>1. a \in Nat /\ b \in Nat
  BY FS_CardinalityType
<1>2. c = 0
  BY FS_EmptySet
<1>3. d = a + b - c
  BY FS_Union
<1> HIDE DEF a, b, c, d
<1>4. d = a + b
  BY <1>1, <1>2, <1>3
<1> QED BY <1>1, <1>4 DEF a, b, d

Keys == Nodes \cup UNION {Range(Memories[s]) : s \in DOMAIN Memories}

LEMMA HitType ==
  ASSUME NEW source \in {"code", "workspace", "global"}, NEW key \in Keys, NEW row \in Nat, NEW score \in Int
  PROVE  [source |-> source, key |-> key, row |-> row, score |-> score] \in Hits
BY DEF Hits, Keys

\* Symbols from the index, `limit' of them at most, when E have matched at some time, A all
\* the time, and H are haunted.
Symbols(list, limit, E, H, A) ==
  /\ list \in Seq(Hits) /\ Of(list, "code") /\ Keyed(list) /\ Len(list) <= limit
  /\ \A i \in DOMAIN list : list[i].key \in E \/ list[i].row \in H
  /\ Cardinality(E) + Cardinality(H) <= limit =>
       \A n \in A : \E i \in DOMAIN list : list[i].key = n

\* No more are found than have matched or are haunted, and all that match.
LEMMA FoundFacts ==
  ASSUME IndexInv, NEW found_, found_ = {n \in DOMAIN rowid : rowid[n] \in postings}
  PROVE  /\ IsFiniteSet(found_) /\ found_ \subseteq Nodes /\ always \subseteq found_
         /\ \A n \in found_ : n \in ever \/ rowid[n] \in haunted
         /\ Cardinality(found_) <= Cardinality(ever) + Cardinality(haunted)
         /\ Cardinality(found_) \in Nat
         /\ Cardinality(ever) \in Nat /\ Cardinality(haunted) \in Nat
<1>1. /\ DOMAIN rowid = tables.nodes /\ \A n \in DOMAIN rowid : rowid[n] \in Nat
      /\ \A n, m \in DOMAIN rowid : rowid[n] = rowid[m] => n = m
      /\ IsFiniteSet(haunted)
      /\ \A n \in tables.matching : rowid[n] \in postings
      /\ \A id \in postings : id \in haunted \/ \E n \in tables.matching : rowid[n] = id
  BY DEF IndexInv, Indexes
<1>2. /\ always \subseteq tables.matching /\ tables.matching \subseteq ever /\ IsFiniteSet(ever)
      /\ tables.matching \subseteq tables.nodes /\ IsFiniteSet(tables.nodes) /\ tables.nodes \subseteq Nodes
  BY MatchFacts, VersionFacts DEF IndexInv
<1>3. \A n \in found_ : n \in ever \/ rowid[n] \in haunted
  <2> SUFFICES ASSUME NEW n \in found_, rowid[n] \notin haunted
               PROVE  n \in ever
    OBVIOUS
  <2>1. PICK m \in tables.matching : rowid[m] = rowid[n]
    BY <1>1
  <2>2. m = n
    BY <1>1, <1>2, <2>1
  <2> QED BY <1>2, <2>1, <2>2
<1>4. IsFiniteSet(found_) /\ found_ \subseteq Nodes /\ always \subseteq found_
  BY <1>1, <1>2, FS_Subset
<1> DEFINE A == found_ \cap ever
           B == found_ \ ever
           row == [n \in B |-> rowid[n]]
<1>5. IsFiniteSet(A) /\ Cardinality(A) <= Cardinality(ever)
  BY <1>2, FS_Subset
<1>6. IsFiniteSet(B) /\ Cardinality(B) <= Cardinality(haunted)
  <2>1. row \in Injection(B, haunted)
    BY <1>1, <1>3 DEF Injection, IsInjective
  <2> HIDE DEF B, row
  <2> QED BY <1>1, <2>1, FS_Injection
<1>7. A \cap B = {} /\ found_ = A \cup B
  OBVIOUS
<1> HIDE DEF A, B
<1>8. /\ Cardinality(found_) \in Nat /\ Cardinality(A) \in Nat /\ Cardinality(B) \in Nat
      /\ Cardinality(ever) \in Nat /\ Cardinality(haunted) \in Nat
  BY <1>1, <1>2, <1>4, <1>5, <1>6, FS_CardinalityType
<1>9. Cardinality(found_) = Cardinality(A) + Cardinality(B)
  BY <1>5, <1>6, <1>7, Disjoint
<1> QED BY <1>3, <1>4, <1>5, <1>6, <1>8, <1>9

LEMMA NodesFound ==
  ASSUME IndexInv, NEW limit \in Nat, NEW s \in FtsNodes(limit)
  PROVE  /\ s \in Seq(DOMAIN rowid) /\ Unlike(s) /\ Len(s) <= limit /\ Len(s) \in Nat
         /\ \A i \in DOMAIN s : s[i] \in Nodes /\ (s[i] \in ever \/ rowid[s[i]] \in haunted)
         /\ Cardinality(ever) + Cardinality(haunted) <= limit => \A n \in always : \E i \in DOMAIN s : s[i] = n
<1> DEFINE found_ == {n \in DOMAIN rowid : rowid[n] \in postings}
           A == found_ \cap SourceNodes
           B == found_ \ SourceNodes
<1>1. /\ IsFiniteSet(found_) /\ found_ \subseteq Nodes /\ always \subseteq found_ /\ found_ \subseteq DOMAIN rowid
      /\ \A n \in found_ : n \in ever \/ rowid[n] \in haunted
      /\ Cardinality(found_) <= Cardinality(ever) + Cardinality(haunted)
      /\ Cardinality(found_) \in Nat /\ Cardinality(ever) \in Nat /\ Cardinality(haunted) \in Nat
  <2>1. found_ \subseteq DOMAIN rowid
    OBVIOUS
  <2> QED BY <2>1, FoundFacts
<1>2. PICK first \in SetToSeqs(A), then \in SetToSeqs(B) : s = FirstOf(first \o then, limit)
  <2> DEFINE all == {FirstOf(first \o then, limit) : first \in SetToSeqs(A), then \in SetToSeqs(B)}
  <2>0. FtsNodes(limit) = all
    BY DEF FtsNodes
  <2>1. s \in all
    BY ONLY <2>0, s \in FtsNodes(limit)
  <2> HIDE DEF A, B
  <2> QED BY <2>1
<1> HIDE DEF found_
<1>3. IsFiniteSet(A) /\ IsFiniteSet(B) /\ A \cap B = {} /\ A \cup B = found_
  <2>1. A \in SUBSET found_ /\ B \in SUBSET found_ /\ A \cap B = {} /\ A \cup B = found_
    OBVIOUS
  <2>2. IsFiniteSet(found_)
    BY <1>1
  <2> HIDE DEF A, B
  <2>3. IsFiniteSet(A) /\ IsFiniteSet(B)
    BY ONLY <2>1, <2>2, FS_Subset
  <2> QED BY ONLY <2>1, <2>3
<1> HIDE DEF A, B
<1>4. first \in Seq(A) /\ Unlike(first) /\ ToSet(first) = A /\ then \in Seq(B) /\ Unlike(then) /\ ToSet(then) = B
  BY <1>3, OrderAll
<1>5. first \in Seq(found_) /\ then \in Seq(found_)
  BY <1>3, <1>4
<1> DEFINE all == first \o then
<1>6. all \in Seq(found_) /\ Unlike(all) /\ ToSet(all) = found_
  <2>1. all \in Seq(found_)
    BY <1>5, ConcatPlaces
  <2>2. ToSet(first) \cap ToSet(then) = {}
    BY <1>3, <1>4
  <2>3. Unlike(all) /\ ToSet(all) = ToSet(first) \cup ToSet(then)
    BY <1>4, <1>5, <2>2, ConcatUnlike
  <2> HIDE DEF all
  <2> QED BY <1>3, <1>4, <2>1, <2>3
<1>7. s = FirstOf(all, limit)
  BY <1>2
<1> HIDE DEF all
<1>8. Cardinality(found_) = Len(all)
  BY <1>6, UnlikeCount
<1>9. /\ s \in Seq(found_) /\ Len(all) \in Nat
      /\ Len(s) = IF Len(all) < limit THEN Len(all) ELSE limit
      /\ \A i \in DOMAIN s : i \in DOMAIN all /\ s[i] = all[i]
      /\ Len(all) <= limit => s = all
  BY <1>6, <1>7, FirstOfPlaces
<1>10. Unlike(s)
  BY <1>6, <1>9 DEF Unlike
<1>11. \A i \in DOMAIN s : s[i] \in found_
  BY <1>9
<1>12. Len(s) <= limit /\ Len(s) \in Nat
  BY <1>9
<1>13. Cardinality(ever) + Cardinality(haunted) <= limit => \A n \in always : \E i \in DOMAIN s : s[i] = n
  <2> SUFFICES ASSUME Cardinality(ever) + Cardinality(haunted) <= limit, NEW n \in always
               PROVE  \E i \in DOMAIN s : s[i] = n
    OBVIOUS
  <2>1. Len(all) <= limit
    BY <1>1, <1>8
  <2>2. n \in ToSet(all) /\ s = all
    BY <1>1, <1>6, <1>9, <2>1
  <2> QED BY <2>2 DEF ToSet
<1>14. s \in Seq(DOMAIN rowid)
  BY <1>1, <1>9
<1> QED BY <1>1, <1>10, <1>11, <1>12, <1>13, <1>14

LEMMA SymbolsFound ==
  ASSUME IndexInv, "tool" \in DOMAIN query, NEW limit \in Nat, NEW list \in FtsHits("code", limit)
  PROVE  Symbols(list, limit, ever, haunted, always) /\ From(list, Score("code", 0))
<1>1. PICK s \in FtsNodes(limit) :
        list = [i \in DOMAIN s |-> [source |-> "code", key |-> s[i], row |-> rowid[s[i]],
                                    score |-> Score("code", i - 1)]]
  BY DEF FtsHits
<1>2. /\ s \in Seq(DOMAIN rowid) /\ Unlike(s) /\ Len(s) <= limit /\ Len(s) \in Nat
      /\ \A i \in DOMAIN s : s[i] \in Nodes /\ (s[i] \in ever \/ rowid[s[i]] \in haunted)
      /\ Cardinality(ever) + Cardinality(haunted) <= limit => \A n \in always : \E i \in DOMAIN s : s[i] = n
  BY NodesFound
<1>3. \A n \in DOMAIN rowid : rowid[n] \in Nat
  BY DEF IndexInv, Indexes
<1>4. \A i \in Int : Score("code", i) = Score("code", 0) - i /\ Score("code", i) \in Int
  BY DEF Score
<1>5. DOMAIN list = DOMAIN s /\ DOMAIN s = 1 .. Len(s)
  BY <1>1, <1>2
<1>6. ASSUME NEW i \in DOMAIN s
      PROVE  /\ list[i] = [source |-> "code", key |-> s[i], row |-> rowid[s[i]], score |-> Score("code", i - 1)]
             /\ list[i].source = "code" /\ list[i].key = s[i] /\ list[i].row = rowid[s[i]]
             /\ list[i].score = Score("code", i - 1)
             /\ i - 1 \in Int /\ s[i] \in DOMAIN rowid
  BY <1>1, <1>2
<1>7. ASSUME NEW i \in DOMAIN s
      PROVE  list[i] \in Hits
  <2>1. s[i] \in Keys
    BY <1>2 DEF Keys
  <2>2. rowid[s[i]] \in Nat /\ Score("code", i - 1) \in Int
    BY <1>3, <1>4, <1>6
  <2>3. [source |-> "code", key |-> s[i], row |-> rowid[s[i]], score |-> Score("code", i - 1)] \in Hits
    BY <2>1, <2>2, HitType
  <2> QED BY <1>6, <2>3
<1>8. list \in Seq(Hits) /\ Len(list) = Len(s)
  <2>1. list = [i \in 1 .. Len(s) |-> list[i]]
    BY <1>1, <1>5
  <2> DEFINE T == Hits
  <2> HIDE DEF T
  <2>2. \A i \in 1 .. Len(s) : list[i] \in T
    BY <1>5, <1>7 DEF T
  <2>3. list \in Seq(T) /\ Len(list) = Len(s)
    BY <1>2, <2>1, <2>2
  <2> QED BY <2>3 DEF T
<1>9. Of(list, "code") /\ Keyed(list)
  BY <1>2, <1>5, <1>6 DEF Of, Keyed, Unlike
<1>10. From(list, Score("code", 0))
  BY <1>4, <1>5, <1>6 DEF From
<1>11. \A i \in DOMAIN list : list[i].key \in ever \/ list[i].row \in haunted
  BY <1>2, <1>5, <1>6
<1>12. Cardinality(ever) + Cardinality(haunted) <= limit =>
         \A n \in always : \E i \in DOMAIN list : list[i].key = n
  BY <1>2, <1>5, <1>6
<1> QED BY <1>2, <1>8, <1>9, <1>10, <1>11, <1>12 DEF Symbols

\* The memories of a scope, `limit' of them at most: always the same.
Remembered(list, scope, limit) ==
  /\ list \in Seq(Hits) /\ Of(list, scope) /\ Keyed(list) /\ Len(list) <= limit
  /\ Len(list) = Len(FirstOf(Memories[scope], limit))
  /\ FirstOf(Memories[scope], limit) = [i \in 1 .. Len(list) |-> list[i].key]

LEMMA MemoriesFound ==
  ASSUME "tool" \in DOMAIN query, NEW limit \in Nat, NEW scope \in {"workspace", "global"},
         NEW list \in FtsHits(scope, limit)
  PROVE  Remembered(list, scope, limit) /\ From(list, Score(scope, 0))
<1> DEFINE M == Memories[scope]
           s == FirstOf(M, limit)
           K == Range(M)
<1>1. M \in Seq(K) /\ IsInjective(M) /\ scope \in DOMAIN Memories
  BY SearchAssumption
<1>2. list = [i \in DOMAIN s |-> [source |-> scope, key |-> s[i], row |-> 0, score |-> Score(scope, i - 1)]]
  BY DEF FtsHits
<1>k. K \subseteq Keys
  BY <1>1 DEF Keys
<1> HIDE DEF M, K
<1>3. /\ s \in Seq(K) /\ Len(s) = (IF Len(M) < limit THEN Len(M) ELSE limit)
      /\ \A i \in DOMAIN s : i \in DOMAIN M /\ s[i] = M[i]
  BY <1>1, FirstOfPlaces
<1>4. Len(s) \in Nat /\ Len(s) <= limit /\ DOMAIN s = 1 .. Len(s) /\ s = [i \in 1 .. Len(s) |-> s[i]]
  BY <1>1, <1>3
<1> HIDE DEF s
<1>5. Unlike(s)
  BY <1>1, <1>3 DEF Unlike, IsInjective
<1>6. \A i \in Int : Score(scope, i) = Score(scope, 0) - i /\ Score(scope, i) \in Int
  BY DEF Score
<1>7. DOMAIN list = DOMAIN s
  BY <1>2
<1>8. ASSUME NEW i \in DOMAIN s
      PROVE  /\ list[i] = [source |-> scope, key |-> s[i], row |-> 0, score |-> Score(scope, i - 1)]
             /\ list[i].source = scope /\ list[i].key = s[i] /\ list[i].score = Score(scope, i - 1)
             /\ i - 1 \in Int /\ s[i] \in K
  BY <1>2, <1>3, <1>4
<1>9. ASSUME NEW i \in DOMAIN s
      PROVE  list[i] \in Hits
  <2>1. s[i] \in Keys /\ Score(scope, i - 1) \in Int
    BY <1>6, <1>8, <1>k
  <2>2. [source |-> scope, key |-> s[i], row |-> 0, score |-> Score(scope, i - 1)] \in Hits
    BY <2>1, HitType
  <2> QED BY <1>8, <2>2
<1>10. list \in Seq(Hits) /\ Len(list) = Len(s)
  <2>1. list = [i \in 1 .. Len(s) |-> list[i]]
    BY <1>2, <1>4, <1>7
  <2> DEFINE T == Hits
  <2> HIDE DEF T
  <2>2. \A i \in 1 .. Len(s) : list[i] \in T
    BY <1>4, <1>9 DEF T
  <2>3. list \in Seq(T) /\ Len(list) = Len(s)
    BY <1>4, <2>1, <2>2
  <2> QED BY <2>3 DEF T
<1>11. Of(list, scope) /\ Keyed(list)
  BY <1>5, <1>7, <1>8 DEF Of, Keyed, Unlike
<1>12. From(list, Score(scope, 0))
  BY <1>4, <1>6, <1>7, <1>8 DEF From
<1>13. s = [i \in 1 .. Len(list) |-> list[i].key]
  BY <1>4, <1>8, <1>10
<1> QED BY <1>4, <1>10, <1>11, <1>12, <1>13 DEF Remembered, s, M

-----------------------------------------------------------------------------
(***************************************************************************)
(* What a search has collected, and what it owes.                          *)
(***************************************************************************)
\* The score of a source's first hit.
Base(tool, source) ==
  IF tool = "memory" THEN (IF source = "global" THEN 1800 ELSE 2800)
  ELSE IF source = "code" THEN 4500 ELSE IF source = "workspace" THEN 3500 ELSE 3200

\* After k of FirstSteps(code, memories).
Collected(list, k, code, memories, tool, E, H, A) ==
  \E c, w, g :
    /\ list = (c \o w) \o g
    /\ IF k = 0 THEN c = <<>> ELSE Symbols(c, code, E, H, A) /\ From(c, Base(tool, "code"))
    /\ IF k < 3 THEN w = <<>>
       ELSE Remembered(w, "workspace", memories) /\ From(w, Base(tool, "workspace"))
    /\ IF k < 5 THEN g = <<>>
       ELSE Remembered(g, "global", memories) /\ From(g, Base(tool, "global"))

\* Finds, for such E, H and A.
Owes(list, code, memories, limit, E, H, A) ==
  LET cut == Len(list) >= limit IN
  /\ \A i, j \in DOMAIN list : i < j => SourceRank(list[i].source) <= SourceRank(list[j].source)
  /\ \A i \in DOMAIN list : list[i].source = "code" => list[i].key \in E \/ list[i].row \in H
  /\ IsInjective(KeysOf(list, "code"))
  /\ Cardinality(E) + Cardinality(H) <= code /\ ~ cut => A \subseteq ToSet(KeysOf(list, "code"))
  /\ \A scope \in DOMAIN Memories :
       LET all == FirstOf(Memories[scope], memories) IN
       IF cut THEN IsPrefix(KeysOf(list, scope), all) ELSE KeysOf(list, scope) = all

\* The more have matched or are haunted, and the fewer have matched all the time, the less.
LEMMA Grown ==
  ASSUME NEW E, NEW H, NEW A, NEW E1, NEW H1, NEW A1, E \subseteq E1, H \subseteq H1, A1 \subseteq A,
         IsFiniteSet(E1), IsFiniteSet(H1), NEW limit \in Nat
  PROVE  Cardinality(E1) + Cardinality(H1) <= limit => Cardinality(E) + Cardinality(H) <= limit
<1> DEFINE a == Cardinality(E)
           b == Cardinality(H)
           a1 == Cardinality(E1)
           b1 == Cardinality(H1)
<1>1. a \in Nat /\ b \in Nat /\ a1 \in Nat /\ b1 \in Nat /\ a <= a1 /\ b <= b1
  BY FS_Subset, FS_CardinalityType
<1> HIDE DEF a, b, a1, b1
<1>2. a1 + b1 <= limit => a + b <= limit
  BY <1>1
<1> QED BY <1>2 DEF a, b, a1, b1

LEMMA SymbolsStay ==
  ASSUME NEW E, NEW H, NEW A, NEW E1, NEW H1, NEW A1, E \subseteq E1, H \subseteq H1, A1 \subseteq A,
         IsFiniteSet(E1), IsFiniteSet(H1), NEW limit \in Nat, NEW list, Symbols(list, limit, E, H, A)
  PROVE  Symbols(list, limit, E1, H1, A1)
<1>1. Cardinality(E1) + Cardinality(H1) <= limit => Cardinality(E) + Cardinality(H) <= limit
  BY Grown
<1> QED BY <1>1 DEF Symbols

LEMMA CollectedStay ==
  ASSUME NEW E, NEW H, NEW A, NEW E1, NEW H1, NEW A1, E \subseteq E1, H \subseteq H1, A1 \subseteq A,
         IsFiniteSet(E1), IsFiniteSet(H1), NEW code \in Nat, NEW memories, NEW tool, NEW list, NEW k,
         Collected(list, k, code, memories, tool, E, H, A)
  PROVE  Collected(list, k, code, memories, tool, E1, H1, A1)
<1>1. ASSUME NEW c, Symbols(c, code, E, H, A)
      PROVE  Symbols(c, code, E1, H1, A1)
  BY <1>1, SymbolsStay
<1> QED BY <1>1 DEF Collected

LEMMA OwesStay ==
  ASSUME NEW E, NEW H, NEW A, NEW E1, NEW H1, NEW A1, E \subseteq E1, H \subseteq H1, A1 \subseteq A,
         IsFiniteSet(E1), IsFiniteSet(H1), NEW code \in Nat, NEW memories, NEW limit, NEW list,
         Owes(list, code, memories, limit, E, H, A)
  PROVE  Owes(list, code, memories, limit, E1, H1, A1)
<1>1. Cardinality(E1) + Cardinality(H1) <= code => Cardinality(E) + Cardinality(H) <= code
  BY Grown
<1>2. /\ Cardinality(E) + Cardinality(H) <= code /\ ~ (Len(list) >= limit) =>
           A \subseteq ToSet(KeysOf(list, "code"))
      /\ \A i \in DOMAIN list : list[i].source = "code" => list[i].key \in E \/ list[i].row \in H
  BY DEF Owes
<1>3. /\ Cardinality(E1) + Cardinality(H1) <= code /\ ~ (Len(list) >= limit) =>
           A1 \subseteq ToSet(KeysOf(list, "code"))
      /\ \A i \in DOMAIN list : list[i].source = "code" => list[i].key \in E1 \/ list[i].row \in H1
  BY <1>1, <1>2
<1> QED BY <1>3 DEF Owes

FirstKeys(t, n) == [k \in 1 .. n |-> t[k].key]

\* The hits of a source are those from lo to hi, and they are those of t.
Stretch(list, source, lo, hi) ==
  /\ list \in Seq(Hits) /\ lo \in Nat /\ hi \in Nat /\ lo <= hi /\ hi <= Len(list)
  /\ \A i \in DOMAIN list : (list[i].source = source) <=> (lo < i /\ i <= hi)

Shifted(list, lo, t, n) == \A k \in 1 .. n : list[lo + k] = t[k]

LEMMA KeysRun ==
  ASSUME NEW list, NEW source, NEW lo, NEW hi, NEW t,
         Stretch(list, source, lo, hi), Shifted(list, lo, t, hi - lo)
  PROVE  KeysOf(list, source) = FirstKeys(t, hi - lo)
<1> DEFINE I == {i \in DOMAIN list : list[i].source = source}
           those == Selected(list, I)
           T == Hits
<1>1. I = {i \in DOMAIN list : lo < i /\ i <= hi}
  BY DEF Stretch
<1>2. list \in Seq(T)
  BY DEF Stretch
<1> HIDE DEF I, T
<1>5. /\ DOMAIN Selected(list, I) = 1 .. hi - lo
      /\ \A k \in 1 .. hi - lo : Selected(list, I)[k] = list[lo + k]
  <2>1. lo \in Nat /\ hi \in Nat /\ lo <= hi /\ hi <= Len(list)
    BY DEF Stretch
  <2> QED BY ONLY <1>1, <1>2, <2>1, SelectedRun
<1>3. DOMAIN those = 1 .. hi - lo /\ \A k \in 1 .. hi - lo : those[k] = list[lo + k]
  BY <1>5
<1>4. KeysOf(list, source) = [i \in DOMAIN those |-> those[i].key]
  BY DEF KeysOf, I
<1> HIDE DEF those
<1>6. \A k \in 1 .. hi - lo : those[k].key = t[k].key
  BY <1>3 DEF Shifted
<1> QED BY <1>3, <1>4, <1>6 DEF FirstKeys

LEMMA PrefixKept ==
  ASSUME NEW m \in Nat, NEW n \in Nat, m <= n, NEW t
  PROVE  IsPrefix(FirstKeys(t, m), FirstKeys(t, n))
<1> DEFINE s == [k \in 1 .. m |-> t[k].key]
           u == [k \in 1 .. n |-> t[k].key]
           S == {t[k].key : k \in 1 .. n}
<1>1. s \in Seq(S) /\ u \in Seq(S) /\ Len(s) = m /\ Len(u) = n
  <2>1. \A k \in 1 .. n : t[k].key \in S
    OBVIOUS
  <2>2. \A k \in 1 .. m : k \in 1 .. n
    OBVIOUS
  <2> HIDE DEF S
  <2> QED BY <2>1, <2>2
<1>2. \A k \in 1 .. m : s[k] = u[k]
  OBVIOUS
<1> HIDE DEF s, u, S
<1>3. SubSeq(s, 1, m) \in Seq(S) /\ SubSeq(u, 1, m) \in Seq(S) /\ Len(SubSeq(s, 1, m)) = m
      /\ Len(SubSeq(u, 1, m)) = m /\ \A k \in 1 .. m : SubSeq(s, 1, m)[k] = s[k] /\ SubSeq(u, 1, m)[k] = u[k]
  BY <1>1
<1>4. SubSeq(s, 1, m) = SubSeq(u, 1, m)
  <2> DEFINE x == SubSeq(s, 1, m)
             y == SubSeq(u, 1, m)
  <2>1. x \in Seq(S) /\ y \in Seq(S) /\ Len(x) = m /\ Len(y) = m /\ \A k \in 1 .. m : x[k] = y[k]
    BY <1>2, <1>3
  <2> HIDE DEF x, y
  <2>2. x = y
    BY <2>1
  <2> QED BY <2>2 DEF x, y
<1> QED BY <1>1, <1>4 DEF IsPrefix, FirstKeys, s, u

Lesser(x, y) == IF x < y THEN x ELSE y

LEMMA PartsOf ==
  ASSUME NEW c, NEW w, NEW g, NEW code, NEW memories, NEW E, NEW H, NEW A,
         c = <<>> \/ Symbols(c, code, E, H, A),
         w = <<>> \/ Remembered(w, "workspace", memories),
         g = <<>> \/ Remembered(g, "global", memories)
  PROVE  Parts(c, w, g)
<1>1. <<>> \in Seq(Hits) /\ Keyed(<<>>) /\ \A source : Of(<<>>, source)
  BY DEF Keyed, Of
<1>2. c \in Seq(Hits) /\ Of(c, "code") /\ Keyed(c)
  BY <1>1 DEF Symbols
<1>3. w \in Seq(Hits) /\ Of(w, "workspace") /\ Keyed(w)
  BY <1>1 DEF Remembered
<1>4. g \in Seq(Hits) /\ Of(g, "global") /\ Keyed(g)
  BY <1>1 DEF Remembered
<1> QED BY <1>2, <1>3, <1>4 DEF Parts

\* As Stretch, where the list may have been cut off.
Slice(list, source, lo, hi, t) ==
  \A i \in DOMAIN list : /\ list[i].source = source <=> lo < i /\ i <= hi
                         /\ lo < i /\ i <= hi => list[i] = t[i - lo]

\* What a search that has asked every source gives in the end is what it owes.
LEMMA EndsOwed ==
  ASSUME NEW code, NEW memories, NEW tool, NEW E, NEW H, NEW A, NEW all, NEW limit \in Nat,
         Collected(all, 6, code, memories, tool, E, H, A)
  PROVE  Owes(FirstOf(all, limit), code, memories, limit, E, H, A)
<1>1. PICK c, w, g : /\ all = (c \o w) \o g
                     /\ Symbols(c, code, E, H, A)
                     /\ Remembered(w, "workspace", memories) /\ Remembered(g, "global", memories)
  <2>1. ~ (6 = 0) /\ ~ (6 < 3) /\ ~ (6 < 5)
    OBVIOUS
  <2> QED BY <2>1, Zenon DEF Collected
<1>2. Parts(c, w, g) /\ Placed(c, w, g, all)
  <2>1. Parts(c, w, g)
    BY <1>1, PartsOf
  <2> QED BY <1>1, <2>1, PartsPlaces
<1> DEFINE list == FirstOf(all, limit)
           n == Len(list)
           a == Len(c)
           b == Len(c) + Len(w)
           d == Len(all)
<1>3. /\ a \in Nat /\ b \in Nat /\ d \in Nat /\ a <= b /\ b <= d
      /\ b - a = Len(w) /\ d - b = Len(g) /\ d = b + Len(g) /\ Len(w) \in Nat /\ Len(g) \in Nat
  BY <1>2 DEF Placed
<1>4. /\ list \in Seq(Hits) /\ n = Lesser(d, limit) /\ n \in Nat
      /\ \A i \in DOMAIN list : i \in DOMAIN all /\ list[i] = all[i]
      /\ d <= limit => list = all
  <2>1. all \in Seq(Hits)
    BY <1>2 DEF Placed
  <2>2. /\ list \in Seq(Hits) /\ n = Lesser(d, limit)
        /\ \A i \in DOMAIN list : i \in DOMAIN all /\ list[i] = all[i]
        /\ d <= limit => list = all
    BY <2>1, FirstOfPlaces DEF Lesser
  <2> HIDE DEF n
  <2>3. n \in Nat
    BY <1>3, <2>2 DEF Lesser
  <2> QED BY <2>2, <2>3
<1>5. /\ DOMAIN list = 1 .. n /\ n <= d /\ (n < limit => n = d) /\ (n < limit => d <= limit)
  <2>1. DOMAIN list = 1 .. n
    BY <1>4
  <2> HIDE DEF n, d, list
  <2> QED BY <1>3, <1>4, <2>1 DEF Lesser
<1>6. \A i \in DOMAIN list :
        /\ i \in Nat /\ i >= 1 /\ i <= n
        /\ i <= a => i \in DOMAIN c /\ list[i] = c[i] /\ list[i].source = "code"
        /\ a < i /\ i <= b => list[i] = w[i - a] /\ list[i].source = "workspace"
        /\ b < i => list[i] = g[i - b] /\ list[i].source = "global"
  <2> SUFFICES ASSUME NEW i \in DOMAIN list
               PROVE  /\ i \in Nat /\ i >= 1 /\ i <= n
                      /\ i <= a => i \in DOMAIN c /\ list[i] = c[i] /\ list[i].source = "code"
                      /\ a < i /\ i <= b => list[i] = w[i - a] /\ list[i].source = "workspace"
                      /\ b < i => list[i] = g[i - b] /\ list[i].source = "global"
    OBVIOUS
  <2>1. i \in DOMAIN all /\ list[i] = all[i] /\ i <= n
    BY <1>4, <1>5
  <2>2. /\ i \in Nat /\ i >= 1
        /\ i <= Len(c) => i \in DOMAIN c /\ all[i] = c[i]
        /\ Len(c) < i /\ i <= Len(c) + Len(w) => i - Len(c) \in DOMAIN w /\ all[i] = w[i - Len(c)]
        /\ Len(c) + Len(w) < i => i - Len(c) - Len(w) \in DOMAIN g /\ all[i] = g[i - Len(c) - Len(w)]
    BY <1>2, <2>1 DEF Placed
  <2>3. i - Len(c) - Len(w) = i - b
    BY <1>3, <2>2
  <2>4. /\ \A j \in DOMAIN c : c[j].source = "code"
        /\ \A j \in DOMAIN w : w[j].source = "workspace"
        /\ \A j \in DOMAIN g : g[j].source = "global"
    BY <1>2 DEF Parts, Of
  <2>5. i <= a => i \in DOMAIN c /\ list[i] = c[i] /\ list[i].source = "code"
    BY <2>1, <2>2, <2>4
  <2>6. a < i /\ i <= b => list[i] = w[i - a] /\ list[i].source = "workspace"
    BY <2>1, <2>2, <2>4
  <2>7. b < i => list[i] = g[i - b] /\ list[i].source = "global"
    BY <2>1, <2>2, <2>3, <2>4
  <2> HIDE DEF list, n, a, b
  <2> QED BY <2>1, <2>2, <2>5, <2>6, <2>7
<1> HIDE DEF list, n, a, b, d
<1>7. "code" # "workspace" /\ "code" # "global" /\ "workspace" # "global"
  OBVIOUS
<1>8. \A i \in DOMAIN list : /\ list[i].source = "code" <=> i <= a
                             /\ list[i].source = "workspace" <=> a < i /\ i <= b
                             /\ list[i].source = "global" <=> b < i
  <2>1. \A i \in DOMAIN list : i <= a \/ (a < i /\ i <= b) \/ b < i
    BY <1>3, <1>6
  <2> QED BY <1>3, <1>6, <1>7, <2>1
<1>9. KeysOf(list, "code") = FirstKeys(c, Lesser(n, a))
  <2> DEFINE m == Lesser(n, a)
  <2>1. m \in Nat /\ m <= n /\ m <= a /\ m - 0 = m /\ m = Lesser(n, a)
    BY <1>3, <1>4 DEF Lesser
  <2>2. \A i \in DOMAIN list : (list[i].source = "code") <=> (0 < i /\ i <= m)
    BY <1>3, <1>4, <1>5, <1>6, <1>8 DEF Lesser
  <2> HIDE DEF m
  <2>3. \A k \in 1 .. m - 0 : list[0 + k] = c[k]
    <3> SUFFICES ASSUME NEW k \in 1 .. m - 0
                 PROVE  list[0 + k] = c[k]
      OBVIOUS
    <3>1. 0 + k = k /\ k \in 1 .. n /\ k <= a
      BY <1>3, <1>4, <2>1
    <3> QED BY <1>5, <1>6, <3>1
  <2>4. list \in Seq(Hits) /\ 0 \in Nat /\ 0 <= m /\ m <= Len(list)
    BY <1>4, <2>1 DEF n
  <2>5. KeysOf(list, "code") = FirstKeys(c, m - 0)
    <3>1. Stretch(list, "code", 0, m)
      BY <2>1, <2>2, <2>4 DEF Stretch
    <3>2. Shifted(list, 0, c, m - 0)
      BY <2>3 DEF Shifted
    <3> QED BY <3>1, <3>2, KeysRun
  <2> QED BY <2>1, <2>5
<1>10. ASSUME NEW scope, NEW t, NEW lo \in Nat, NEW hi \in Nat, lo <= hi,
              NEW all_, all_ = FirstKeys(t, hi - lo),
              Slice(list, scope, lo, hi, t)
       PROVE  /\ IsPrefix(KeysOf(list, scope), all_)
              /\ hi <= n => KeysOf(list, scope) = all_
  <2> DEFINE l == Lesser(n, lo)
             h == Lesser(n, hi)
  <2>1. /\ l \in Nat /\ h \in Nat /\ l <= h /\ h <= n /\ h - l \in Nat /\ hi - lo \in Nat /\ h - l <= hi - lo
        /\ (hi <= n => h = hi /\ l = lo) /\ (l < h => l = lo)
    BY <1>4, <1>10 DEF Lesser
  <2>2. \A i \in DOMAIN list : list[i].source = scope <=> l < i /\ i <= h
    BY <1>4, <1>5, <1>6, <1>10 DEF Lesser, Slice
  <2> HIDE DEF l, h
  <2>3. \A k \in 1 .. h - l : list[l + k] = t[k]
    <3> SUFFICES ASSUME NEW k \in 1 .. h - l
                 PROVE  list[l + k] = t[k]
      OBVIOUS
    <3>0. k \in Nat /\ k >= 1 /\ k <= h - l /\ n \in Nat
      BY <1>4, <2>1
    <3>1. l = lo /\ k \in Nat /\ l + k <= h /\ l < l + k /\ (l + k) - lo = k /\ l + k \in 1 .. n
      <4>1. l < h
        BY <2>1, <3>0
      <4>2. l = lo
        BY <2>1, <4>1
      <4> QED BY <2>1, <3>0, <4>2
    <3>2. l + k \in DOMAIN list /\ list[l + k].source = scope
      BY <1>5, <2>2, <3>1
    <3> QED BY <1>10, <3>1, <3>2 DEF Slice
  <2>4. list \in Seq(Hits) /\ h <= Len(list)
    BY <1>4, <2>1 DEF n
  <2>5. KeysOf(list, scope) = FirstKeys(t, h - l)
    <3>1. l \in Nat /\ h \in Nat /\ l <= h
      BY <2>1
    <3>2. Stretch(list, scope, l, h)
      BY <2>2, <2>4, <3>1 DEF Stretch
    <3>3. Shifted(list, l, t, h - l)
      BY <2>3 DEF Shifted
    <3> QED BY <3>2, <3>3, KeysRun
  <2>6. IsPrefix(FirstKeys(t, h - l), FirstKeys(t, hi - lo))
    <3>1. h - l \in Nat /\ hi - lo \in Nat /\ h - l <= hi - lo
      BY <2>1
    <3> QED BY ONLY <3>1, PrefixKept
  <2>7. IsPrefix(KeysOf(list, scope), all_)
    BY <1>10, <2>5, <2>6
  <2>8. hi <= n => KeysOf(list, scope) = all_
    BY <1>10, <2>1, <2>5
  <2> QED BY <2>7, <2>8
<1>11. ASSUME NEW scope \in {"workspace", "global"}
       PROVE  LET told == FirstOf(Memories[scope], memories) IN
              IF n >= limit THEN IsPrefix(KeysOf(list, scope), told) ELSE KeysOf(list, scope) = told
  <2> DEFINE told == FirstOf(Memories[scope], memories)
  <2>1. IsPrefix(KeysOf(list, scope), told) /\ (d <= n => KeysOf(list, scope) = told)
    <3>1. CASE scope = "workspace"
      <4>1. told = FirstKeys(w, b - a)
        BY <1>1, <1>3, <3>1 DEF Remembered, FirstKeys
      <4>2. Slice(list, scope, a, b, w)
        BY <1>6, <1>8, <3>1 DEF Slice
      <4> HIDE DEF told
      <4>3. IsPrefix(KeysOf(list, scope), told) /\ (b <= n => KeysOf(list, scope) = told)
        BY <1>3, <1>10, <4>1, <4>2
      <4>4. d <= n => b <= n
        BY <1>3, <1>4
      <4> QED BY <4>3, <4>4
    <3>2. CASE scope = "global"
      <4>1. told = FirstKeys(g, d - b)
        BY <1>1, <1>3, <3>2 DEF Remembered, FirstKeys
      <4>2. Slice(list, scope, b, d, g)
        <5>1. \A i \in DOMAIN list : i <= d
          BY <1>3, <1>4, <1>5, <1>6
        <5> QED BY <1>6, <1>8, <3>2, <5>1 DEF Slice
      <4> HIDE DEF told
      <4>3. IsPrefix(KeysOf(list, scope), told) /\ (d <= n => KeysOf(list, scope) = told)
        BY <1>3, <1>10, <4>1, <4>2
      <4> QED BY <4>3
    <3> QED BY <3>1, <3>2
  <2>2. ~ (n >= limit) => d <= n
    BY <1>3, <1>4, <1>5
  <2> QED BY <2>1, <2>2
<1>12. \A i, j \in DOMAIN list : i < j => SourceRank(list[i].source) <= SourceRank(list[j].source)
  <2>1. SourceRank("code") = 1 /\ SourceRank("workspace") = 2 /\ SourceRank("global") = 3
    BY DEF SourceRank
  <2>2. \A i \in DOMAIN list : SourceRank(list[i].source) = IF i <= a THEN 1 ELSE IF i <= b THEN 2 ELSE 3
    BY <1>3, <1>6, <2>1
  <2> QED BY <1>3, <1>6, <2>2
<1>13. \A i \in DOMAIN list : list[i].source = "code" => list[i].key \in E \/ list[i].row \in H
  BY <1>1, <1>6, <1>8 DEF Symbols
<1>14. \A k \in DOMAIN c : k \in Nat
  BY <1>2 DEF Parts
<1>15. DOMAIN c = 1 .. a
  BY <1>2 DEF Parts, a
<1>16. IsInjective(KeysOf(list, "code"))
  <2> DEFINE m == Lesser(n, a)
             s == FirstKeys(c, m)
  <2>1. \A k \in 1 .. m : k \in DOMAIN c
    BY <1>3, <1>4, <1>15 DEF Lesser
  <2> HIDE DEF m
  <2>2. IsInjective(s)
    BY <1>1, <2>1 DEF Symbols, Keyed, IsInjective, FirstKeys
  <2> QED BY <1>9, <2>2 DEF m
<1>17. Cardinality(E) + Cardinality(H) <= code /\ ~ (n >= limit) => A \subseteq ToSet(KeysOf(list, "code"))
  <2> SUFFICES ASSUME Cardinality(E) + Cardinality(H) <= code, ~ (n >= limit), NEW x \in A
               PROVE  x \in ToSet(KeysOf(list, "code"))
    OBVIOUS
  <2>1. PICK i \in DOMAIN c : c[i].key = x
    BY <1>1 DEF Symbols
  <2>2. Lesser(n, a) = a
    BY <1>3, <1>4, <1>5 DEF Lesser
  <2>3. KeysOf(list, "code") = FirstKeys(c, a)
    BY <1>9, <2>2
  <2> QED BY <1>15, <2>1, <2>3 DEF ToSet, FirstKeys
<1>18. DOMAIN Memories = {"workspace", "global"}
  BY SearchAssumption
<1>19. Owes(list, code, memories, limit, E, H, A)
  BY <1>11, <1>12, <1>13, <1>16, <1>17, <1>18 DEF Owes, n
<1> QED BY <1>19 DEF list

LEMMA RankedCollected ==
  ASSUME NEW code \in 0 .. 100, NEW memories \in 0 .. 100, NEW tool, tool = "memory" => code = 0,
         NEW E, NEW H, NEW A, NEW all, Collected(all, 6, code, memories, tool, E, H, A)
  PROVE  Ranked(all) = all
<1>1. PICK c, w, g : /\ all = (c \o w) \o g
                     /\ Symbols(c, code, E, H, A) /\ From(c, Base(tool, "code"))
                     /\ Remembered(w, "workspace", memories) /\ From(w, Base(tool, "workspace"))
                     /\ Remembered(g, "global", memories) /\ From(g, Base(tool, "global"))
  <2>1. ~ (6 = 0) /\ ~ (6 < 3) /\ ~ (6 < 5)
    OBVIOUS
  <2> QED BY <2>1, Zenon DEF Collected
<1>2. Parts(c, w, g)
  BY <1>1, PartsOf
<1>3. all \in Seq(Hits)
  BY <1>1, <1>2, PartsPlaces DEF Placed
<1>4. Len(c) \in Nat /\ Len(w) \in Nat /\ Len(c) <= code /\ Len(w) <= memories
  BY <1>1, <1>2 DEF Parts, Symbols, Remembered
<1>5. CASE tool # "memory"
  <2>1. From(c, 4500) /\ From(w, 3500) /\ From(g, 3200)
    BY <1>1, <1>5 DEF Base
  <2>2. 4500 > 3500 + Len(c) /\ 3500 > 3200 + Len(w) /\ 4500 > 3200 + Len(c)
    BY <1>4
  <2>3. Falling(all)
    <3>1. PICK x \in Int, y \in Int, z \in Int :
            /\ From(c, x) /\ From(w, y) /\ From(g, z)
            /\ x > y + Len(c) /\ y > z + Len(w) /\ x > z + Len(c)
      BY <2>1, <2>2
    <3> QED BY <1>1, <1>2, <3>1, PartsFall
  <2> QED BY <1>3, <2>3, RankedSame
<1>6. CASE tool = "memory"
  <2>1. From(w, 2800) /\ From(g, 1800)
    BY <1>1, <1>6 DEF Base
  <2>2. Len(c) = 0 /\ DOMAIN c = {}
    <3>1. Len(c) = 0
      BY <1>4, <1>6
    <3> QED BY <1>2, <3>1 DEF Parts
  <2>3. From(c, 4500)
    BY <2>2 DEF From
  <2>4. 4500 > 2800 + Len(c) /\ 2800 > 1800 + Len(w) /\ 4500 > 1800 + Len(c)
    BY <1>4, <2>2
  <2>5. Falling(all)
    <3>1. PICK x \in Int, y \in Int, z \in Int :
            /\ From(c, x) /\ From(w, y) /\ From(g, z)
            /\ x > y + Len(c) /\ y > z + Len(w) /\ x > z + Len(c)
      BY <2>1, <2>3, <2>4
    <3> QED BY <1>1, <1>2, <3>1, PartsFall
  <2> QED BY <1>3, <2>5, RankedSame
<1> QED BY <1>5, <1>6

\* Hits of one source after the other, all of them are pushed.
LEMMA PushedParts ==
  ASSUME NEW c, NEW w, NEW g, Parts(c, w, g), NEW all, all = (c \o w) \o g,
         NEW list \in Seq(Hits), NEW new \in Seq(Hits), all = list \o new
  PROVE  PushAll(list, new) = all
<1> DEFINE u == list \o new
<1>1. u = all
  OBVIOUS
<1>2. Differ(all)
  BY PartsDiffer
<1>3. Differ(u)
  BY <1>1, <1>2
<1>4. PushAll(list, new) = u
  BY <1>3, PushedAll DEF u
<1> HIDE DEF u
<1> QED BY <1>1, <1>4

LEMMA Nothing ==
  ASSUME NEW S, NEW s \in Seq(S)
  PROVE  <<>> \o s = s /\ s \o <<>> = s /\ <<>> \in Seq(S)
OBVIOUS

LEMMA CollectedMore ==
  ASSUME NEW code, NEW memories, NEW tool, NEW E, NEW H, NEW A, NEW list, NEW new, NEW k \in {0, 2, 4},
         Collected(list, k, code, memories, tool, E, H, A),
         k = 0 => Symbols(new, code, E, H, A) /\ From(new, Base(tool, "code")),
         k = 2 => Remembered(new, "workspace", memories) /\ From(new, Base(tool, "workspace")),
         k = 4 => Remembered(new, "global", memories) /\ From(new, Base(tool, "global"))
  PROVE  Collected(PushAll(list, new), k + 1, code, memories, tool, E, H, A)
<1>0. ~ (2 = 0) /\ ~ (4 = 0) /\ 0 < 3 /\ 2 < 3 /\ ~ (4 < 3) /\ 0 < 5 /\ 2 < 5 /\ 4 < 5
      /\ 1 # 0 /\ 3 # 0 /\ 5 # 0 /\ 1 < 3 /\ ~ (3 < 3) /\ ~ (5 < 3) /\ 1 < 5 /\ 3 < 5 /\ ~ (5 < 5)
      /\ 0 + 1 = 1 /\ 2 + 1 = 3 /\ 4 + 1 = 5
  OBVIOUS
<1>1. PICK c, w, g :
        /\ list = (c \o w) \o g
        /\ IF k = 0 THEN c = <<>> ELSE Symbols(c, code, E, H, A) /\ From(c, Base(tool, "code"))
        /\ IF k < 3 THEN w = <<>>
           ELSE Remembered(w, "workspace", memories) /\ From(w, Base(tool, "workspace"))
        /\ IF k < 5 THEN g = <<>>
           ELSE Remembered(g, "global", memories) /\ From(g, Base(tool, "global"))
  BY DEF Collected
<1>2. CASE k = 0
  <2>1. c = <<>> /\ w = <<>> /\ g = <<>> /\ Symbols(new, code, E, H, A) /\ From(new, Base(tool, "code"))
    BY <1>0, <1>1, <1>2
  <2>2. Parts(new, <<>>, <<>>)
    BY <2>1, PartsOf
  <2>3. new \in Seq(Hits)
    BY <2>2 DEF Parts
  <2>4. list = <<>> /\ list \o new = (new \o <<>>) \o <<>> /\ list \in Seq(Hits)
    BY <1>1, <2>1, <2>3
  <2>5. PushAll(list, new) = (new \o <<>>) \o <<>>
    <3>1. PICK all : all = (new \o <<>>) \o <<>>
      OBVIOUS
    <3>2. all = list \o new
      BY <2>4, <3>1
    <3>3. PushAll(list, new) = all
      BY <2>2, <2>3, <2>4, <3>1, <3>2, PushedParts, Zenon
    <3> QED BY <3>1, <3>3
  <2>6. Collected(PushAll(list, new), 1, code, memories, tool, E, H, A)
    BY <1>0, <2>1, <2>5, Zenon DEF Collected
  <2> QED BY <1>0, <1>2, <2>6
<1>3. CASE k = 2
  <2>1. /\ Symbols(c, code, E, H, A) /\ From(c, Base(tool, "code")) /\ w = <<>> /\ g = <<>>
        /\ Remembered(new, "workspace", memories) /\ From(new, Base(tool, "workspace"))
    BY <1>0, <1>1, <1>3
  <2>2. Parts(c, new, <<>>)
    BY <2>1, PartsOf
  <2>3. new \in Seq(Hits) /\ c \in Seq(Hits)
    BY <2>2 DEF Parts
  <2>4. list = c /\ list \o new = (c \o new) \o <<>>
    <3>1. list = (c \o <<>>) \o <<>> /\ c \o <<>> = c
      BY <1>1, <2>1, <2>3, Nothing
    <3>2. c \o new \in Seq(Hits)
      BY <2>3, ConcatPlaces
    <3> QED BY <3>1, <3>2, Nothing
  <2>5. PushAll(list, new) = (c \o new) \o <<>>
    <3>1. PICK all : all = (c \o new) \o <<>>
      OBVIOUS
    <3>2. all = list \o new
      BY <2>4, <3>1
    <3>3. PushAll(list, new) = all
      BY <2>2, <2>3, <2>4, <3>1, <3>2, PushedParts, Zenon
    <3> QED BY <3>1, <3>3
  <2>6. Collected(PushAll(list, new), 3, code, memories, tool, E, H, A)
    BY <1>0, <2>1, <2>5, Zenon DEF Collected
  <2> QED BY <1>0, <1>3, <2>6
<1>4. CASE k = 4
  <2>1. /\ Symbols(c, code, E, H, A) /\ From(c, Base(tool, "code")) /\ g = <<>>
        /\ Remembered(w, "workspace", memories) /\ From(w, Base(tool, "workspace"))
        /\ Remembered(new, "global", memories) /\ From(new, Base(tool, "global"))
    BY <1>0, <1>1, <1>4
  <2>2. Parts(c, w, new)
    BY <2>1, PartsOf
  <2>3. new \in Seq(Hits) /\ c \in Seq(Hits) /\ w \in Seq(Hits)
    BY <2>2 DEF Parts
  <2>4. list = c \o w /\ list \in Seq(Hits) /\ list \o new = (c \o w) \o new
    <3>1. c \o w \in Seq(Hits)
      BY <2>3, ConcatPlaces
    <3>2. list = c \o w
      BY <1>1, <2>1, <3>1, Nothing
    <3> QED BY <3>1, <3>2
  <2>5. PushAll(list, new) = (c \o w) \o new
    <3>1. PICK all : all = (c \o w) \o new
      OBVIOUS
    <3>2. all = list \o new
      BY <2>4, <3>1
    <3>3. PushAll(list, new) = all
      BY <2>2, <2>3, <2>4, <3>1, <3>2, PushedParts, Zenon
    <3> QED BY <3>1, <3>3
  <2>6. Collected(PushAll(list, new), 5, code, memories, tool, E, H, A)
    BY <1>0, <2>1, <2>5, Zenon DEF Collected
  <2> QED BY <1>0, <1>4, <2>6
<1> QED BY <1>2, <1>3, <1>4

LEMMA CollectedSkip ==
  ASSUME NEW code, NEW memories, NEW tool, NEW E, NEW H, NEW A, NEW list, NEW k \in {1, 3, 5},
         Collected(list, k, code, memories, tool, E, H, A)
  PROVE  Collected(list, k + 1, code, memories, tool, E, H, A)
<1>1. k + 1 # 0 /\ k # 0 /\ ((k + 1 < 3) <=> (k < 3)) /\ ((k + 1 < 5) <=> (k < 5))
  OBVIOUS
<1> QED BY <1>1, Zenon DEF Collected

\* A search for memories skips the symbols.
LEMMA CollectedNone ==
  ASSUME NEW code \in Nat, NEW memories, NEW tool, NEW E, NEW H, NEW A,
         A \subseteq E, IsFiniteSet(E), IsFiniteSet(H)
  PROVE  /\ Collected(<<>>, 0, code, memories, tool, E, H, A)
         /\ Collected(<<>>, 2, 0, memories, tool, E, H, A)
<1>1. <<>> = (<<>> \o <<>>) \o <<>>
  OBVIOUS
<1>2. Symbols(<<>>, 0, E, H, A) /\ From(<<>>, Base(tool, "code"))
  <2>1. Cardinality(E) + Cardinality(H) <= 0 => A = {}
    <3>1. Cardinality(E) \in Nat /\ Cardinality(H) \in Nat /\ (Cardinality(E) = 0 <=> E = {})
      BY FS_CardinalityType, FS_EmptySet
    <3> QED BY <3>1
  <2>2. <<>> \in Seq(Hits) /\ DOMAIN <<>> = {} /\ Len(<<>>) = 0
    OBVIOUS
  <2> QED BY <2>1, <2>2 DEF Symbols, Of, Keyed, From
<1>3. 0 < 3 /\ 0 < 5 /\ 2 # 0 /\ 2 < 3 /\ 2 < 5
  OBVIOUS
<1>4. Collected(<<>>, 0, code, memories, tool, E, H, A)
  BY <1>1, <1>3, Zenon DEF Collected
<1>5. Collected(<<>>, 2, 0, memories, tool, E, H, A)
  BY <1>1, <1>2, <1>3, Zenon DEF Collected
<1> QED BY <1>4, <1>5

-----------------------------------------------------------------------------
(***************************************************************************)
(* The programs of the searches.                                           *)
(***************************************************************************)
LEMMA Limits ==
  /\ CodeLimit \in 0 .. 100 /\ MemoryLimit \in 0 .. 100 /\ DeepProbe \in 0 .. 100
  /\ CodeLimit \in Nat /\ MemoryLimit \in Nat /\ DeepProbe \in Nat /\ Probe \in Nat /\ Budget \in Nat
<1>1. {CodeLimit, MemoryLimit, DeepProbe} \subseteq 0 .. 100 /\ {Probe, Budget} \subseteq Nat
  BY SearchAssumption, Zenon
<1> QED BY ONLY <1>1

Ops == {"fts", "embed", "compose", "unify", "exact"} \X {"code", "workspace", "global", None} \X Nat

\* What is left after n operations.
Left(p, n) == SubSeq(p, n + 1, Len(p))

LEMMA LeftFacts ==
  ASSUME NEW S, NEW p \in Seq(S), NEW n \in 0 .. Len(p)
  PROVE  /\ (Left(p, n) = <<>>) <=> (n = Len(p))
         /\ n < Len(p) => /\ Head(Left(p, n)) = p[n + 1] /\ Tail(Left(p, n)) = Left(p, n + 1)
                          /\ n + 1 \in 0 .. Len(p)
         /\ Left(p, 0) = p
<1>1. Len(p) \in Nat /\ n \in Nat
  OBVIOUS
<1>2. Left(p, 0) = p
  BY DEF Left
<1>3. CASE n = Len(p)
  BY <1>1, <1>2, <1>3 DEF Left
<1>4. CASE n < Len(p)
  <2> DEFINE l == Left(p, n)
             r == Left(p, n + 1)
  <2>1. l \in Seq(S) /\ Len(l) = Len(p) - n /\ \A i \in 1 .. Len(p) - n : l[i] = p[n + i]
    BY <1>1, <1>4 DEF Left
  <2>2. r \in Seq(S) /\ Len(r) = Len(p) - n - 1 /\ \A i \in 1 .. Len(p) - n - 1 : r[i] = p[n + 1 + i]
    BY <1>1, <1>4 DEF Left
  <2> HIDE DEF l, r
  <2>3. l # <<>> /\ Head(l) = p[n + 1]
    BY <1>1, <1>4, <2>1
  <2>4. Tail(l) \in Seq(S) /\ Len(Tail(l)) = Len(p) - n - 1
        /\ \A i \in 1 .. Len(p) - n - 1 : Tail(l)[i] = l[i + 1]
    BY <1>1, <1>4, <2>1, <2>3
  <2>5. \A i \in 1 .. Len(p) - n - 1 : l[i + 1] = p[n + 1 + i]
    <3> SUFFICES ASSUME NEW i \in 1 .. Len(p) - n - 1
                 PROVE  l[i + 1] = p[n + 1 + i]
      OBVIOUS
    <3>1. i + 1 \in 1 .. Len(p) - n /\ n + (i + 1) = n + 1 + i
      BY <1>1
    <3> QED BY <2>1, <3>1
  <2>6. Tail(l) = r
    BY <2>2, <2>4, <2>5, SMTT(60)
  <2> QED BY <1>1, <1>2, <1>4, <2>3, <2>6 DEF l, r
<1> QED BY <1>1, <1>3, <1>4

\* What FirstSteps has after k of its six.
FirstStep(k, code, memories) ==
  IF k = 0 THEN <<"fts", "code", code>>
  ELSE IF k = 2 THEN <<"fts", "workspace", memories>>
  ELSE IF k = 4 THEN <<"fts", "global", memories>> ELSE <<"embed", None, 0>>

Begins(p, from, code, memories) == \A k \in 0 .. 5 : p[from + k + 1] = FirstStep(k, code, memories)

LEMMA SixSteps ==
  ASSUME NEW code \in Nat, NEW memories \in Nat, NEW s, s = FirstSteps(code, memories)
  PROVE  s \in Seq(Ops) /\ Len(s) = 6 /\ \A k \in 0 .. 5 : s[k + 1] = FirstStep(k, code, memories)
<1> DEFINE a == <<"fts", "code", code>>
           b == <<"embed", None, 0>>
           d == <<"fts", "workspace", memories>>
           e == <<"fts", "global", memories>>
<1>1. a \in Ops /\ b \in Ops /\ d \in Ops /\ e \in Ops
  BY DEF Ops
<1>2. s = <<a, b, d, b, e, b>>
  BY DEF FirstSteps
<1>3. \A k \in 0 .. 5 : FirstStep(k, code, memories) =
        IF k = 0 THEN a ELSE IF k = 2 THEN d ELSE IF k = 4 THEN e ELSE b
  BY DEF FirstStep
<1> HIDE DEF a, b, d, e
<1>4. s \in Seq(Ops) /\ Len(s) = 6 /\ s[1] = a /\ s[2] = b /\ s[3] = d /\ s[4] = b /\ s[5] = e /\ s[6] = b
  <2> DEFINE O == Ops
  <2>1. a \in O /\ b \in O /\ d \in O /\ e \in O
    BY <1>1
  <2> HIDE DEF O
  <2>2. s \in Seq(O) /\ Len(s) = 6 /\ s[1] = a /\ s[2] = b /\ s[3] = d /\ s[4] = b /\ s[5] = e /\ s[6] = b
    BY <1>2, <2>1
  <2> QED BY <2>2 DEF O
<1>5. \A k \in 0 .. 5 : s[k + 1] = IF k = 0 THEN a ELSE IF k = 2 THEN d ELSE IF k = 4 THEN e ELSE b
  BY <1>4
<1> QED BY <1>3, <1>4, <1>5

\* One more operation.
LEMMA OneMore ==
  ASSUME NEW S, NEW s \in Seq(S), NEW x \in S, NEW p, p = s \o <<x>>
  PROVE  /\ p \in Seq(S) /\ Len(p) = Len(s) + 1 /\ Len(s) \in Nat
         /\ \A i \in 1 .. Len(s) : p[i] = s[i]
         /\ p[Len(s) + 1] = x
OBVIOUS

LEMMA ComposeSteps ==
  ASSUME NEW limit \in Nat, NEW p, p = ComposeWithin(limit)
  PROVE  /\ p \in Seq(Ops) /\ Len(p) = 7
         /\ \A k \in 0 .. 5 : p[k + 1] = FirstStep(k, CodeLimit, MemoryLimit)
         /\ p[7] = <<"compose", None, limit>>
<1> DEFINE x == <<"compose", None, limit>>
<1>s. PICK s : s = FirstSteps(CodeLimit, MemoryLimit)
  OBVIOUS
<1>1. s \in Seq(Ops) /\ Len(s) = 6 /\ \A k \in 0 .. 5 : s[k + 1] = FirstStep(k, CodeLimit, MemoryLimit)
  <2>1. CodeLimit \in Nat /\ MemoryLimit \in Nat
    BY Limits
  <2> QED BY ONLY <1>s, <2>1, SixSteps
<1>2. x \in Ops /\ p = s \o <<x>>
  BY <1>s DEF Ops, ComposeWithin
<1> HIDE DEF x
<1>3. p \in Seq(Ops) /\ Len(p) = Len(s) + 1 /\ (\A i \in 1 .. Len(s) : p[i] = s[i]) /\ p[Len(s) + 1] = x
  <2>1. s \in Seq(Ops) /\ x \in Ops /\ p = s \o <<x>>
    BY <1>1, <1>2
  <2> QED BY ONLY <2>1, OneMore
<1>4. \A k \in 0 .. 5 : k + 1 \in 1 .. 6
  OBVIOUS
<1> QED BY <1>1, <1>3, <1>4 DEF x

LEMMA ContextProgram ==
  ASSUME NEW q, q.tool = "context", q.limit \in Nat, NEW p, p = Program(q)
  PROVE  /\ p \in Seq(Ops) /\ Len(p) = 7 /\ Begins(p, 0, CodeLimit, MemoryLimit)
         /\ p[7] = <<"compose", None, q.limit>>
<1>1. p = ComposeWithin(q.limit)
  BY DEF Program
<1>2. /\ p \in Seq(Ops) /\ Len(p) = 7
      /\ \A k \in 0 .. 5 : p[k + 1] = FirstStep(k, CodeLimit, MemoryLimit)
      /\ p[7] = <<"compose", None, q.limit>>
  BY <1>1, ComposeSteps
<1>3. \A k \in 0 .. 5 : 0 + k + 1 = k + 1
  OBVIOUS
<1> QED BY <1>2, <1>3 DEF Begins

LEMMA DeepProgram ==
  ASSUME NEW q, q.tool = "deep", q.limit \in Nat, NEW p, p = Program(q)
  PROVE  /\ p \in Seq(Ops) /\ Len(p) = 14
         /\ Begins(p, 0, DeepProbe, DeepProbe) /\ Begins(p, 7, CodeLimit, MemoryLimit)
         /\ p[7] = <<"unify", None, q.limit>> /\ p[14] = <<"compose", None, Budget>>
<1> DEFINE x == <<"unify", None, q.limit>>
<1>s. PICK s : s = FirstSteps(DeepProbe, DeepProbe)
  OBVIOUS
<1>u. PICK u : u = s \o <<x>>
  OBVIOUS
<1>v. PICK v : v = ComposeWithin(Budget)
  OBVIOUS
<1>1. s \in Seq(Ops) /\ Len(s) = 6 /\ \A k \in 0 .. 5 : s[k + 1] = FirstStep(k, DeepProbe, DeepProbe)
  <2>1. DeepProbe \in Nat
    BY Limits
  <2> QED BY ONLY <1>s, <2>1, SixSteps
<1>2. x \in Ops
  BY DEF Ops
<1>3. /\ v \in Seq(Ops) /\ Len(v) = 7 /\ v[7] = <<"compose", None, Budget>>
      /\ \A k \in 0 .. 5 : v[k + 1] = FirstStep(k, CodeLimit, MemoryLimit)
  <2>1. Budget \in Nat
    BY Limits
  <2> QED BY <1>v, <2>1, ComposeSteps
<1>4. p = u \o v
  BY <1>s, <1>u, <1>v DEF Program
<1> HIDE DEF x
<1>5. u \in Seq(Ops) /\ Len(u) = Len(s) + 1 /\ (\A i \in 1 .. Len(s) : u[i] = s[i]) /\ u[Len(s) + 1] = x
  <2>1. s \in Seq(Ops) /\ x \in Ops /\ u = s \o <<x>>
    BY <1>1, <1>2, <1>u
  <2> QED BY ONLY <2>1, OneMore
<1>6. /\ p \in Seq(Ops) /\ Len(p) = 14
      /\ \A i \in 1 .. 7 : p[i] = u[i]
      /\ \A i \in 1 .. 7 : p[7 + i] = v[i]
  <2>1. PICK t : t = u \o v
    OBVIOUS
  <2>2. Len(u) = 7 /\ DOMAIN u = 1 .. 7 /\ DOMAIN v = 1 .. 7 /\ u \in Seq(Ops) /\ v \in Seq(Ops)
    BY <1>1, <1>3, <1>5
  <2> DEFINE O == Ops
  <2> HIDE DEF O
  <2>3. u \in Seq(O) /\ v \in Seq(O)
    BY <2>2 DEF O
  <2>4. /\ u \o v \in Seq(O) /\ Len(u \o v) = Len(u) + Len(v)
        /\ \A i \in DOMAIN u : (u \o v)[i] = u[i]
        /\ \A i \in DOMAIN v : (u \o v)[Len(u) + i] = v[i]
    BY <2>3, ConcatPlaces
  <2>5. /\ t \in Seq(O) /\ Len(t) = Len(u) + Len(v)
        /\ \A i \in DOMAIN u : t[i] = u[i]
        /\ \A i \in DOMAIN v : t[Len(u) + i] = v[i]
    BY <2>1, <2>4, Zenon
  <2>6. p = t /\ 7 + 7 = 14
    BY <1>4, <2>1
  <2> QED BY <1>3, <2>2, <2>5, <2>6 DEF O
<1>7. \A k \in 0 .. 5 : 0 + k + 1 = k + 1 /\ 7 + k + 1 = 7 + (k + 1) /\ k + 1 \in 1 .. 6 /\ k + 1 \in 1 .. 7
  OBVIOUS
<1>8. Begins(p, 0, DeepProbe, DeepProbe)
  BY <1>1, <1>5, <1>6, <1>7 DEF Begins
<1>9. Begins(p, 7, CodeLimit, MemoryLimit)
  BY <1>3, <1>6, <1>7 DEF Begins
<1>10. p[7] = x /\ p[14] = v[7]
  <2>1. 7 \in 1 .. 7 /\ 7 + 7 = 14 /\ Len(s) + 1 = 7
    BY <1>1
  <2> QED BY <1>5, <1>6, <2>1
<1> QED BY <1>3, <1>6, <1>8, <1>9, <1>10 DEF x

LEMMA Elements ==
  ASSUME NEW S, NEW s \in Seq(S)
  PROVE  \A i \in DOMAIN s : s[i] \in S
OBVIOUS

LEMMA MemoryProgram ==
  ASSUME NEW q, q.tool = "memory", NEW p, p = Program(q)
  PROVE  /\ p \in Seq(Ops) /\ Len(p) = 5
         /\ \A k \in 2 .. 5 : p[k - 1] = FirstStep(k, 0, MemoryLimit)
         /\ p[5] = <<"unify", None, 1000>>
<1> DEFINE x == <<"unify", None, 1000>>
<1>s. PICK s : s = FirstSteps(0, MemoryLimit)
  OBVIOUS
<1>u. PICK u : u = SubSeq(s, 3, 6)
  OBVIOUS
<1>1. s \in Seq(Ops) /\ Len(s) = 6 /\ \A k \in 0 .. 5 : s[k + 1] = FirstStep(k, 0, MemoryLimit)
  <2>1. MemoryLimit \in Nat /\ 0 \in Nat
    BY Limits
  <2> QED BY ONLY <1>s, <2>1, SixSteps
<1>2. x \in Ops /\ p = u \o <<x>>
  BY <1>s, <1>u DEF Ops, Program
<1> HIDE DEF x
<1>3. u \in Seq(Ops) /\ Len(u) = 4 /\ \A i \in 1 .. 4 : u[i] = s[i + 2]
  <2> DEFINE O == Ops
  <2>1. s \in Seq(O) /\ Len(s) = 6
    BY <1>1
  <2> HIDE DEF O
  <2>2. 3 - 1 <= 6 /\ 3 \in 1 .. 6 + 1 /\ 6 \in 2 .. 6
    OBVIOUS
  <2>3. SubSeq(s, 3, 6) \in Seq(O)
    <3>1. SubSeq(s, 3, 6) = [i \in 1 .. 4 |-> s[i + 2]]
      BY <2>1, <2>2
    <3>2. \A i \in 1 .. 4 : i + 2 \in DOMAIN s
      BY <2>1
    <3>3. \A i \in DOMAIN s : s[i] \in O
      <4>1. s \in Seq(O)
        BY <2>1
      <4> QED BY ONLY <4>1, Elements
    <3>4. \A i \in 1 .. 4 : s[i + 2] \in O
      BY ONLY <3>2, <3>3
    <3> QED BY <3>1, <3>4
  <2>4. Len(SubSeq(s, 3, 6)) = 4
    BY <2>1, <2>2
  <2>5. SubSeq(s, 3, 6)[1] = s[3] /\ SubSeq(s, 3, 6)[2] = s[4]
        /\ SubSeq(s, 3, 6)[3] = s[5] /\ SubSeq(s, 3, 6)[4] = s[6]
    BY <2>1, <2>2
  <2>6. u[1] = s[3] /\ u[2] = s[4] /\ u[3] = s[5] /\ u[4] = s[6]
    BY <1>u, <2>5
  <2>7. \A i \in 1 .. 4 : u[i] = s[i + 2]
    BY <2>6
  <2> QED BY <1>u, <2>3, <2>4, <2>7 DEF O
<1>4. p \in Seq(Ops) /\ Len(p) = Len(u) + 1 /\ (\A i \in 1 .. Len(u) : p[i] = u[i]) /\ p[Len(u) + 1] = x
  <2>1. u \in Seq(Ops) /\ x \in Ops /\ p = u \o <<x>>
    BY <1>2, <1>3
  <2> QED BY ONLY <2>1, OneMore
<1>5. ASSUME NEW k \in 2 .. 5
      PROVE  p[k - 1] = FirstStep(k, 0, MemoryLimit)
  <2>1. k - 1 \in 1 .. 4 /\ (k - 1) + 2 = k + 1 /\ k \in 0 .. 5
    OBVIOUS
  <2> QED BY <1>1, <1>3, <1>4, <2>1
<1> QED BY <1>3, <1>4, <1>5 DEF x

LEMMA ResolveProgram ==
  ASSUME NEW q, q.tool = "resolve", q.limit \in Nat, NEW p, p = Program(q)
  PROVE  /\ p \in Seq(Ops) /\ Len(p) = 4
         /\ p[1] = <<"exact", None, 0>> /\ p[2] = <<"fts", "code", Probe * q.limit>>
         /\ p[3] = <<"embed", None, 0>> /\ p[4] = <<"unify", None, q.limit>>
<1> DEFINE a == <<"exact", None, 0>>
           b == <<"fts", "code", Probe * q.limit>>
           d == <<"embed", None, 0>>
           e == <<"unify", None, q.limit>>
           O == Ops
<1>1. a \in O /\ b \in O /\ d \in O /\ e \in O
  <2>1. Probe * q.limit \in Nat
    BY Limits, Product
  <2> QED BY <2>1 DEF Ops
<1>2. p = <<a, b, d, e>>
  BY DEF Program
<1> HIDE DEF a, b, d, e, O
<1>3. p \in Seq(O) /\ Len(p) = 4 /\ p[1] = a /\ p[2] = b /\ p[3] = d /\ p[4] = e
  BY <1>1, <1>2
<1> QED BY <1>3 DEF a, b, d, e, O

-----------------------------------------------------------------------------
(***************************************************************************)
(* The steps of a search.                                                  *)
(***************************************************************************)
SearchTools == {"context", "deep", "memory", "resolve"}

Sought ==
  /\ "tool" \in DOMAIN query
  /\ query.tool \in SearchTools => {"limit", "within"} \subseteq DOMAIN query /\ query.limit \in Nat

Collect == Exact \/ Lexical \/ Embed \/ Unify \/ Compose

\* The rest leaves the search alone.
Aside ==
  /\ UNCHANGED <<query, todo, hits, unified, capsule, around>>
  /\ (pc' = "failed") <=> (pc = "failed")

\* What a search may fail of.
MayFail ==
  \/ engine /\ query.tool \notin {"impact", "path"}
  \/ trouble = "contended"
  \/ trouble = "unreadable" /\ Syncs

\* No step but those of the search is of it.
LEMMA StepKinds ==
  ASSUME [Next]_vars
  PROVE  \/ /\ Collect /\ pc = "collect" /\ todo # <<>>
            /\ UNCHANGED <<query, ever, haunted, always, around>>
            /\ \/ pc' # "failed" /\ todo' = Tail(todo)
               \/ pc' = "failed" /\ engine
         \/ Deliver
         \/ Aside
         \/ Open /\ pc' = "failed"
<1>1. CASE Exact \/ Lexical \/ Compose
  <2>1. pc = "collect" /\ todo # <<>> /\ UNCHANGED <<codeVars, ftsVars, around>> /\ todo' = Tail(todo)
    BY <1>1 DEF Exact, Lexical, Compose, At
  <2>2. UNCHANGED <<query, pc, ever, haunted, always>>
    BY <2>1 DEF codeVars, search, ftsVars
  <2> QED BY <1>1, <2>1, <2>2 DEF Collect
<1>2. CASE Embed
  BY <1>2 DEF Embed, At, ftsVars, Collect
<1>3. CASE QueryStep /\ UNCHANGED <<searchVars, around>>
  BY <1>3 DEF QueryStep, Start, PopImpact, PopPath, LookUp, Answer, searchVars, Drop, Ask, Aside
<1>4. CASE StoreStep /\ UNCHANGED <<searchVars, around>>
  BY <1>4 DEF StoreStep, Clear, Rebuild, search, searchVars, Aside
<1>5. CASE Commit
  BY <1>5 DEF Commit, Reindex, search, searchVars, Aside
<1>6. CASE UNCHANGED vars
  BY <1>6 DEF vars, codeVars, search, searchVars, Aside
<1>7. CASE Unify
  BY <1>7 DEF Unify, At, ftsVars, Collect
<1>8. CASE Open
  BY <1>8 DEF Open, Aside
<1> QED BY <1>1, <1>2, <1>3, <1>4, <1>5, <1>6, <1>7, <1>8 DEF Next

LEMMA Scores ==
  /\ Score("code", 0) = Base(query.tool, "code")
  /\ Score("workspace", 0) = Base(query.tool, "workspace")
  /\ Score("global", 0) = Base(query.tool, "global")
<1>1. CASE query.tool = "memory"
  BY <1>1 DEF Score, Base
<1>2. CASE query.tool # "memory"
  BY <1>2 DEF Score, Base
<1> QED BY <1>1, <1>2

\* One of the first six steps.
LEMMA CollectStep ==
  ASSUME IndexInv, Collect, "tool" \in DOMAIN query, query.tool # "resolve",
         NEW code \in Nat, NEW memories \in Nat, NEW k \in 0 .. 5,
         Head(todo) = FirstStep(k, code, memories),
         Collected(hits, k, code, memories, query.tool, ever, haunted, always)
  PROVE  /\ Collected(hits', k + 1, code, memories, query.tool, ever, haunted, always)
         /\ UNCHANGED <<unified, capsule>>
<1> DEFINE a == Head(todo)
<1>1. CASE k \in {1, 3, 5}
  <2>1. a[1] = "embed"
    BY <1>1 DEF FirstStep
  <2>2. Embed
    BY <2>1 DEF Collect, Exact, Lexical, Unify, Compose, At
  <2>3. hits' = hits /\ UNCHANGED <<unified, capsule>>
    BY <2>2 DEF Embed
  <2>4. Collected(hits, k + 1, code, memories, query.tool, ever, haunted, always)
    BY <1>1, CollectedSkip
  <2> QED BY <2>3, <2>4
<1>2. CASE k \in {0, 2, 4}
  <2>1. /\ a[1] = "fts"
        /\ k = 0 => a[2] = "code" /\ a[3] = code
        /\ k = 2 => a[2] = "workspace" /\ a[3] = memories
        /\ k = 4 => a[2] = "global" /\ a[3] = memories
    BY <1>2 DEF FirstStep
  <2>2. Lexical
    BY <2>1 DEF Collect, Exact, Embed, Unify, Compose, At
  <2>3. PICK new \in FtsHits(a[2], a[3]) : hits' = PushAll(hits, new)
    BY <2>2 DEF Lexical
  <2>4. UNCHANGED <<unified, capsule>>
    BY <2>2 DEF Lexical
  <2>5. k = 0 => Symbols(new, code, ever, haunted, always) /\ From(new, Base(query.tool, "code"))
    BY <2>1, <2>3, SymbolsFound, Scores
  <2>6. k = 2 => Remembered(new, "workspace", memories) /\ From(new, Base(query.tool, "workspace"))
    BY <2>1, <2>3, MemoriesFound, Scores
  <2>7. k = 4 => Remembered(new, "global", memories) /\ From(new, Base(query.tool, "global"))
    BY <2>1, <2>3, MemoriesFound, Scores
  <2> DEFINE tool == query.tool
  <2> HIDE DEF tool
  <2>8. Collected(PushAll(hits, new), k + 1, code, memories, tool, ever, haunted, always)
    <3>1. /\ Collected(hits, k, code, memories, tool, ever, haunted, always)
          /\ k = 0 => Symbols(new, code, ever, haunted, always) /\ From(new, Base(tool, "code"))
          /\ k = 2 => Remembered(new, "workspace", memories) /\ From(new, Base(tool, "workspace"))
          /\ k = 4 => Remembered(new, "global", memories) /\ From(new, Base(tool, "global"))
      BY <2>5, <2>6, <2>7 DEF tool
    <3> QED BY ONLY <1>2, <3>1, CollectedMore
  <2> QED BY <2>3, <2>4, <2>8 DEF tool
<1> QED BY <1>1, <1>2

\* The step that ends it.
LEMMA EndStep ==
  ASSUME Collect, query.tool # "resolve", NEW code \in 0 .. 100, NEW memories \in 0 .. 100,
         NEW limit \in Nat, NEW op \in {"unify", "compose"}, Head(todo) = <<op, None, limit>>,
         query.tool = "memory" => code = 0,
         Collected(hits, 6, code, memories, query.tool, ever, haunted, always)
  PROVE  /\ hits' = <<>>
         /\ op = "unify" => Owes(unified', code, memories, limit, ever, haunted, always)
                            /\ capsule' = capsule
         /\ op = "compose" => Owes(capsule', code, memories, limit, ever, haunted, always)
                              /\ unified' = unified
<1> DEFINE a == Head(todo)
<1>1. a[1] = op /\ a[3] = limit
  OBVIOUS
<1>2. Ranked(hits) = hits
  <2> DEFINE tool == query.tool
  <2>1. Collected(hits, 6, code, memories, tool, ever, haunted, always) /\ (tool = "memory" => code = 0)
    OBVIOUS
  <2> HIDE DEF tool
  <2> QED BY ONLY <2>1, RankedCollected
<1>3. Owes(FirstOf(hits, limit), code, memories, limit, ever, haunted, always)
  BY EndsOwed
<1>4. CASE op = "unify"
  <2>1. Unify
    BY <1>1, <1>4 DEF Collect, Exact, Lexical, Embed, Compose, At
  <2>2. unified' = FirstOf(hits, limit) /\ hits' = <<>> /\ capsule' = capsule
    BY <1>1, <1>2, <2>1 DEF Unify
  <2> QED BY <1>3, <1>4, <2>2
<1>5. CASE op = "compose"
  <2>1. Compose
    BY <1>1, <1>5 DEF Collect, Exact, Lexical, Embed, Unify, At
  <2>2. capsule' = FirstOf(hits, limit) /\ hits' = <<>> /\ unified' = unified
    BY <1>1, <1>2, <2>1 DEF Compose
  <2> QED BY <1>3, <1>5, <2>2
<1> QED BY <1>4, <1>5

\* Whoever else takes a step, the search is where it was.
LEMMA Unmoved ==
  ASSUME Sought, Deliver \/ Aside
  PROVE  /\ UNCHANGED <<todo, hits, unified, capsule>>
         /\ (pc' = "failed") <=> (pc = "failed")
         /\ query'.tool = query.tool /\ Sought'
         /\ query.tool \in SearchTools => /\ query'.limit = query.limit /\ query'.within = query.within
                                        /\ Program(query') = Program(query)
<1>1. CASE Aside
  BY <1>1 DEF Aside, Sought
<1>2. CASE Deliver
  <2>1. /\ UNCHANGED <<todo, hits, unified, capsule>> /\ pc = "collect" /\ pc' \in {"start", "answered"}
        /\ query' = query \/ \E x : query' = [query EXCEPT !.from = x]
    BY <1>2 DEF Deliver, searchVars
  <2>2. query'.tool = query.tool /\ DOMAIN query' = DOMAIN query
    BY <2>1 DEF Sought
  <2>3. query.tool \in SearchTools => query'.limit = query.limit /\ query'.within = query.within
    BY <2>1 DEF Sought
  <2>4. query.tool \in SearchTools => Program(query') = Program(query)
    BY <2>2, <2>3 DEF Program
  <2> QED BY <2>1, <2>2, <2>3, <2>4 DEF Sought
<1> QED BY <1>1, <1>2

LEMMA SoughtInit == Init => Sought
<1> SUFFICES ASSUME Init
             PROVE  Sought
  OBVIOUS
<1>1. PICK m \in Menus : query \in m.queries
  BY DEF Init, CodeInit
<1>2. "tool" \in DOMAIN query
  BY <1>1, QueryAssumption
<1>3. query.tool \in SearchTools => {"limit", "within"} \subseteq DOMAIN query /\ query.limit \in Nat
  BY <1>1, SearchAssumption DEF SearchTools
<1> QED BY <1>2, <1>3 DEF Sought

LEMMA SoughtStep == Sought /\ [Next]_vars => Sought'
BY StepKinds, Unmoved DEF Sought, Open

\* What has matched, and what is haunted, when the step is taken.
LEMMA Grows ==
  ASSUME IndexInv, [Next]_vars
  PROVE  /\ ever \subseteq ever' /\ haunted \subseteq haunted' /\ always' \subseteq always
         /\ IsFiniteSet(ever') /\ IsFiniteSet(haunted')
         /\ IsFiniteSet(ever) /\ IsFiniteSet(haunted) /\ always \subseteq ever
<1>1. IndexInv'
  BY IndexStep
<1>2. IsFiniteSet(ever') /\ IsFiniteSet(haunted')
  BY <1>1 DEF IndexInv, Indexes
<1>3. IsFiniteSet(ever) /\ IsFiniteSet(haunted) /\ always \subseteq ever
  BY DEF IndexInv, Indexes
<1> QED BY <1>2, <1>3, IndexStep

-----------------------------------------------------------------------------
(***************************************************************************)
(* How far a search has come.                                              *)
(***************************************************************************)
LEMMA Untouched ==
  ASSUME Sought, Deliver \/ Aside, query'.tool \in SearchTools, pc' # "failed"
  PROVE  /\ query.tool = query'.tool /\ pc # "failed"
         /\ query'.limit = query.limit /\ query'.within = query.within
         /\ Program(query') = Program(query)
         /\ UNCHANGED <<todo, hits, unified, capsule>>
<1>1. /\ UNCHANGED <<todo, hits, unified, capsule>>
      /\ (pc' = "failed") <=> (pc = "failed")
      /\ query'.tool = query.tool
      /\ query.tool \in SearchTools => /\ query'.limit = query.limit /\ query'.within = query.within
                                     /\ Program(query') = Program(query)
  BY Unmoved
<1> QED BY <1>1

LEMMA Onwards ==
  ASSUME NEW p \in Seq(Ops), NEW n \in 0 .. Len(p), todo = Left(p, n), todo # <<>>
  PROVE  /\ n + 1 \in 0 .. Len(p) /\ n < Len(p) /\ n \in Nat /\ Len(p) \in Nat
         /\ Head(todo) = p[n + 1] /\ Tail(todo) = Left(p, n + 1)
<1>1. Len(p) \in Nat /\ n \in Nat /\ n <= Len(p)
  OBVIOUS
<1>2. /\ (Left(p, n) = <<>>) <=> (n = Len(p))
      /\ n < Len(p) => /\ Head(Left(p, n)) = p[n + 1] /\ Tail(Left(p, n)) = Left(p, n + 1)
                       /\ n + 1 \in 0 .. Len(p)
  BY LeftFacts
<1> QED BY <1>1, <1>2

\* search_context, after n operations.
ContextDone(limit, n, list, lines, E, H, A) ==
  /\ n <= 6 => Collected(list, n, CodeLimit, MemoryLimit, "context", E, H, A)
  /\ n = 7 => Owes(lines, CodeLimit, MemoryLimit, limit, E, H, A)

ContextInv ==
  query.tool = "context" /\ pc # "failed" =>
    \E n \in 0 .. 7 : /\ todo = Left(Program(query), n)
                      /\ ContextDone(query.limit, n, hits, capsule, ever, haunted, always)

LEMMA ContextInit == Init => ContextInv
<1> SUFFICES ASSUME Init, query.tool = "context"
             PROVE  \E n \in 0 .. 7 : /\ todo = Left(Program(query), n)
                                      /\ ContextDone(query.limit, n, hits, capsule, ever, haunted, always)
  BY DEF ContextInv
<1>1. todo = Program(query) /\ hits = <<>> /\ always = ever /\ IsFiniteSet(ever) /\ IsFiniteSet(haunted)
  BY IndexInit DEF Init, IndexInv, Indexes
<1>2. PICK p : p = Program(query)
  OBVIOUS
<1>3. p \in Seq(Ops) /\ Len(p) = 7
  <2>1. query.limit \in Nat
    BY SoughtInit DEF Sought, SearchTools
  <2> QED BY <1>2, <2>1, ContextProgram
<1>4. Left(p, 0) = p
  BY <1>3, LeftFacts
<1>5. Collected(hits, 0, CodeLimit, MemoryLimit, "context", ever, haunted, always)
  <2>1. CodeLimit \in Nat
    BY Limits
  <2> QED BY <1>1, <2>1, CollectedNone
<1>6. ContextDone(query.limit, 0, hits, capsule, ever, haunted, always)
  BY <1>5 DEF ContextDone
<1> QED BY <1>1, <1>2, <1>4, <1>6

LEMMA ContextStays ==
  ASSUME NEW E, NEW H, NEW A, NEW E1, NEW H1, NEW A1, E \subseteq E1, H \subseteq H1, A1 \subseteq A,
         IsFiniteSet(E1), IsFiniteSet(H1), NEW limit, NEW n, NEW list, NEW lines,
         ContextDone(limit, n, list, lines, E, H, A)
  PROVE  ContextDone(limit, n, list, lines, E1, H1, A1)
<1>1. CodeLimit \in Nat
  BY Limits
<1>2. n <= 6 => Collected(list, n, CodeLimit, MemoryLimit, "context", E1, H1, A1)
  BY <1>1, CollectedStay DEF ContextDone
<1>3. n = 7 => Owes(lines, CodeLimit, MemoryLimit, limit, E1, H1, A1)
  BY <1>1, OwesStay DEF ContextDone
<1> QED BY <1>2, <1>3 DEF ContextDone

LEMMA ContextStep ==
  ASSUME ContextInv, Sought, IndexInv, [Next]_vars
  PROVE  ContextInv'
<1>1. CASE Deliver \/ Aside
  <2> SUFFICES ASSUME query'.tool = "context", pc' # "failed"
               PROVE  \E n \in 0 .. 7 : /\ todo' = Left(Program(query'), n)
                                        /\ ContextDone(query'.limit, n, hits', capsule', ever', haunted', always')
    BY DEF ContextInv
  <2>1. /\ query.tool = "context" /\ pc # "failed" /\ query'.limit = query.limit
        /\ Program(query') = Program(query) /\ UNCHANGED <<todo, hits, capsule>>
    <3>1. query'.tool \in SearchTools
      BY DEF SearchTools
    <3>2. /\ query.tool = query'.tool /\ pc # "failed" /\ query'.limit = query.limit
          /\ Program(query') = Program(query) /\ UNCHANGED <<todo, hits, capsule>>
      BY <1>1, <3>1, Untouched
    <3> QED BY <3>2
  <2>2. PICK n \in 0 .. 7 : /\ todo = Left(Program(query), n)
                            /\ ContextDone(query.limit, n, hits, capsule, ever, haunted, always)
    BY <2>1 DEF ContextInv
  <2>3. ContextDone(query.limit, n, hits, capsule, ever', haunted', always')
    <3>1. /\ ever \subseteq ever' /\ haunted \subseteq haunted' /\ always' \subseteq always
          /\ IsFiniteSet(ever') /\ IsFiniteSet(haunted')
      BY Grows
    <3>2. PICK limit : limit = query.limit
      OBVIOUS
    <3>3. ContextDone(limit, n, hits, capsule, ever, haunted, always)
      BY <2>2, <3>2
    <3>4. ContextDone(limit, n, hits, capsule, ever', haunted', always')
      BY ONLY <3>1, <3>3, ContextStays
    <3> QED BY <3>2, <3>4
  <2>4. todo' = Left(Program(query'), n) /\ ContextDone(query'.limit, n, hits', capsule', ever', haunted', always')
    BY <2>1, <2>2, <2>3
  <2> QED BY <2>4
<1>2. CASE /\ Collect /\ todo # <<>> /\ UNCHANGED <<query, ever, haunted, always>>
           /\ (pc = "collect" /\ todo' = Tail(todo)) \/ pc' = "failed"
  <2> SUFFICES ASSUME query.tool = "context", pc' # "failed"
               PROVE  \E n \in 0 .. 7 : /\ todo' = Left(Program(query), n)
                                        /\ ContextDone(query.limit, n, hits', capsule', ever, haunted, always)
    BY <1>2 DEF ContextInv
  <2>1. pc # "failed" /\ todo' = Tail(todo) /\ query.limit \in Nat /\ "tool" \in DOMAIN query
    BY <1>2 DEF Sought, SearchTools
  <2>2. PICK n \in 0 .. 7 : /\ todo = Left(Program(query), n)
                            /\ ContextDone(query.limit, n, hits, capsule, ever, haunted, always)
    BY <2>1 DEF ContextInv
  <2>3. PICK p : p = Program(query)
    OBVIOUS
  <2>4. /\ p \in Seq(Ops) /\ Len(p) = 7 /\ Begins(p, 0, CodeLimit, MemoryLimit)
        /\ p[7] = <<"compose", None, query.limit>>
    BY <2>1, <2>3, ContextProgram
  <2>5. n \in 0 .. 6 /\ Head(todo) = p[n + 1] /\ Tail(todo) = Left(p, n + 1) /\ n + 1 \in 0 .. 7
    <3>1. todo = Left(p, n) /\ n \in 0 .. Len(p) /\ todo # <<>>
      BY <1>2, <2>2, <2>3, <2>4
    <3>2. /\ n + 1 \in 0 .. Len(p) /\ n < Len(p) /\ n \in Nat
          /\ Head(todo) = p[n + 1] /\ Tail(todo) = Left(p, n + 1)
      BY <2>4, <3>1, Onwards
    <3> QED BY <2>4, <3>2
  <2>6. ContextDone(query.limit, n + 1, hits', capsule', ever, haunted, always)
    <3>1. Collected(hits, n, CodeLimit, MemoryLimit, query.tool, ever, haunted, always)
      BY <2>2, <2>5 DEF ContextDone
    <3>2. CASE n \in 0 .. 5
      <4>1. Head(todo) = FirstStep(n, CodeLimit, MemoryLimit)
        <5>1. p[0 + n + 1] = FirstStep(n, CodeLimit, MemoryLimit)
          BY <2>4, <3>2 DEF Begins
        <5>2. 0 + n + 1 = n + 1
          BY <3>2
        <5> QED BY <2>5, <5>1, <5>2
      <4>2. Collected(hits', n + 1, CodeLimit, MemoryLimit, query.tool, ever, haunted, always)
        BY <1>2, <2>1, <3>1, <3>2, <4>1, CollectStep, Limits
      <4>3. n + 1 # 7
        BY <3>2
      <4> QED BY <4>2, <4>3 DEF ContextDone
    <3>3. CASE n = 6
      <4>1. Head(todo) = <<"compose", None, query.limit>>
        BY <2>4, <2>5, <3>3
      <4>2. Owes(capsule', CodeLimit, MemoryLimit, query.limit, ever, haunted, always)
        BY <1>2, <2>1, <3>1, <3>3, <4>1, EndStep, Limits
      <4>3. n + 1 = 7 /\ ~ (7 <= 6)
        BY <3>3
      <4> QED BY <4>2, <4>3, Zenon DEF ContextDone
    <3> QED BY <2>5, <3>2, <3>3
  <2> QED BY <2>1, <2>3, <2>5, <2>6
<1>3. CASE pc' = "failed"
  BY <1>3 DEF ContextInv
<1> QED BY <1>1, <1>2, <1>3, StepKinds

\* search_memory, after n operations: the first two of the six are not among them.
MemoryDone(n, list, context, E, H, A) ==
  /\ n <= 4 => Collected(list, n + 2, 0, MemoryLimit, "memory", E, H, A)
  /\ n = 5 => Owes(context, 0, MemoryLimit, 1000, E, H, A)

MemoryInv ==
  query.tool = "memory" /\ pc # "failed" =>
    \E n \in 0 .. 5 : /\ todo = Left(Program(query), n)
                      /\ MemoryDone(n, hits, unified, ever, haunted, always)

LEMMA MemoryInit == Init => MemoryInv
<1> SUFFICES ASSUME Init, query.tool = "memory"
             PROVE  \E n \in 0 .. 5 : /\ todo = Left(Program(query), n)
                                      /\ MemoryDone(n, hits, unified, ever, haunted, always)
  BY DEF MemoryInv
<1>1. todo = Program(query) /\ hits = <<>> /\ always = ever /\ IsFiniteSet(ever) /\ IsFiniteSet(haunted)
  BY IndexInit DEF Init, IndexInv, Indexes
<1>2. PICK p : p = Program(query)
  OBVIOUS
<1>3. p \in Seq(Ops) /\ Len(p) = 5
  BY <1>2, MemoryProgram
<1>4. Left(p, 0) = p
  BY <1>3, LeftFacts
<1>5. Collected(hits, 0 + 2, 0, MemoryLimit, "memory", ever, haunted, always)
  <2>1. Collected(hits, 2, 0, MemoryLimit, "memory", ever, haunted, always)
    <3>1. 0 \in Nat /\ always \subseteq ever /\ IsFiniteSet(ever) /\ IsFiniteSet(haunted)
      BY <1>1
    <3>2. Collected(<<>>, 2, 0, MemoryLimit, "memory", ever, haunted, always)
      BY ONLY <3>1, CollectedNone
    <3> QED BY <1>1, <3>2
  <2> QED BY <2>1
<1>6. MemoryDone(0, hits, unified, ever, haunted, always)
  BY <1>5 DEF MemoryDone
<1> QED BY <1>1, <1>2, <1>4, <1>6

LEMMA MemoryStays ==
  ASSUME NEW E, NEW H, NEW A, NEW E1, NEW H1, NEW A1, E \subseteq E1, H \subseteq H1, A1 \subseteq A,
         IsFiniteSet(E1), IsFiniteSet(H1), NEW n, NEW list, NEW context,
         MemoryDone(n, list, context, E, H, A)
  PROVE  MemoryDone(n, list, context, E1, H1, A1)
<1>1. n <= 4 => Collected(list, n + 2, 0, MemoryLimit, "memory", E1, H1, A1)
  BY CollectedStay DEF MemoryDone
<1>2. n = 5 => Owes(context, 0, MemoryLimit, 1000, E1, H1, A1)
  BY OwesStay DEF MemoryDone
<1> QED BY <1>1, <1>2 DEF MemoryDone

LEMMA MemoryStep ==
  ASSUME MemoryInv, Sought, IndexInv, [Next]_vars
  PROVE  MemoryInv'
<1>1. CASE Deliver \/ Aside
  <2> SUFFICES ASSUME query'.tool = "memory", pc' # "failed"
               PROVE  \E n \in 0 .. 5 : /\ todo' = Left(Program(query'), n)
                                        /\ MemoryDone(n, hits', unified', ever', haunted', always')
    BY DEF MemoryInv
  <2>1. /\ query.tool = "memory" /\ pc # "failed"
        /\ Program(query') = Program(query) /\ UNCHANGED <<todo, hits, unified>>
    <3>1. query'.tool \in SearchTools
      BY DEF SearchTools
    <3>2. /\ query.tool = query'.tool /\ pc # "failed"
          /\ Program(query') = Program(query) /\ UNCHANGED <<todo, hits, unified>>
      BY <1>1, <3>1, Untouched
    <3> QED BY <3>2
  <2>2. PICK n \in 0 .. 5 : /\ todo = Left(Program(query), n)
                            /\ MemoryDone(n, hits, unified, ever, haunted, always)
    BY <2>1 DEF MemoryInv
  <2>3. MemoryDone(n, hits, unified, ever', haunted', always')
    <3>1. /\ ever \subseteq ever' /\ haunted \subseteq haunted' /\ always' \subseteq always
          /\ IsFiniteSet(ever') /\ IsFiniteSet(haunted')
      BY Grows
    <3> QED BY ONLY <2>2, <3>1, MemoryStays
  <2>4. todo' = Left(Program(query'), n) /\ MemoryDone(n, hits', unified', ever', haunted', always')
    BY <2>1, <2>2, <2>3
  <2> QED BY <2>4
<1>2. CASE /\ Collect /\ todo # <<>> /\ UNCHANGED <<query, ever, haunted, always>>
           /\ (pc = "collect" /\ todo' = Tail(todo)) \/ pc' = "failed"
  <2> SUFFICES ASSUME query.tool = "memory", pc' # "failed"
               PROVE  \E n \in 0 .. 5 : /\ todo' = Left(Program(query), n)
                                        /\ MemoryDone(n, hits', unified', ever, haunted, always)
    BY <1>2 DEF MemoryInv
  <2>1. pc # "failed" /\ todo' = Tail(todo) /\ "tool" \in DOMAIN query
    BY <1>2 DEF Sought
  <2>2. PICK n \in 0 .. 5 : /\ todo = Left(Program(query), n)
                            /\ MemoryDone(n, hits, unified, ever, haunted, always)
    BY <2>1 DEF MemoryInv
  <2>3. PICK p : p = Program(query)
    OBVIOUS
  <2>4. /\ p \in Seq(Ops) /\ Len(p) = 5
        /\ \A k \in 2 .. 5 : p[k - 1] = FirstStep(k, 0, MemoryLimit)
        /\ p[5] = <<"unify", None, 1000>>
    BY <2>3, MemoryProgram
  <2>5. n \in 0 .. 4 /\ Head(todo) = p[n + 1] /\ Tail(todo) = Left(p, n + 1) /\ n + 1 \in 0 .. 5
    <3>1. todo = Left(p, n) /\ n \in 0 .. Len(p) /\ todo # <<>>
      BY <1>2, <2>2, <2>3, <2>4
    <3>2. /\ n + 1 \in 0 .. Len(p) /\ n < Len(p) /\ n \in Nat
          /\ Head(todo) = p[n + 1] /\ Tail(todo) = Left(p, n + 1)
      <4>1. p \in Seq(Ops)
        BY <2>4
      <4> QED BY ONLY <3>1, <4>1, Onwards
    <3> QED BY <2>4, <3>2
  <2>6. MemoryDone(n + 1, hits', unified', ever, haunted, always)
    <3>1. Collected(hits, n + 2, 0, MemoryLimit, query.tool, ever, haunted, always)
      BY <2>2, <2>5 DEF MemoryDone
    <3>2. CASE n \in 0 .. 3
      <4>1. Head(todo) = FirstStep(n + 2, 0, MemoryLimit)
        <5>1. n + 2 \in 2 .. 5 /\ (n + 2) - 1 = n + 1
          BY <3>2
        <5> QED BY <2>4, <2>5, <5>1
      <4>2. PICK k \in 0 .. 5 : k = n + 2
        BY <3>2
      <4>3. Collected(hits', k + 1, 0, MemoryLimit, query.tool, ever, haunted, always)
        <5>1. 0 \in Nat /\ MemoryLimit \in Nat
          BY Limits
        <5>2. Collected(hits, k, 0, MemoryLimit, query.tool, ever, haunted, always)
              /\ Head(todo) = FirstStep(k, 0, MemoryLimit)
          BY <3>1, <4>1, <4>2
        <5> QED BY <1>2, <2>1, <5>1, <5>2, CollectStep
      <4>4. n + 1 # 5 /\ k + 1 = (n + 1) + 2
        BY <3>2, <4>2
      <4> QED BY <4>3, <4>4 DEF MemoryDone
    <3>3. CASE n = 4
      <4>1. Head(todo) = <<"unify", None, 1000>>
        BY <2>4, <2>5, <3>3
      <4>2. Owes(unified', 0, MemoryLimit, 1000, ever, haunted, always)
        <5>1. 0 \in 0 .. 100 /\ MemoryLimit \in 0 .. 100 /\ 1000 \in Nat
          BY Limits
        <5>2. Collected(hits, 6, 0, MemoryLimit, query.tool, ever, haunted, always)
          BY <3>1, <3>3
        <5> QED BY <1>2, <4>1, <5>1, <5>2, EndStep, ZenonT(60)
      <4>3. n + 1 = 5 /\ ~ (5 <= 4)
        BY <3>3
      <4> QED BY <4>2, <4>3, Zenon DEF MemoryDone
    <3> QED BY <2>5, <3>2, <3>3
  <2> QED BY <2>1, <2>3, <2>5, <2>6
<1>3. CASE pc' = "failed"
  BY <1>3 DEF MemoryInv
<1> QED BY <1>1, <1>2, <1>3, StepKinds

\* search_deep_context, after n operations: its own search, then that for the capsule.
DeepDone(limit, n, list, context, lines, E, H, A) ==
  /\ n <= 6 => Collected(list, n, DeepProbe, DeepProbe, "deep", E, H, A)
  /\ n >= 7 => Owes(context, DeepProbe, DeepProbe, limit, E, H, A)
  /\ n >= 7 /\ n <= 13 => Collected(list, n - 7, CodeLimit, MemoryLimit, "deep", E, H, A)
  /\ n = 14 => Owes(lines, CodeLimit, MemoryLimit, Budget, E, H, A)

DeepInv ==
  query.tool = "deep" /\ pc # "failed" =>
    \E n \in 0 .. 14 : /\ todo = Left(Program(query), n)
                       /\ DeepDone(query.limit, n, hits, unified, capsule, ever, haunted, always)

LEMMA DeepInit == Init => DeepInv
<1> SUFFICES ASSUME Init, query.tool = "deep"
             PROVE  \E n \in 0 .. 14 :
                      /\ todo = Left(Program(query), n)
                      /\ DeepDone(query.limit, n, hits, unified, capsule, ever, haunted, always)
  BY DEF DeepInv
<1>1. todo = Program(query) /\ hits = <<>> /\ always = ever /\ IsFiniteSet(ever) /\ IsFiniteSet(haunted)
  BY IndexInit DEF Init, IndexInv, Indexes
<1>2. PICK p : p = Program(query)
  OBVIOUS
<1>3. p \in Seq(Ops) /\ Len(p) = 14
  <2>1. query.limit \in Nat
    BY SoughtInit DEF Sought, SearchTools
  <2> QED BY <1>2, <2>1, DeepProgram
<1>4. Left(p, 0) = p
  BY <1>3, LeftFacts
<1>5. Collected(hits, 0, DeepProbe, DeepProbe, "deep", ever, haunted, always)
  <2>1. DeepProbe \in Nat
    BY Limits
  <2> QED BY <1>1, <2>1, CollectedNone
<1>6. DeepDone(query.limit, 0, hits, unified, capsule, ever, haunted, always)
  BY <1>5 DEF DeepDone
<1> QED BY <1>1, <1>2, <1>4, <1>6

LEMMA DeepStays ==
  ASSUME NEW E, NEW H, NEW A, NEW E1, NEW H1, NEW A1, E \subseteq E1, H \subseteq H1, A1 \subseteq A,
         IsFiniteSet(E1), IsFiniteSet(H1), NEW limit, NEW n, NEW list, NEW context, NEW lines,
         DeepDone(limit, n, list, context, lines, E, H, A)
  PROVE  DeepDone(limit, n, list, context, lines, E1, H1, A1)
<1>1. CodeLimit \in Nat /\ DeepProbe \in Nat
  BY Limits
<1>2. n <= 6 => Collected(list, n, DeepProbe, DeepProbe, "deep", E1, H1, A1)
  BY <1>1, CollectedStay DEF DeepDone
<1>3. n >= 7 => Owes(context, DeepProbe, DeepProbe, limit, E1, H1, A1)
  BY <1>1, OwesStay DEF DeepDone
<1>4. n >= 7 /\ n <= 13 => Collected(list, n - 7, CodeLimit, MemoryLimit, "deep", E1, H1, A1)
  BY <1>1, CollectedStay DEF DeepDone
<1>5. n = 14 => Owes(lines, CodeLimit, MemoryLimit, Budget, E1, H1, A1)
  BY <1>1, OwesStay DEF DeepDone
<1> QED BY <1>2, <1>3, <1>4, <1>5 DEF DeepDone

LEMMA DeepStep ==
  ASSUME DeepInv, Sought, IndexInv, [Next]_vars
  PROVE  DeepInv'
<1>1. CASE Deliver \/ Aside
  <2> SUFFICES ASSUME query'.tool = "deep", pc' # "failed"
               PROVE  \E n \in 0 .. 14 :
                        /\ todo' = Left(Program(query'), n)
                        /\ DeepDone(query'.limit, n, hits', unified', capsule', ever', haunted', always')
    BY DEF DeepInv
  <2>1. /\ query.tool = "deep" /\ pc # "failed" /\ query'.limit = query.limit
        /\ Program(query') = Program(query) /\ UNCHANGED <<todo, hits, unified, capsule>>
    <3>1. query'.tool \in SearchTools
      BY DEF SearchTools
    <3>2. /\ query.tool = query'.tool /\ pc # "failed" /\ query'.limit = query.limit
          /\ Program(query') = Program(query) /\ UNCHANGED <<todo, hits, unified, capsule>>
      BY <1>1, <3>1, Untouched
    <3> QED BY <3>2
  <2>2. PICK n \in 0 .. 14 : /\ todo = Left(Program(query), n)
                             /\ DeepDone(query.limit, n, hits, unified, capsule, ever, haunted, always)
    BY <2>1 DEF DeepInv
  <2>3. DeepDone(query.limit, n, hits, unified, capsule, ever', haunted', always')
    <3>1. /\ ever \subseteq ever' /\ haunted \subseteq haunted' /\ always' \subseteq always
          /\ IsFiniteSet(ever') /\ IsFiniteSet(haunted')
      BY Grows
    <3>2. PICK limit : limit = query.limit
      OBVIOUS
    <3>3. DeepDone(limit, n, hits, unified, capsule, ever, haunted, always)
      BY <2>2, <3>2
    <3>4. DeepDone(limit, n, hits, unified, capsule, ever', haunted', always')
      BY ONLY <3>1, <3>3, DeepStays
    <3> QED BY <3>2, <3>4
  <2>4. /\ todo' = Left(Program(query'), n)
        /\ DeepDone(query'.limit, n, hits', unified', capsule', ever', haunted', always')
    BY <2>1, <2>2, <2>3
  <2> QED BY <2>4
<1>2. CASE /\ Collect /\ todo # <<>> /\ UNCHANGED <<query, ever, haunted, always>>
           /\ (pc = "collect" /\ todo' = Tail(todo)) \/ pc' = "failed"
  <2> SUFFICES ASSUME query.tool = "deep", pc' # "failed"
               PROVE  \E n \in 0 .. 14 :
                        /\ todo' = Left(Program(query), n)
                        /\ DeepDone(query.limit, n, hits', unified', capsule', ever, haunted, always)
    BY <1>2 DEF DeepInv
  <2>1. pc # "failed" /\ todo' = Tail(todo) /\ query.limit \in Nat /\ "tool" \in DOMAIN query
    BY <1>2 DEF Sought, SearchTools
  <2>2. PICK n \in 0 .. 14 : /\ todo = Left(Program(query), n)
                             /\ DeepDone(query.limit, n, hits, unified, capsule, ever, haunted, always)
    BY <2>1 DEF DeepInv
  <2>3. PICK p : p = Program(query)
    OBVIOUS
  <2>4. /\ p \in Seq(Ops) /\ Len(p) = 14
        /\ Begins(p, 0, DeepProbe, DeepProbe) /\ Begins(p, 7, CodeLimit, MemoryLimit)
        /\ p[7] = <<"unify", None, query.limit>> /\ p[14] = <<"compose", None, Budget>>
    BY <2>1, <2>3, DeepProgram
  <2>5. n \in 0 .. 13 /\ Head(todo) = p[n + 1] /\ Tail(todo) = Left(p, n + 1) /\ n + 1 \in 0 .. 14
    <3>1. todo = Left(p, n) /\ n \in 0 .. Len(p) /\ todo # <<>>
      BY <1>2, <2>2, <2>3, <2>4
    <3>2. /\ n + 1 \in 0 .. Len(p) /\ n < Len(p) /\ n \in Nat
          /\ Head(todo) = p[n + 1] /\ Tail(todo) = Left(p, n + 1)
      BY <2>4, <3>1, Onwards
    <3> QED BY <2>4, <3>2
  <2>6. DeepDone(query.limit, n + 1, hits', unified', capsule', ever, haunted, always)
    <3>1. CASE n \in 0 .. 5
      <4>1. Head(todo) = FirstStep(n, DeepProbe, DeepProbe)
        <5>1. p[0 + n + 1] = FirstStep(n, DeepProbe, DeepProbe)
          BY <2>4, <3>1 DEF Begins
        <5>2. 0 + n + 1 = n + 1
          BY <3>1
        <5> QED BY <2>5, <5>1, <5>2
      <4>2. Collected(hits, n, DeepProbe, DeepProbe, query.tool, ever, haunted, always)
        BY <2>2, <3>1 DEF DeepDone
      <4>3. Collected(hits', n + 1, DeepProbe, DeepProbe, query.tool, ever, haunted, always)
        BY <1>2, <2>1, <3>1, <4>1, <4>2, CollectStep, Limits
      <4>4. ~ (n + 1 >= 7) /\ n + 1 # 14
        BY <3>1
      <4> QED BY <4>3, <4>4 DEF DeepDone
    <3>2. CASE n = 6
      <4>1. Head(todo) = <<"unify", None, query.limit>>
        BY <2>4, <2>5, <3>2
      <4>2. Collected(hits, 6, DeepProbe, DeepProbe, query.tool, ever, haunted, always)
        BY <2>2, <3>2 DEF DeepDone
      <4>3. Owes(unified', DeepProbe, DeepProbe, query.limit, ever, haunted, always) /\ hits' = <<>>
        BY <1>2, <2>1, <4>1, <4>2, EndStep, Limits
      <4>4. Collected(hits', 0, CodeLimit, MemoryLimit, "deep", ever, haunted, always)
        <5>1. CodeLimit \in Nat /\ always \subseteq ever /\ IsFiniteSet(ever) /\ IsFiniteSet(haunted)
          BY Limits, Grows
        <5>2. Collected(<<>>, 0, CodeLimit, MemoryLimit, "deep", ever, haunted, always)
          BY ONLY <5>1, CollectedNone
        <5> QED BY <4>3, <5>2
      <4>5. n + 1 = 7 /\ ~ (7 <= 6) /\ 7 - 7 = 0 /\ 7 # 14
        BY <3>2
      <4> QED BY <4>3, <4>4, <4>5, Zenon DEF DeepDone
    <3>3. ASSUME n \in 7 .. 13
          PROVE  /\ Owes(unified, DeepProbe, DeepProbe, query.limit, ever, haunted, always)
                 /\ Collected(hits, n - 7, CodeLimit, MemoryLimit, query.tool, ever, haunted, always)
      BY <2>2, <3>3 DEF DeepDone
    <3>4. CASE n \in 7 .. 12
      <4>1. PICK k \in 0 .. 5 : k = n - 7
        BY <3>4
      <4>2. Head(todo) = FirstStep(k, CodeLimit, MemoryLimit)
        <5>1. p[7 + k + 1] = FirstStep(k, CodeLimit, MemoryLimit)
          BY <2>4, <4>1 DEF Begins
        <5>2. 7 + k + 1 = n + 1
          BY <3>4, <4>1
        <5> QED BY <2>5, <5>1, <5>2
      <4>3. Owes(unified, DeepProbe, DeepProbe, query.limit, ever, haunted, always)
            /\ Collected(hits, k, CodeLimit, MemoryLimit, query.tool, ever, haunted, always)
        BY <3>3, <3>4, <4>1
      <4>4. Collected(hits', k + 1, CodeLimit, MemoryLimit, query.tool, ever, haunted, always)
            /\ unified' = unified
        BY <1>2, <2>1, <4>2, <4>3, CollectStep, Limits
      <4>5. ~ (n + 1 <= 6) /\ n + 1 # 14 /\ (n + 1) - 7 = k + 1
        BY <3>4, <4>1
      <4> QED BY <4>3, <4>4, <4>5 DEF DeepDone
    <3>5. CASE n = 13
      <4>1. Head(todo) = <<"compose", None, Budget>>
        BY <2>4, <2>5, <3>5
      <4>2. Owes(unified, DeepProbe, DeepProbe, query.limit, ever, haunted, always)
            /\ Collected(hits, 6, CodeLimit, MemoryLimit, query.tool, ever, haunted, always)
        BY <3>3, <3>5
      <4>3. Owes(capsule', CodeLimit, MemoryLimit, Budget, ever, haunted, always) /\ unified' = unified
        BY <1>2, <2>1, <4>1, <4>2, EndStep, Limits
      <4>4. n + 1 = 14 /\ ~ (14 <= 6) /\ ~ (14 <= 13)
        BY <3>5
      <4> QED BY <4>2, <4>3, <4>4, Zenon DEF DeepDone
    <3> QED BY <2>5, <3>1, <3>2, <3>4, <3>5
  <2> QED BY <2>1, <2>3, <2>5, <2>6
<1>3. CASE pc' = "failed"
  BY <1>3 DEF DeepInv
<1> QED BY <1>1, <1>2, <1>3, StepKinds

-----------------------------------------------------------------------------
(***************************************************************************)
(* resolve_symbol.                                                         *)
(***************************************************************************)
\* Symbols, none twice.
Candidates(list) == list \in Seq(Hits) /\ Of(list, "code") /\ Keyed(list)

Has(list, key) == \E i \in DOMAIN list : list[i].key = key

\* The positions that are selected are different ones.
LEMMA SelectedKeyed ==
  ASSUME NEW S, NEW s \in Seq(S), NEW I \in SUBSET DOMAIN s, Keyed(s), NEW t, t = Selected(s, I)
  PROVE  Keyed(t)
<1> DEFINE th(k) == CHOOSE i \in I : Cardinality(Below(I, i)) = k
<1>1. I \in SUBSET (1 .. Len(s)) /\ Len(s) \in Nat
  OBVIOUS
<1>2. t = [k \in 1 .. Cardinality(I) |-> s[th(k)]]
  BY DEF Selected, Below
<1>3. \A k \in 1 .. Cardinality(I) : th(k) \in I /\ Cardinality(Below(I, th(k))) = k
  BY <1>1, Ranks
<1> HIDE DEF th
<1>4. DOMAIN t = 1 .. Cardinality(I) /\ \A k \in DOMAIN t : t[k] = s[th(k)] /\ th(k) \in DOMAIN s
  BY <1>2, <1>3
<1>5. \A k, l \in DOMAIN t : th(k) = th(l) => k = l
  BY <1>3, <1>4
<1> QED BY <1>4, <1>5 DEF Keyed

\* The positions of what is within, and is not there yet.
Lacking(list, old, within) ==
  {i \in DOMAIN list : list[i].key \in within /\ \A j \in DOMAIN old : old[j].key # list[i].key}

Spare(old, limit) == IF Len(old) < limit THEN limit - Len(old) ELSE 0

\* What is wanted of a list comes after what there is; with room left, nothing that is
\* wanted is left out.
LEMMA Picked ==
  ASSUME NEW old, Candidates(old), NEW list, Candidates(list), NEW within, NEW limit \in Nat,
         NEW more, more = FirstOf(Selected(list, Lacking(list, old, within)), Spare(old, limit)),
         NEW all, all = PushAll(old, more)
  PROVE  /\ Candidates(all)
         /\ Len(all) >= limit \/ \A x \in within : Has(list, x) => Has(all, x)
<1> DEFINE room == IF Len(old) < limit THEN limit - Len(old) ELSE 0
<1>i. PICK I : I = {i \in DOMAIN list : /\ list[i].key \in within
                                       /\ \A j \in DOMAIN old : old[j].key # list[i].key}
  OBVIOUS
<1>s. PICK new : new = Selected(list, I)
  OBVIOUS
<1>1. list \in Seq(Hits) /\ old \in Seq(Hits) /\ I \in SUBSET DOMAIN list
  BY <1>i DEF Candidates
<1>2. /\ new \in Seq(Hits)
      /\ \A k \in DOMAIN new : \E i \in I : new[k] = list[i]
      /\ \A i \in I : \E k \in DOMAIN new : new[k] = list[i]
  BY ONLY <1>s, <1>1, SelectedFacts
<1>3. Keyed(new)
  BY <1>s, <1>1, SelectedKeyed DEF Candidates
<1>4. room \in Nat /\ Len(old) \in Nat /\ more = FirstOf(new, room)
  <2>1. Len(old) \in Nat
    BY <1>1
  <2>2. room \in Nat
    BY ONLY <2>1, limit \in Nat
  <2>3. more = FirstOf(new, room)
    BY <1>i, <1>s, Zenon DEF Lacking, Spare
  <2> QED BY <2>1, <2>2, <2>3
<1> HIDE DEF room
<1>5. /\ more \in Seq(Hits) /\ Len(more) = (IF Len(new) < room THEN Len(new) ELSE room)
      /\ \A i \in DOMAIN more : i \in DOMAIN new /\ more[i] = new[i]
      /\ Len(new) <= room => more = new
  <2>1. new \in Seq(Hits) /\ room \in Nat
    BY <1>2, <1>4
  <2>2. /\ FirstOf(new, room) \in Seq(Hits)
        /\ Len(FirstOf(new, room)) = IF Len(new) < room THEN Len(new) ELSE room
        /\ \A i \in DOMAIN FirstOf(new, room) : i \in DOMAIN new /\ FirstOf(new, room)[i] = new[i]
        /\ Len(new) <= room => FirstOf(new, room) = new
    BY ONLY <2>1, FirstOfPlaces
  <2>3. more = FirstOf(new, room)
    BY <1>4
  <2> QED BY ONLY <2>2, <2>3
<1>6. Keyed(more)
  BY <1>3, <1>5 DEF Keyed
<1>7. \A i \in DOMAIN more : more[i].source = "code" /\ \A j \in DOMAIN old : old[j].key # more[i].key
  <2> SUFFICES ASSUME NEW i \in DOMAIN more
               PROVE  more[i].source = "code" /\ \A j \in DOMAIN old : old[j].key # more[i].key
    OBVIOUS
  <2>1. PICK k \in I : more[i] = list[k]
    BY ONLY <1>2, <1>5, i \in DOMAIN more, ZenonT(60)
  <2>2. k \in DOMAIN list /\ \A j \in DOMAIN old : old[j].key # list[k].key
    BY <1>i, Zenon
  <2>3. list[k].source = "code"
    BY <2>2 DEF Candidates, Of
  <2> QED BY <2>1, <2>2, <2>3
<1>c. PICK t : t = old \o more
  OBVIOUS
<1>8. /\ t \in Seq(Hits) /\ Len(t) = Len(old) + Len(more) /\ Len(old) \in Nat /\ Len(more) \in Nat
      /\ \A i \in DOMAIN old : i \in DOMAIN t /\ t[i] = old[i]
      /\ \A i \in DOMAIN more : Len(old) + i \in DOMAIN t /\ t[Len(old) + i] = more[i]
      /\ \A k \in DOMAIN t : k \in DOMAIN old \/ (k > Len(old) /\ k - Len(old) \in DOMAIN more)
  <2>1. /\ old \o more \in Seq(Hits) /\ Len(old \o more) = Len(old) + Len(more)
        /\ Len(old) \in Nat /\ Len(more) \in Nat
        /\ \A i \in DOMAIN old : i \in DOMAIN (old \o more) /\ (old \o more)[i] = old[i]
        /\ \A i \in DOMAIN more : Len(old) + i \in DOMAIN (old \o more) /\ (old \o more)[Len(old) + i] = more[i]
        /\ \A k \in DOMAIN (old \o more) : k \in DOMAIN old \/ (k > Len(old) /\ k - Len(old) \in DOMAIN more)
    <3>1. old \in Seq(Hits) /\ more \in Seq(Hits)
      BY <1>1, <1>5
    <3> QED BY ONLY <3>1, ConcatPlaces
  <2> QED BY ONLY <1>c, <2>1
<1>9. \A k \in DOMAIN t : k \in Nat /\ (k \notin DOMAIN old => t[k] = more[k - Len(old)])
  <2> SUFFICES ASSUME NEW k \in DOMAIN t
               PROVE  k \in Nat /\ (k \notin DOMAIN old => t[k] = more[k - Len(old)])
    OBVIOUS
  <2>1. k \in Nat
    BY <1>8
  <2>2. ASSUME k \notin DOMAIN old
        PROVE  t[k] = more[k - Len(old)]
    <3>1. k - Len(old) \in DOMAIN more
      BY <1>8, <2>2
    <3>2. Len(old) + (k - Len(old)) = k
      BY <1>8, <2>1
    <3> QED BY <1>8, <3>1, <3>2
  <2> QED BY <2>1, <2>2
<1>10. Of(t, "code")
  <2> SUFFICES ASSUME NEW k \in DOMAIN t
               PROVE  t[k].source = "code"
    BY DEF Of
  <2>1. CASE k \in DOMAIN old
    BY <1>8, <2>1 DEF Of, Candidates
  <2>2. CASE k \notin DOMAIN old
    <3>1. k - Len(old) \in DOMAIN more /\ t[k] = more[k - Len(old)]
      BY <1>8, <1>9, <2>2
    <3> QED BY <1>7, <3>1
  <2> QED BY <2>1, <2>2
<1>11. Keyed(t)
  <2> SUFFICES ASSUME NEW i \in DOMAIN t, NEW j \in DOMAIN t, t[i].key = t[j].key
               PROVE  i = j
    BY DEF Keyed
  <2>1. CASE i \in DOMAIN old /\ j \in DOMAIN old
    BY <1>8, <2>1 DEF Candidates, Keyed
  <2>2. CASE i \in DOMAIN old /\ j \notin DOMAIN old
    <3>1. j - Len(old) \in DOMAIN more /\ t[j] = more[j - Len(old)] /\ t[i] = old[i]
      BY <1>8, <1>9, <2>2
    <3> QED BY <1>7, <2>2, <3>1
  <2>3. CASE i \notin DOMAIN old /\ j \in DOMAIN old
    <3>1. i - Len(old) \in DOMAIN more /\ t[i] = more[i - Len(old)] /\ t[j] = old[j]
      BY <1>8, <1>9, <2>3
    <3> QED BY <1>7, <2>3, <3>1
  <2>4. CASE i \notin DOMAIN old /\ j \notin DOMAIN old
    <3>1. /\ i - Len(old) \in DOMAIN more /\ t[i] = more[i - Len(old)]
          /\ j - Len(old) \in DOMAIN more /\ t[j] = more[j - Len(old)]
      BY <1>8, <1>9, <2>4
    <3>2. i - Len(old) = j - Len(old)
      BY <1>6, <3>1 DEF Keyed
    <3>3. i \in Nat /\ j \in Nat /\ Len(old) \in Nat
      BY <1>8, <1>9
    <3> QED BY <3>2, <3>3
  <2> QED BY <2>1, <2>2, <2>3, <2>4
<1>12. all = t
  <2>1. Differ(old \o more)
    BY <1>c, <1>11 DEF Differ, SameHit, Keyed
  <2>2. PushAll(old, more) = old \o more
    <3>1. old \in Seq(Hits) /\ more \in Seq(Hits)
      BY <1>1, <1>5
    <3> QED BY ONLY <2>1, <3>1, PushedAll
  <2> QED BY <1>c, <2>2
<1>13. Candidates(all)
  BY <1>8, <1>10, <1>11, <1>12 DEF Candidates
<1>14. CASE Len(old) >= limit
  BY <1>8, <1>12, <1>13, <1>14
<1>15. CASE Len(old) < limit
  <2>1. room = limit - Len(old) /\ Len(new) \in Nat
    BY <1>2, <1>15 DEF room
  <2>2. CASE Len(new) >= room
    <3>1. Len(more) = room
      BY <1>4, <1>5, <2>1, <2>2
    <3>2. Len(all) = limit
      BY <1>8, <1>12, <2>1, <3>1
    <3> QED BY <1>13, <3>2
  <2>3. CASE Len(new) < room
    <3>1. more = new
      BY <1>4, <1>5, <2>1, <2>3
    <3>2. ASSUME NEW x \in within, NEW i \in DOMAIN list, list[i].key = x
          PROVE  Has(t, x)
      <4>1. CASE \E j \in DOMAIN old : old[j].key = x
        BY <1>8, <4>1 DEF Has
      <4>2. CASE \A j \in DOMAIN old : old[j].key # x
        <5>1. i \in I
          BY <1>i, <3>2, <4>2
        <5>2. PICK k \in DOMAIN more : more[k] = list[i]
          BY ONLY <1>2, <3>1, <5>1, Zenon
        <5>3. Len(old) + k \in DOMAIN t /\ t[Len(old) + k].key = x
          <6>1. Len(old) + k \in DOMAIN t /\ t[Len(old) + k] = more[k]
            BY <1>8, Zenon
          <6>2. t[Len(old) + k].key = list[i].key
            BY <5>2, <6>1
          <6> QED BY <3>2, <6>1, <6>2
        <5> QED BY <5>3 DEF Has
      <4> QED BY <4>1, <4>2
    <3>3. \A x \in within : Has(list, x) => Has(t, x)
      BY <3>2 DEF Has
    <3> QED BY <1>12, <1>13, <3>3
  <2> QED BY <2>1, <2>2, <2>3, <1>4
<1> QED BY <1>4, <1>14, <1>15

\* A list of symbols has their keys.
LEMMA KeysAll ==
  ASSUME NEW list, Candidates(list), NEW x, Has(list, x)
  PROVE  x \in ToSet(KeysOf(list, "code"))
<1> DEFINE I == {i \in DOMAIN list : list[i].source = "code"}
<1>1. list \in Seq(Hits) /\ I = DOMAIN list
  BY DEF Candidates, Of
<1>2. Selected(list, I) = list
  <2>1. Selected(list, DOMAIN list) = list
    BY <1>1, SelectedAll
  <2> QED BY <1>1, <2>1
<1>3. KeysOf(list, "code") = [i \in DOMAIN list |-> list[i].key]
  BY <1>2 DEF KeysOf
<1> QED BY <1>3 DEF ToSet, Has

\* Unless the index may have more than is read, or the list is full, it has what was asked for.
Enough(list, limit, within, E, H, A) ==
  Cardinality(E) + Cardinality(H) <= Probe * limit =>
    Len(list) >= limit \/ \A x \in A \cap within : Has(list, x)

\* resolve_symbol, after n operations.
ResolveDone(limit, within, n, list, context, E, H, A) ==
  /\ n <= 3 => Candidates(list)
  /\ n \in {2, 3} => Enough(list, limit, within, E, H, A)
  /\ n = 4 => Candidates(context) /\ Enough(context, limit, within, E, H, A)

ResolveInv ==
  query.tool = "resolve" /\ pc # "failed" =>
    \E n \in 0 .. 4 : /\ todo = Left(Program(query), n)
                      /\ ResolveDone(query.limit, query.within, n, hits, unified, ever, haunted, always)

LEMMA ResolveInit == Init => ResolveInv
<1> SUFFICES ASSUME Init, query.tool = "resolve"
             PROVE  \E n \in 0 .. 4 :
                      /\ todo = Left(Program(query), n)
                      /\ ResolveDone(query.limit, query.within, n, hits, unified, ever, haunted, always)
  BY DEF ResolveInv
<1>1. todo = Program(query) /\ hits = <<>>
  BY DEF Init
<1>2. PICK p : p = Program(query)
  OBVIOUS
<1>3. p \in Seq(Ops) /\ Len(p) = 4
  <2>1. query.limit \in Nat
    BY SoughtInit DEF Sought, SearchTools
  <2> QED BY <1>2, <2>1, ResolveProgram
<1>4. Left(p, 0) = p
  BY <1>3, LeftFacts
<1>5. Candidates(hits)
  BY <1>1 DEF Candidates, Of, Keyed
<1>6. ResolveDone(query.limit, query.within, 0, hits, unified, ever, haunted, always)
  BY <1>5 DEF ResolveDone
<1> QED BY <1>1, <1>2, <1>4, <1>6

LEMMA EnoughStays ==
  ASSUME NEW E, NEW H, NEW A, NEW E1, NEW H1, NEW A1, E \subseteq E1, H \subseteq H1, A1 \subseteq A,
         IsFiniteSet(E1), IsFiniteSet(H1), NEW limit \in Nat, NEW within, NEW list,
         Enough(list, limit, within, E, H, A)
  PROVE  Enough(list, limit, within, E1, H1, A1)
<1>1. PICK most \in Nat : most = Probe * limit
  BY Limits, Product
<1>2. Cardinality(E1) + Cardinality(H1) <= most => Cardinality(E) + Cardinality(H) <= most
  BY Grown
<1>3. (\A x \in A \cap within : Has(list, x)) => \A x \in A1 \cap within : Has(list, x)
  OBVIOUS
<1> QED BY <1>1, <1>2, <1>3 DEF Enough

LEMMA ResolveStays ==
  ASSUME NEW E, NEW H, NEW A, NEW E1, NEW H1, NEW A1, E \subseteq E1, H \subseteq H1, A1 \subseteq A,
         IsFiniteSet(E1), IsFiniteSet(H1), NEW limit \in Nat, NEW within, NEW n, NEW list, NEW context,
         ResolveDone(limit, within, n, list, context, E, H, A)
  PROVE  ResolveDone(limit, within, n, list, context, E1, H1, A1)
<1>1. n \in {2, 3} => Enough(list, limit, within, E1, H1, A1)
  BY EnoughStays DEF ResolveDone
<1>2. n = 4 => Candidates(context) /\ Enough(context, limit, within, E1, H1, A1)
  BY EnoughStays DEF ResolveDone
<1> QED BY <1>1, <1>2 DEF ResolveDone

\* get_node_by_fqn gives one symbol, or none.
LEMMA ExactFinds ==
  ASSUME Exact, IndexInv
  PROVE  Candidates(hits') /\ unified' = unified
<1>1. CASE hits' = <<>>
  BY <1>1 DEF Exact, Candidates, Of, Keyed
<1>2. CASE hits' # <<>>
  <2> DEFINE hit == [source |-> "code", key |-> query.from, row |-> rowid[query.from], score |-> 0]
  <2>1. Present(query.from) /\ hits' = <<hit>>
    BY <1>2 DEF Exact
  <2>2. query.from \in Nodes /\ query.from \in DOMAIN rowid
    BY <2>1, VersionFacts DEF Present, IndexInv, Indexes
  <2>3. rowid[query.from] \in Nat
    BY <2>2 DEF IndexInv, Indexes
  <2>4. hit \in Hits
    <3>1. query.from \in Keys /\ 0 \in Int
      BY <2>2 DEF Keys
    <3> QED BY <2>3, <3>1, HitType
  <2>5. hit.source = "code"
    OBVIOUS
  <2> HIDE DEF hit
  <2> DEFINE T == Hits
  <2> HIDE DEF T
  <2>6. hits' \in Seq(T) /\ DOMAIN hits' = {1} /\ hits'[1] = hit
    <3>1. hit \in T
      BY <2>4 DEF T
    <3> QED BY <2>1, <3>1, OneElement
  <2>7. Of(hits', "code") /\ Keyed(hits')
    BY <2>5, <2>6 DEF Of, Keyed
  <2> QED BY <2>6, <2>7 DEF Candidates, Exact, T
<1> QED BY <1>1, <1>2 DEF Exact

\* The index is asked, and what is of another file or language dropped.
LEMMA LexicalFinds ==
  ASSUME Lexical, IndexInv, "tool" \in DOMAIN query, query.tool = "resolve", query.limit \in Nat,
         Head(todo) = <<"fts", "code", Probe * query.limit>>, Candidates(hits)
  PROVE  /\ Candidates(hits') /\ unified' = unified
         /\ Enough(hits', query.limit, query.within, ever, haunted, always)
<1>1. PICK most \in Nat : most = Probe * query.limit
  BY Limits, Product
<1>2. PICK list \in FtsHits("code", most) : hits' = PushAll(hits, Wanted(list))
  BY <1>1 DEF Lexical
<1>3. Symbols(list, most, ever, haunted, always)
  BY <1>1, <1>2, SymbolsFound
<1>4. /\ Candidates(list)
      /\ Cardinality(ever) + Cardinality(haunted) <= most => \A x \in always : Has(list, x)
  BY <1>3 DEF Symbols, Candidates, Has
<1> DEFINE limit == query.limit
           within == query.within
<1>l. PICK l \in Nat : l = limit
  OBVIOUS
<1>w. PICK w : w = within
  OBVIOUS
<1>8. PICK old : old = hits
  OBVIOUS
<1>6. PICK more : more = FirstOf(Selected(list, Lacking(list, old, w)), Spare(old, l))
  OBVIOUS
<1>7. more = Wanted(list)
  BY <1>l, <1>w, <1>6, <1>8 DEF Wanted, Lacking, Spare
<1>9. PICK all : all = PushAll(old, more)
  OBVIOUS
<1>10. hits' = all
  BY <1>2, <1>7, <1>8, <1>9
<1>11. /\ Candidates(all)
       /\ Len(all) >= limit \/ \A x \in within : Has(list, x) => Has(all, x)
  <2>1. Candidates(old) /\ Candidates(list)
    BY <1>4, <1>8
  <2>2. Candidates(all) /\ (Len(all) >= l \/ \A x \in w : Has(list, x) => Has(all, x))
    BY ONLY <1>6, <1>9, <2>1, l \in Nat, Picked
  <2> QED BY <1>l, <1>w, <2>2
<1>12. Enough(all, limit, within, ever, haunted, always)
  BY <1>1, <1>4, <1>11 DEF Enough
<1> QED BY <1>10, <1>11, <1>12 DEF Lexical

\* Cut off at the limit, it is still enough.
LEMMA EnoughCut ==
  ASSUME NEW list, Candidates(list), NEW limit \in Nat, NEW within, NEW E, NEW H, NEW A,
         Enough(list, limit, within, E, H, A), NEW cut, cut = FirstOf(list, limit)
  PROVE  Candidates(cut) /\ Enough(cut, limit, within, E, H, A)
<1>1. /\ cut \in Seq(Hits) /\ Len(cut) = (IF Len(list) < limit THEN Len(list) ELSE limit)
      /\ \A i \in DOMAIN cut : i \in DOMAIN list /\ cut[i] = list[i]
      /\ Len(list) <= limit => cut = list
      /\ Len(list) \in Nat
  <2>1. list \in Seq(Hits)
    BY DEF Candidates
  <2>2. /\ FirstOf(list, limit) \in Seq(Hits)
        /\ Len(FirstOf(list, limit)) = IF Len(list) < limit THEN Len(list) ELSE limit
        /\ \A i \in DOMAIN FirstOf(list, limit) : i \in DOMAIN list /\ FirstOf(list, limit)[i] = list[i]
        /\ Len(list) <= limit => FirstOf(list, limit) = list
    BY ONLY <2>1, limit \in Nat, FirstOfPlaces
  <2>3. Len(list) \in Nat
    BY <2>1
  <2> QED BY ONLY <2>2, <2>3, cut = FirstOf(list, limit)
<1>2. Candidates(cut)
  BY <1>1 DEF Candidates, Of, Keyed
<1>3. Len(cut) >= limit \/ cut = list
  BY <1>1
<1> QED BY <1>2, <1>3 DEF Enough

LEMMA ResolveStep ==
  ASSUME ResolveInv, Sought, IndexInv, [Next]_vars
  PROVE  ResolveInv'
<1>1. CASE Deliver \/ Aside
  <2> SUFFICES ASSUME query'.tool = "resolve", pc' # "failed"
               PROVE  \E n \in 0 .. 4 :
                        /\ todo' = Left(Program(query'), n)
                        /\ ResolveDone(query'.limit, query'.within, n, hits', unified', ever', haunted', always')
    BY DEF ResolveInv
  <2>1. /\ query.tool = "resolve" /\ pc # "failed"
        /\ query'.limit = query.limit /\ query'.within = query.within
        /\ Program(query') = Program(query) /\ UNCHANGED <<todo, hits, unified>>
    <3>1. query'.tool \in SearchTools
      BY DEF SearchTools
    <3>2. /\ query.tool = query'.tool /\ pc # "failed"
          /\ query'.limit = query.limit /\ query'.within = query.within
          /\ Program(query') = Program(query) /\ UNCHANGED <<todo, hits, unified>>
      BY <1>1, <3>1, Untouched
    <3> QED BY <3>2
  <2>2. PICK n \in 0 .. 4 :
          /\ todo = Left(Program(query), n)
          /\ ResolveDone(query.limit, query.within, n, hits, unified, ever, haunted, always)
    BY <2>1 DEF ResolveInv
  <2>3. ResolveDone(query.limit, query.within, n, hits, unified, ever', haunted', always')
    <3>1. /\ ever \subseteq ever' /\ haunted \subseteq haunted' /\ always' \subseteq always
          /\ IsFiniteSet(ever') /\ IsFiniteSet(haunted')
      BY Grows
    <3>2. PICK limit \in Nat : limit = query.limit
      BY <2>1 DEF Sought, SearchTools
    <3>3. PICK within : within = query.within
      OBVIOUS
    <3>4. ResolveDone(limit, within, n, hits, unified, ever, haunted, always)
      BY <2>2, <3>2, <3>3
    <3>5. ResolveDone(limit, within, n, hits, unified, ever', haunted', always')
      BY ONLY limit \in Nat, <3>1, <3>4, ResolveStays
    <3> QED BY <3>2, <3>3, <3>5
  <2>4. /\ todo' = Left(Program(query'), n)
        /\ ResolveDone(query'.limit, query'.within, n, hits', unified', ever', haunted', always')
    BY <2>1, <2>2, <2>3
  <2> QED BY <2>4
<1>2. CASE /\ Collect /\ todo # <<>> /\ UNCHANGED <<query, ever, haunted, always>>
           /\ (pc = "collect" /\ todo' = Tail(todo)) \/ pc' = "failed"
  <2> SUFFICES ASSUME query.tool = "resolve", pc' # "failed"
               PROVE  \E n \in 0 .. 4 :
                        /\ todo' = Left(Program(query), n)
                        /\ ResolveDone(query.limit, query.within, n, hits', unified', ever, haunted, always)
    BY <1>2 DEF ResolveInv
  <2>1. pc # "failed" /\ todo' = Tail(todo) /\ query.limit \in Nat /\ "tool" \in DOMAIN query
    BY <1>2 DEF Sought, SearchTools
  <2>2. PICK n \in 0 .. 4 :
          /\ todo = Left(Program(query), n)
          /\ ResolveDone(query.limit, query.within, n, hits, unified, ever, haunted, always)
    BY <2>1 DEF ResolveInv
  <2>3. PICK p : p = Program(query)
    OBVIOUS
  <2>4. /\ p \in Seq(Ops) /\ Len(p) = 4
        /\ p[1] = <<"exact", None, 0>> /\ p[2] = <<"fts", "code", Probe * query.limit>>
        /\ p[3] = <<"embed", None, 0>> /\ p[4] = <<"unify", None, query.limit>>
    BY <2>1, <2>3, ResolveProgram
  <2>5. n \in 0 .. 3 /\ Head(todo) = p[n + 1] /\ Tail(todo) = Left(p, n + 1) /\ n + 1 \in 0 .. 4
    <3>1. todo = Left(p, n) /\ n \in 0 .. Len(p) /\ todo # <<>>
      BY <1>2, <2>2, <2>3, <2>4
    <3>2. /\ n + 1 \in 0 .. Len(p) /\ n < Len(p) /\ n \in Nat
          /\ Head(todo) = p[n + 1] /\ Tail(todo) = Left(p, n + 1)
      <4>1. p \in Seq(Ops)
        BY <2>4
      <4> QED BY ONLY <3>1, <4>1, Onwards
    <3> QED BY <2>4, <3>2
  <2> DEFINE limit == query.limit
             within == query.within
  <2>6. ResolveDone(limit, within, n + 1, hits', unified', ever, haunted, always)
    <3>1. Candidates(hits)
      BY <2>2, <2>5 DEF ResolveDone
    <3>2. CASE n = 0
      <4>1. Head(todo)[1] = "exact"
        BY <2>4, <2>5, <3>2
      <4>2. Exact
        BY <1>2, <4>1 DEF Collect, Lexical, Embed, Unify, Compose, At
      <4>3. Candidates(hits')
        BY <4>2, ExactFinds
      <4>4. n + 1 = 1
        BY <3>2
      <4> QED BY <4>3, <4>4 DEF ResolveDone
    <3>3. CASE n = 1
      <4>1. Head(todo) = <<"fts", "code", Probe * query.limit>>
        BY <2>4, <2>5, <3>3
      <4>2. Head(todo)[1] = "fts"
        BY <4>1
      <4>3. Lexical
        BY <1>2, <4>2 DEF Collect, Exact, Embed, Unify, Compose, At
      <4>4. Candidates(hits') /\ Enough(hits', limit, within, ever, haunted, always)
        BY <2>1, <3>1, <4>1, <4>3, LexicalFinds
      <4>5. n + 1 = 2
        BY <3>3
      <4> QED BY <4>4, <4>5 DEF ResolveDone
    <3>4. CASE n = 2
      <4>1. Head(todo)[1] = "embed"
        BY <2>4, <2>5, <3>4
      <4>2. Embed
        BY <1>2, <4>1 DEF Collect, Exact, Lexical, Unify, Compose, At
      <4>3. hits' = hits
        BY <4>2 DEF Embed
      <4>4. Enough(hits, limit, within, ever, haunted, always)
        BY <2>2, <3>4 DEF ResolveDone
      <4>5. n + 1 = 3
        BY <3>4
      <4> QED BY <3>1, <4>3, <4>4, <4>5 DEF ResolveDone
    <3>5. CASE n = 3
      <4>1. Head(todo) = <<"unify", None, query.limit>>
        BY <2>4, <2>5, <3>5
      <4>2. Head(todo)[1] = "unify" /\ Head(todo)[3] = limit
        BY <4>1
      <4>3. Unify
        BY <1>2, <4>2 DEF Collect, Exact, Lexical, Embed, Compose, At
      <4>4. unified' = FirstOf(hits, limit)
        BY <4>2, <4>3 DEF Unify
      <4>5. Enough(hits, limit, within, ever, haunted, always)
        BY <2>2, <3>5 DEF ResolveDone
      <4>6. Candidates(unified') /\ Enough(unified', limit, within, ever, haunted, always)
        <5>1. PICK cut : cut = FirstOf(hits, limit)
          OBVIOUS
        <5>2. Candidates(cut) /\ Enough(cut, limit, within, ever, haunted, always)
          BY <2>1, <3>1, <4>5, <5>1, EnoughCut
        <5> QED BY <4>4, <5>1, <5>2
      <4>7. n + 1 = 4
        BY <3>5
      <4> QED BY <4>6, <4>7 DEF ResolveDone
    <3> QED BY <2>5, <3>2, <3>3, <3>4, <3>5
  <2> QED BY <2>1, <2>3, <2>5, <2>6
<1>3. CASE pc' = "failed"
  BY <1>3 DEF ResolveInv
<1> QED BY <1>1, <1>2, <1>3, StepKinds

-----------------------------------------------------------------------------
\* Nothing is left to do: n operations have been done, and those are all.
LEMMA AtEnd ==
  ASSUME NEW p \in Seq(Ops), NEW n \in 0 .. Len(p), Left(p, n) = <<>>
  PROVE  n = Len(p)
BY LeftFacts

\* It fails of nothing else, and whenever a document cannot be read.
Fails ==
  /\ pc = "failed" => MayFail
  /\ pc = "collect" => query.tool \notin {"impact", "path"}
  /\ Syncs /\ trouble = "unreadable" => pc \in {"open", "failed"}

LEMMA FailStep == Fails /\ Sought /\ [Next]_vars => Fails'
<1> SUFFICES ASSUME Fails, Sought, [Next]_vars
             PROVE  Fails'
  OBVIOUS
<1>1. UNCHANGED <<engine, trouble>> /\ query'.tool = query.tool
  <2>1. UNCHANGED around
    BY StepKinds DEF Aside, Deliver, Open
  <2>2. query'.tool = query.tool
    BY StepKinds, Unmoved DEF Open
  <2> QED BY <2>1, <2>2 DEF around
<1>2. MayFail' = MayFail /\ Syncs' = Syncs
  BY <1>1 DEF MayFail, Syncs
<1>3. CASE Open
  <2>1. /\ pc = "open" /\ (pc' = "failed" => MayFail)
        /\ pc' \in {"start", "collect", "failed"}
        /\ pc' = "collect" => query.tool \notin {"impact", "path"}
        /\ Syncs /\ trouble = "unreadable" => pc' = "failed"
    BY <1>3 DEF Open, MayFail, Syncs
  <2> QED BY <1>1, <1>2, <2>1 DEF Fails
<1>4. CASE Exact \/ Lexical \/ Unify \/ Compose
  <2>1. pc = "collect" /\ pc' \in {"open", "collect"}
    BY <1>4 DEF Exact, Lexical, Unify, Compose, At, codeVars, search
  <2> QED BY <1>1, <1>2, <2>1 DEF Fails
<1>5. CASE Embed
  <2>1. pc = "collect" /\ (pc' = "collect" \/ (pc' = "failed" /\ engine))
    BY <1>5 DEF Embed, At
  <2> QED BY <1>1, <1>2, <2>1 DEF Fails, MayFail
<1>6. CASE Deliver
  <2>1. pc = "collect" /\ pc' \in {"start", "answered"}
    BY <1>6 DEF Deliver
  <2> QED BY <1>1, <1>2, <2>1 DEF Fails
<1>7. CASE QueryStep
  <2>1. /\ pc \in {"start", "pop", "look up"}
        /\ pc' \in {"start", "pop", "look up", "answered", "not found", "panicked"}
    BY <1>7 DEF QueryStep, Start, PopImpact, PopPath, LookUp, Answer, Drop, Ask
  <2> QED BY <1>1, <1>2, <2>1 DEF Fails
<1>8. CASE StoreStep \/ Commit \/ UNCHANGED vars
  <2>1. pc' = pc
    BY <1>8 DEF StoreStep, Clear, Rebuild, Commit, Reindex, search, vars, codeVars
  <2> QED BY <1>1, <1>2, <2>1 DEF Fails
<1> QED BY <1>3, <1>4, <1>5, <1>6, <1>7, <1>8 DEF Next

LEMMA FoundInTheEnd ==
  ASSUME ContextInv, DeepInv, MemoryInv, ResolveInv, Sought, Idle, Fails
  PROVE  SearchesFind
<1> SUFFICES ASSUME pc \in {"answered", "not found"}
             PROVE  /\ query.tool \in {"context", "deep"} =>
                         Finds(capsule, CodeLimit, MemoryLimit, IF query.tool = "deep" THEN Budget ELSE query.limit)
                    /\ query.tool = "deep" => Finds(unified, DeepProbe, DeepProbe, query.limit)
                    /\ query.tool = "memory" => Finds(unified, 0, MemoryLimit, 1000)
                    /\ query.tool = "resolve" /\ Cardinality(ever) + Cardinality(haunted) <= Probe * query.limit =>
                         \/ Len(unified) >= query.limit
                         \/ always \cap query.within \subseteq ToSet(KeysOf(unified, "code"))
  BY DEF SearchesFind, Fails, MayFail
<1>1. todo = <<>> /\ pc # "failed"
  BY DEF Idle
<1>2. PICK p : p = Program(query)
  OBVIOUS
<1>3. query.tool \in SearchTools => query.limit \in Nat
  BY DEF Sought
<1>4. ASSUME query.tool = "context"
      PROVE  Finds(capsule, CodeLimit, MemoryLimit, query.limit)
  <2>1. p \in Seq(Ops) /\ Len(p) = 7
    BY <1>2, <1>3, <1>4, ContextProgram DEF SearchTools
  <2>2. PICK n \in 0 .. 7 : /\ <<>> = Left(p, n)
                            /\ ContextDone(query.limit, n, hits, capsule, ever, haunted, always)
    BY <1>1, <1>2, <1>4 DEF ContextInv
  <2>3. n = 7
    BY <2>1, <2>2, AtEnd
  <2> QED BY <2>2, <2>3 DEF ContextDone, Owes, Finds
<1>5. ASSUME query.tool = "deep"
      PROVE  /\ Finds(capsule, CodeLimit, MemoryLimit, Budget)
             /\ Finds(unified, DeepProbe, DeepProbe, query.limit)
  <2>1. p \in Seq(Ops) /\ Len(p) = 14
    BY <1>2, <1>3, <1>5, DeepProgram DEF SearchTools
  <2>2. PICK n \in 0 .. 14 : /\ <<>> = Left(p, n)
                             /\ DeepDone(query.limit, n, hits, unified, capsule, ever, haunted, always)
    BY <1>1, <1>2, <1>5 DEF DeepInv
  <2>3. n = 14
    BY <2>1, <2>2, AtEnd
  <2>4. /\ Owes(capsule, CodeLimit, MemoryLimit, Budget, ever, haunted, always)
        /\ Owes(unified, DeepProbe, DeepProbe, query.limit, ever, haunted, always)
    <3>1. 14 >= 7
      BY ONLY <2>3
    <3>2. DeepDone(query.limit, 14, hits, unified, capsule, ever, haunted, always)
      BY <2>2, <2>3
    <3> QED BY ONLY <3>1, <3>2, Zenon DEF DeepDone
  <2> QED BY <2>4 DEF Owes, Finds
<1>6. ASSUME query.tool = "memory"
      PROVE  Finds(unified, 0, MemoryLimit, 1000)
  <2>1. p \in Seq(Ops) /\ Len(p) = 5
    <3>1. /\ p \in Seq(Ops) /\ Len(p) = 5
          /\ \A k \in 2 .. 5 : p[k - 1] = FirstStep(k, 0, MemoryLimit)
          /\ p[5] = <<"unify", None, 1000>>
      <4>1. PICK q : q = query
        OBVIOUS
      <4>2. q.tool = "memory" /\ p = Program(q)
        BY <1>2, <1>6, <4>1
      <4> QED BY ONLY <4>2, MemoryProgram
    <3> QED BY <3>1
  <2>2. PICK n \in 0 .. 5 : /\ <<>> = Left(p, n)
                            /\ MemoryDone(n, hits, unified, ever, haunted, always)
    BY <1>1, <1>2, <1>6 DEF MemoryInv
  <2>3. n = 5
    BY <2>1, <2>2, AtEnd
  <2> QED BY <2>2, <2>3 DEF MemoryDone, Owes, Finds
<1>7. ASSUME query.tool = "resolve", Cardinality(ever) + Cardinality(haunted) <= Probe * query.limit
      PROVE  \/ Len(unified) >= query.limit
             \/ always \cap query.within \subseteq ToSet(KeysOf(unified, "code"))
  <2>1. p \in Seq(Ops) /\ Len(p) = 4
    BY <1>2, <1>3, <1>7, ResolveProgram DEF SearchTools
  <2>2. PICK n \in 0 .. 4 : /\ <<>> = Left(p, n)
                            /\ ResolveDone(query.limit, query.within, n, hits, unified, ever, haunted, always)
    BY <1>1, <1>2, <1>7 DEF ResolveInv
  <2>3. n = 4
    BY <2>1, <2>2, AtEnd
  <2>4. Candidates(unified) /\ Enough(unified, query.limit, query.within, ever, haunted, always)
    BY <2>2, <2>3 DEF ResolveDone
  <2>5. Len(unified) >= query.limit \/ \A x \in always \cap query.within : Has(unified, x)
    BY <1>7, <2>4 DEF Enough
  <2> QED BY <2>4, <2>5, KeysAll
<1> QED BY <1>4, <1>5, <1>6, <1>7, ZenonT(60)

(***************************************************************************)
(* Whatever is committed meanwhile and whatever the engine says, a search  *)
(* that is answered has what it owes, and one that fails has met the       *)
(* engine, contention for its databases or a document that cannot be read: *)
(* for any histories, memories and limits within those of the code.        *)
(***************************************************************************)
THEOREM SearchesFindAll == Spec => []SearchesFind
<1> DEFINE Inv == /\ IndexInv /\ Sought /\ Idle /\ Fails
                  /\ ContextInv /\ DeepInv /\ MemoryInv /\ ResolveInv
<1>1. Init => Inv
  <2>1. Init => Idle /\ Fails
    BY DEF Init, CodeInit, Program, Idle, Fails
  <2> QED BY <2>1, IndexInit, SoughtInit, ContextInit, DeepInit, MemoryInit, ResolveInit
<1>2. Inv /\ [Next]_vars => Inv'
  <2> SUFFICES ASSUME Inv, [Next]_vars
               PROVE  Inv'
    OBVIOUS
  <2>1. IndexInv' /\ Sought'
    BY IndexStep, SoughtStep
  <2>2. ContextInv' /\ DeepInv' /\ MemoryInv' /\ ResolveInv'
    BY ContextStep, DeepStep, MemoryStep, ResolveStep
  <2>3. Idle'
    BY IdleStep DEF Sought
  <2>4. Fails'
    BY FailStep
  <2> QED BY <2>1, <2>2, <2>3, <2>4
<1>3. Inv => SearchesFind
  BY FoundInTheEnd
<1> QED BY <1>1, <1>2, <1>3, PTL DEF Spec

=============================================================================
