----------------------------- MODULE IndexProofs -----------------------------
(***************************************************************************)
(* Proofs about IndexStore and Indexer, for any files, contents, symbols,  *)
(* refs and parser, any of the processes and any bounds.                   *)
(***************************************************************************)
EXTENDS Indexer, FiniteSetTheorems, TLAPS

-----------------------------------------------------------------------------
(***************************************************************************)
(* What every transaction preserves, whatever was committed before it.     *)
(***************************************************************************)
StatusFits(d) == \A e \in d.edges : e.status = "resolved" <=> e.target \in Symbols

Anchored(d) ==
  \A e \in d.edges :
    /\ e.source \in Rows(d)
    /\ e.status = "resolved" => e.target \in Rows(d)

Cached(d) == \A s \in Rows(d) : SymbolFile[s] \notin Pdfs => d.cache[SymbolFile[s]] # None

StoreInv(d) == d \in Database /\ StatusFits(d) /\ Anchored(d) /\ Cached(d)

\* The tables begin empty.
LEMMA EmptyStore == StoreInv(EmptyDatabase)
BY StoreAssumption
DEF StoreInv, StatusFits, Anchored, Cached, EmptyDatabase, Database, Rows

\* What a parser gives of file f: symbols of f, and edges that start at them.
LEMMA BatchType ==
  ASSUME NEW f \in Files, NEW content \in Contents \cup {None}
  PROVE  /\ Batch(f, content).symbols \subseteq {s \in Symbols : SymbolFile[s] = f}
         /\ Batch(f, content).edges \subseteq
              Batch(f, content).symbols \X (Batch(f, content).symbols \cup Refs)
         /\ content = None => Batch(f, content).symbols = {}
<1>1. CASE content = None
  BY <1>1 DEF Batch
<1>2. CASE content \in Contents
  <2>1. content # None
    BY <1>2, StoreAssumption
  <2>2. Batch(f, content) = Parse[f][content]
    BY <2>1 DEF Batch
  <2> QED BY <1>2, <2>1, <2>2, StoreAssumption
<1> QED BY <1>1, <1>2

\* A new row of edges has the types of its columns, and its status fits.
LEMMA NewRowType ==
  ASSUME NEW x \in Symbols \X (Symbols \cup Refs)
  PROVE  /\ NewRow(x) \in EdgeRow
         /\ NewRow(x).source = x[1] /\ NewRow(x).target = x[2]
         /\ NewRow(x).status = "resolved" <=> x[2] \in Symbols
BY StoreAssumption DEF NewRow, EdgeRow

\* write_file_batch.
LEMMA WriteKeeps ==
  ASSUME NEW d, StoreInv(d), NEW f \in Files, NEW hash \in Contents,
         NEW content \in Contents \cup {None}
  PROVE  StoreInv(WriteFileBatch(d, f, hash, content))
<1> DEFINE b == Batch(f, content)
           n == WriteFileBatch(d, f, hash, content)
           fresh == b.edges \ Keys(d.edges)
<1>1. /\ b.symbols \subseteq {s \in Symbols : SymbolFile[s] = f}
      /\ b.edges \subseteq b.symbols \X (b.symbols \cup Refs)
      /\ content = None => b.symbols = {}
  BY BatchType
<1>2. d \in Database
  BY DEF StoreInv
<1>3. /\ n.nodes = [s \in Symbols |-> IF s \in b.symbols THEN content ELSE d.nodes[s]]
      /\ n.edges = d.edges \cup {NewRow(x) : x \in fresh}
      /\ n.cache = [d.cache EXCEPT ![f] = hash]
  BY DEF WriteFileBatch
<1> HIDE DEF b
<1>4. \A x \in fresh : /\ x[1] \in b.symbols /\ x[2] \in b.symbols \cup Refs
                       /\ x \in Symbols \X (Symbols \cup Refs)
  BY <1>1
<1>5. Rows(n) = Rows(d) \cup b.symbols
  <2>1. ASSUME NEW s \in b.symbols
        PROVE  content # None
    BY <2>1, <1>1
  <2> QED BY <1>1, <1>2, <1>3, <2>1 DEF Rows, Database
<1>6. \A x \in fresh : /\ NewRow(x) \in EdgeRow
                       /\ NewRow(x).source = x[1] /\ NewRow(x).target = x[2]
                       /\ NewRow(x).status = "resolved" <=> x[2] \in Symbols
  BY <1>4, NewRowType
<1>7. n \in Database
  <2>1. n.nodes \in [Symbols -> Contents \cup {None}]
    BY <1>2, <1>3 DEF Database
  <2>2. n.edges \in SUBSET EdgeRow
    BY <1>2, <1>3, <1>6 DEF Database
  <2>3. n.cache \in [Files -> Contents \cup {None}]
    BY <1>2, <1>3 DEF Database
  <2> QED BY <2>1, <2>2, <2>3 DEF WriteFileBatch, Database
<1>8. StatusFits(n)
  BY <1>3, <1>6 DEF StoreInv, StatusFits
<1>9. Anchored(n)
  BY <1>3, <1>4, <1>5, <1>6, StoreAssumption DEF StoreInv, Anchored
<1>10. Cached(n)
  BY <1>1, <1>2, <1>3, <1>5, StoreAssumption DEF StoreInv, Cached, Database, Rows
<1> QED BY <1>7, <1>8, <1>9, <1>10 DEF StoreInv

\* cleanup_file_records.
LEMMA CleanupKeeps ==
  ASSUME NEW d, StoreInv(d), NEW f \in Files
  PROVE  StoreInv(CleanupFileRecords(d, f))
<1> DEFINE n == CleanupFileRecords(d, f)
<1>1. d \in Database
  BY DEF StoreInv
<1>2. /\ n.nodes = [s \in Symbols |-> IF FilePath(s) = f THEN None ELSE d.nodes[s]]
      /\ n.edges = {e \in d.edges : {e.source, e.target} \cap RowsOf(d, f) = {}}
      /\ n.cache = [d.cache EXCEPT ![f] = None]
  BY DEF CleanupFileRecords
<1>3. Rows(n) = Rows(d) \ RowsOf(d, f)
  BY <1>2 DEF Rows, RowsOf
<1>4. n \in Database
  BY <1>1, <1>2 DEF CleanupFileRecords, Database
<1>5. StatusFits(n)
  BY <1>2 DEF StoreInv, StatusFits
<1>6. Anchored(n)
  BY <1>2, <1>3 DEF StoreInv, Anchored
<1>7. Cached(n)
  BY <1>1, <1>2, <1>3, StoreAssumption DEF StoreInv, Cached, Database, Rows, RowsOf, FilePath
<1> QED BY <1>4, <1>5, <1>6, <1>7 DEF StoreInv

\* The resolver finds targets among the rows of nodes, and touches only edges that have none.
LEMMA ResolvedTarget ==
  ASSUME NEW d, StoreInv(d), NEW e \in Unresolved(d)
  PROVE  /\ e \in EdgeRow /\ e.target \notin Symbols
         /\ e \in Unique(d) =>
              /\ ResolvedRow(d, e) \in EdgeRow
              /\ ResolvedRow(d, e).source = e.source
              /\ ResolvedRow(d, e).target \in Rows(d)
              /\ ResolvedRow(d, e).status = "resolved"
<1>1. e \in EdgeRow /\ e.target \notin Symbols
  BY StoreAssumption DEF StoreInv, StatusFits, Unresolved, Database
<1>2. ASSUME e \in Unique(d)
      PROVE  /\ ResolvedRow(d, e) \in EdgeRow
             /\ ResolvedRow(d, e).source = e.source
             /\ ResolvedRow(d, e).target \in Rows(d)
             /\ ResolvedRow(d, e).status = "resolved"
  <2> DEFINE target == CHOOSE s \in Matches(d, e) : TRUE
  <2>1. Matches(d, e) # {}
    BY <1>2, FS_EmptySet DEF Unique
  <2>2. Matches(d, e) \subseteq Rows(d)
    BY DEF Matches
  <2>3. target \in Rows(d)
    BY <2>1, <2>2
  <2>4. target \in Symbols
    BY <2>3 DEF Rows
  <2>5. ResolvedRow(d, e) = [e EXCEPT !.target = target, !.status = "resolved"]
    BY DEF ResolvedRow
  <2> HIDE DEF target
  <2> QED BY <1>1, <2>3, <2>4, <2>5 DEF EdgeRow
<1> QED BY <1>1, <1>2

\* resolve_unresolved_edges.
LEMMA ResolveKeeps ==
  ASSUME NEW d, StoreInv(d), NEW won \in Updatable(d)
  PROVE  StoreInv(ResolveEdges(d, won))
<1> DEFINE n == ResolveEdges(d, won)
           kept == d.edges \ (won \cup Ambiguous(d))
           resolved == {ResolvedRow(d, e) : e \in won}
           ambiguous == {[e EXCEPT !.status = "ambiguous"] : e \in Ambiguous(d)}
<1>1. d \in Database
  BY DEF StoreInv
<1>2. /\ n.edges = kept \cup resolved \cup ambiguous
      /\ n.nodes = d.nodes /\ n.cache = d.cache
      /\ n \in Database <=> n.edges \in SUBSET EdgeRow
  BY <1>1 DEF ResolveEdges, Database
<1>3. Rows(n) = Rows(d)
  BY <1>2 DEF Rows
<1>4. won \subseteq Unique(d) /\ Unique(d) \subseteq Unresolved(d)
  BY DEF Updatable, Unique
<1>5. \A r \in resolved : /\ r \in EdgeRow /\ r.source \in Rows(d)
                          /\ r.target \in Rows(d) /\ r.status = "resolved"
  <2>1. SUFFICES ASSUME NEW e \in won
                 PROVE  /\ ResolvedRow(d, e) \in EdgeRow
                        /\ ResolvedRow(d, e).source \in Rows(d)
                        /\ ResolvedRow(d, e).target \in Rows(d)
                        /\ ResolvedRow(d, e).status = "resolved"
    OBVIOUS
  <2>2. e \in d.edges /\ e.source \in Rows(d)
    BY <1>4 DEF Unresolved, StoreInv, Anchored
  <2> QED BY <1>4, <2>2, ResolvedTarget
<1>6. \A r \in ambiguous : /\ r \in EdgeRow /\ r.source \in Rows(d)
                           /\ r.target \notin Symbols /\ r.status = "ambiguous"
  <2>1. SUFFICES ASSUME NEW e \in Ambiguous(d), NEW r, r = [e EXCEPT !.status = "ambiguous"]
                 PROVE  /\ r \in EdgeRow /\ r.source \in Rows(d)
                        /\ r.target \notin Symbols /\ r.status = "ambiguous"
    OBVIOUS
  <2>2. e \in Unresolved(d)
    BY DEF Ambiguous
  <2>3. e \in EdgeRow /\ e.target \notin Symbols
    BY <2>2, ResolvedTarget
  <2>4. e.source \in Rows(d)
    BY <2>2 DEF Unresolved, StoreInv, Anchored
  <2> QED BY <2>1, <2>3, <2>4 DEF EdgeRow
<1> HIDE DEF resolved, ambiguous
<1>7. n \in Database
  BY <1>1, <1>2, <1>5, <1>6 DEF Database
<1>8. StatusFits(n)
  BY <1>2, <1>5, <1>6 DEF StoreInv, StatusFits, Rows
<1>9. Anchored(n)
  BY <1>2, <1>3, <1>5, <1>6 DEF StoreInv, Anchored
<1>10. Cached(n)
  BY <1>2, <1>3 DEF StoreInv, Cached
<1> QED BY <1>7, <1>8, <1>9, <1>10 DEF StoreInv

-----------------------------------------------------------------------------
(***************************************************************************)
(* Rows and the hash in file_cache, of all files but t.                    *)
(***************************************************************************)
Matching(d, t) ==
  \A f \in Files \ t :
    d.cache[f] # None => \A s \in Parse[f][d.cache[f]].symbols : d.nodes[s] = d.cache[f]

\* A symbol that a parser finds in a file is of that file.
LEMMA ParsedHere ==
  ASSUME NEW f \in Files, NEW c \in Contents, NEW s \in Parse[f][c].symbols
  PROVE  s \in Symbols /\ SymbolFile[s] = f
BY StoreAssumption

\* A file is written with the rows of its hash, and then matches; the others are untouched.
LEMMA WriteMatches ==
  ASSUME NEW d \in Database, NEW t, Matching(d, t), NEW f \in Files, NEW hash \in Contents,
         NEW content \in Contents \cup {None}
  PROVE  Matching(WriteFileBatch(d, f, hash, content),
                  IF content = hash THEN t \ {f} ELSE t \cup {f})
<1> DEFINE n == WriteFileBatch(d, f, hash, content)
           b == Batch(f, content)
<1>1. b.symbols \subseteq {s \in Symbols : SymbolFile[s] = f}
  BY BatchType
<1>2. /\ n.nodes = [s \in Symbols |-> IF s \in b.symbols THEN content ELSE d.nodes[s]]
      /\ n.cache = [d.cache EXCEPT ![f] = hash]
  BY DEF WriteFileBatch
<1>3. content = hash => b.symbols = Parse[f][hash].symbols
  BY StoreAssumption DEF Batch
<1> HIDE DEF b
<1>4. ASSUME NEW g \in Files, n.cache[g] # None, NEW s \in Parse[g][n.cache[g]].symbols,
             g \notin (IF content = hash THEN t \ {f} ELSE t \cup {f})
      PROVE  n.nodes[s] = n.cache[g]
  <2>1. CASE g = f
    <3>1. content = hash /\ n.cache[g] = hash
      BY <1>2, <1>4, <2>1 DEF Database
    <3>2. s \in b.symbols /\ s \in Symbols
      BY <1>1, <1>3, <1>4, <2>1, <3>1
    <3> QED BY <1>2, <3>1, <3>2
  <2>2. CASE g # f
    <3>1. n.cache[g] = d.cache[g] /\ d.cache[g] \in Contents /\ g \notin t
      BY <1>2, <1>4, <2>2 DEF Database
    <3>2. s \in Symbols /\ SymbolFile[s] = g
      BY <1>4, <3>1, ParsedHere
    <3>3. n.nodes[s] = d.nodes[s]
      BY <1>1, <1>2, <2>2, <3>2
    <3>4. d.nodes[s] = d.cache[g]
      BY <1>4, <3>1 DEF Matching
    <3> QED BY <3>1, <3>3, <3>4
  <2> QED BY <2>1, <2>2
<1> HIDE DEF n
<1> QED BY <1>4 DEF Matching, n

\* A file that is cleaned up has no hash any more; the others are untouched.
LEMMA CleanupMatches ==
  ASSUME NEW d \in Database, NEW t, Matching(d, t), NEW f \in Files
  PROVE  Matching(CleanupFileRecords(d, f), t)
<1> DEFINE n == CleanupFileRecords(d, f)
<1>1. /\ n.nodes = [s \in Symbols |-> IF FilePath(s) = f THEN None ELSE d.nodes[s]]
      /\ n.cache = [d.cache EXCEPT ![f] = None]
  BY DEF CleanupFileRecords
<1>2. ASSUME NEW g \in Files \ t, n.cache[g] # None, NEW s \in Parse[g][n.cache[g]].symbols
      PROVE  n.nodes[s] = n.cache[g]
  <2>1. g # f /\ n.cache[g] = d.cache[g] /\ d.cache[g] \in Contents
    BY <1>1, <1>2 DEF Database
  <2>2. s \in Symbols /\ SymbolFile[s] = g
    BY <1>2, <2>1, ParsedHere
  <2>3. n.nodes[s] = d.nodes[s] /\ d.nodes[s] = d.cache[g]
    BY <1>1, <1>2, <2>1, <2>2, StoreAssumption DEF Matching, FilePath
  <2> QED BY <2>1, <2>3
<1> HIDE DEF n
<1> QED BY <1>2 DEF Matching, n

-----------------------------------------------------------------------------
(***************************************************************************)
(* The steps.  What a process carries from its reading to its writing must *)
(* be fit to be written: with the hash a content, with the rows a content  *)
(* or nothing.                                                             *)
(***************************************************************************)
WorkInv ==
  /\ disk \in [Files -> Contents \cup {None}]
  /\ work \in [Procs -> [Files -> WorkRecord]]
  /\ \A p \in Procs, f \in Files :
       work[p][f].st \in {"hashed", "parsed", "ready"} => work[p][f].hash \in Contents

IInv == StoreInv(db) /\ Matching(db, torn) /\ WorkInv

\* What a process may find out about a file.
Fit(w) == w \in WorkRecord /\ (w.st \in {"hashed", "parsed", "ready"} => w.hash \in Contents)

LEMMA PlainFit == Fit(Nothing) /\ Fit(Todo) /\ Fit(Gone)
BY DEF Fit, WorkRecord, Nothing, Todo, Gone

\* A step that finds out something fit, or nothing, about any files keeps the work fit.
LEMMA WorkKeeps ==
  ASSUME WorkInv, disk' = disk, NEW p \in Procs, NEW w,
         \A f \in Files : Fit(w[f]), w = [f \in Files |-> w[f]],
         work' = [work EXCEPT ![p] = w]
  PROVE  WorkInv'
<1>1. work' \in [Procs -> [Files -> WorkRecord]]
  BY DEF WorkInv, Fit
<1>2. \A q \in Procs, f \in Files : Fit(work'[q][f])
  BY DEF WorkInv, Fit
<1> QED BY <1>1, <1>2 DEF WorkInv, Fit

LEMMA OneKeeps ==
  ASSUME WorkInv, disk' = disk, NEW p \in Procs, NEW f \in Files, NEW w, Fit(w), Work(p, f, w)
  PROVE  WorkInv'
<1>1. work' \in [Procs -> [Files -> WorkRecord]]
  BY DEF WorkInv, Fit, Work
<1>2. \A q \in Procs, g \in Files : Fit(work'[q][g])
  BY DEF WorkInv, Fit, Work
<1> QED BY <1>1, <1>2 DEF WorkInv, Fit

\* A process that fails drops its work.
LEMMA FailsKeeps ==
  ASSUME WorkInv, disk' = disk, NEW p \in Procs, Fails(p)
  PROVE  WorkInv'
<1>1. work' = [work EXCEPT ![p] = NoWork]
  BY DEF Fails
<1>2. NoWork = [f \in Files |-> NoWork[f]] /\ \A f \in Files : Fit(NoWork[f])
  BY PlainFit DEF NoWork
<1> QED BY <1>1, <1>2, WorkKeeps

LEMMA InitInv == Init => IInv
<1> SUFFICES ASSUME Init
             PROVE  IInv
  OBVIOUS
<1>1. StoreInv(db)
  BY EmptyStore DEF Init
<1>2. Matching(db, torn)
  BY DEF Init, Matching, EmptyDatabase
<1>3. WorkInv
  BY PlainFit, IndexerAssumption DEF Init, WorkInv, NoWork, Fit, Nothing
<1> QED BY <1>1, <1>2, <1>3 DEF IInv

\* Files change: nothing that has been found out does.
LEMMA EditKeeps ==
  ASSUME IInv, NEW f \in Files, Edit(f)
  PROVE  IInv'
<1>1. WorkInv'
  BY DEF IInv, WorkInv, Edit
<1> QED BY <1>1 DEF IInv, Edit

\* The beginnings.
LEMMA BeginKeeps ==
  ASSUME IInv,
         \/ "index" \in Procs /\ IndexStep
         \/ "index_file" \in Procs /\ \E f \in Files : IndexFile(f)
         \/ "watch" \in Procs /\ (WatchLoop \/ Terminate \/ StartWatch)
  PROVE  IInv'
<1>1. db' = db /\ disk' = disk /\ torn' = torn
  BY DEF IndexStep, Scan, FindDeleted, LoadCache, Inspected, IndexFile, WatchLoop, Receive,
         Flush, Leave, Terminate, StartWatch
<1>2. CASE work' = work
  BY <1>1, <1>2 DEF IInv, WorkInv
<1>3. CASE "index" \in Procs /\ Scan
  <2> DEFINE w == [f \in Files |-> IF disk[f] # None THEN Todo ELSE Nothing]
  <2>1. work' = [work EXCEPT !["index"] = w]
    BY <1>3 DEF Scan
  <2>2. \A f \in Files : Fit(w[f])
    BY PlainFit
  <2> QED BY <1>1, <1>3, <2>1, <2>2, WorkKeeps DEF IInv
<1>4. CASE "index" \in Procs /\ FindDeleted
  <2> DEFINE w == [f \in Files |-> IF work["index"][f] = Nothing /\ db.cache[f] # None
                                    THEN Gone ELSE work["index"][f]]
  <2>1. work' = [work EXCEPT !["index"] = w]
    BY <1>4 DEF FindDeleted
  <2>2. \A f \in Files : Fit(w[f])
    BY <1>4, PlainFit DEF IInv, WorkInv, Fit
  <2> QED BY <1>1, <1>4, <2>1, <2>2, WorkKeeps DEF IInv
<1>5. CASE "watch" \in Procs /\ Flush
  <2> DEFINE w == [f \in Files |-> IF f \in pending THEN Todo ELSE Nothing]
  <2>1. work' = [work EXCEPT !["watch"] = w]
    BY <1>5 DEF Flush
  <2>2. \A f \in Files : Fit(w[f])
    BY PlainFit
  <2> QED BY <1>1, <1>5, <2>1, <2>2, WorkKeeps DEF IInv
<1>6. ASSUME "index_file" \in Procs, NEW f \in Files, IndexFile(f)
      PROVE  IInv'
  BY <1>1, <1>6, PlainFit, OneKeeps DEF IInv, IndexFile
<1> QED
  BY <1>2, <1>3, <1>4, <1>5, <1>6
  DEF IndexStep, LoadCache, Inspected, WatchLoop, Receive, Leave, Terminate, StartWatch

\* A step on one file.
LEMMA FileStepKeeps ==
  ASSUME IInv, NEW p \in Procs, NEW f \in Files
  PROVE  /\ Hash(p, f) \/ ParseFile(p, f) \/ ReadFails(p, f) => IInv'
         /\ p = "index" /\ ReadVectors(f) => IInv'
         /\ Write(p, f) => IInv'
         /\ CleanUp(p, f) => IInv'
         /\ WriteFails(p, f) => IInv'
<1> USE DEF IInv
<1>1. ASSUME Hash(p, f)
      PROVE  IInv'
  <2>1. PICK w : Work(p, f, w) /\ w \in {Gone, Nothing, [st |-> "hashed", hash |-> disk[f], rows |-> None]}
                 /\ (disk[f] = None => w = Gone)
    BY <1>1 DEF Hash
  <2>2. Fit(w)
    BY <2>1, PlainFit DEF WorkInv, Fit, WorkRecord
  <2> QED BY <1>1, <2>1, <2>2, OneKeeps DEF Hash, Marks
<1>2. ASSUME ParseFile(p, f)
      PROVE  IInv'
  <2>1. PICK w : Work(p, f, w) /\ w \in {[work[p][f] EXCEPT !.st = AfterParse(p), !.rows = disk[f]],
                                          [work[p][f] EXCEPT !.st = AfterParse(p)]}
    BY <1>2 DEF ParseFile
  <2>2. work[p][f] \in WorkRecord /\ work[p][f].hash \in Contents /\ disk[f] \in Contents \cup {None}
    BY <1>2 DEF ParseFile, WorkInv
  <2>3. Fit(w)
    BY <2>1, <2>2 DEF Fit, WorkRecord, AfterParse
  <2> QED BY <1>2, <2>1, <2>3, OneKeeps DEF ParseFile, Marks
<1>3. ASSUME ReadFails(p, f)
      PROVE  IInv'
  BY <1>3, PlainFit, OneKeeps, FailsKeeps DEF ReadFails, Marks
<1>7. ASSUME p = "index", ReadVectors(f)
      PROVE  IInv'
  <2>1. work[p][f] \in WorkRecord /\ work[p][f].hash \in Contents
    BY <1>7 DEF ReadVectors, WorkInv
  <2>2. Fit([work[p][f] EXCEPT !.st = "ready"])
    BY <2>1 DEF Fit, WorkRecord
  <2> QED BY <1>7, <2>2, OneKeeps DEF ReadVectors, Marks
<1>4. ASSUME Write(p, f)
      PROVE  IInv'
  <2>1. work[p][f].hash \in Contents /\ work[p][f].rows \in Contents \cup {None}
    BY <1>4 DEF Write, WorkInv, WorkRecord
  <2>2. StoreInv(db')
    BY <1>4, <2>1, WriteKeeps DEF Write, Commit
  <2>3. Matching(db', torn')
    BY <1>4, <2>1, WriteMatches DEF Write, Commit, StoreInv
  <2>4. WorkInv'
    BY <1>4, PlainFit, OneKeeps DEF Write
  <2> QED BY <2>2, <2>3, <2>4
<1>5. ASSUME CleanUp(p, f)
      PROVE  IInv'
  <2>1. StoreInv(db')
    BY <1>5, CleanupKeeps DEF CleanUp, Commit
  <2>2. Matching(db', torn')
    BY <1>5, CleanupMatches DEF CleanUp, Commit, Marks, StoreInv
  <2>3. WorkInv'
    BY <1>5, PlainFit, OneKeeps DEF CleanUp
  <2> QED BY <2>1, <2>2, <2>3
<1>6. ASSUME WriteFails(p, f)
      PROVE  IInv'
  BY <1>6, PlainFit, OneKeeps, FailsKeeps DEF WriteFails, Marks
<1> QED BY <1>1, <1>2, <1>3, <1>4, <1>5, <1>6, <1>7

\* Resolving, syncing, failing and being killed.
LEMMA ProcessKeeps ==
  ASSUME IInv, NEW p \in Procs
  PROVE  /\ ResolveRead(p) \/ SyncClear(p) \/ SyncNodes(p) \/ SyncEdges(p) => IInv'
         /\ ResolveWrite(p) => IInv'
         /\ ResolveBusy(p) \/ SyncFails(p) \/ Kill(p) => IInv'
<1> USE DEF IInv
<1>1. ASSUME ResolveRead(p) \/ SyncClear(p) \/ SyncNodes(p) \/ SyncEdges(p)
      PROVE  IInv'
  BY <1>1 DEF WorkInv, ResolveRead, SyncClear, SyncNodes, SyncEdges, Marks
<1>2. ASSUME ResolveWrite(p)
      PROVE  IInv'
  <2>1. PICK won \in Updatable(db) : db' = ResolveEdges(db, won)
    BY <1>2 DEF ResolveWrite
  <2>2. StoreInv(db')
    BY <2>1, ResolveKeeps
  <2>3. Matching(db', torn')
    BY <1>2, <2>1 DEF ResolveWrite, ResolveEdges, Matching, Marks, StoreInv, Database
  <2> QED BY <1>2, <2>2, <2>3 DEF ResolveWrite, WorkInv
<1>3. ASSUME ResolveBusy(p) \/ SyncFails(p) \/ Kill(p)
      PROVE  IInv'
  <2>1. db' = db /\ disk' = disk /\ torn' = torn
    BY <1>3 DEF ResolveBusy, SyncFails, Kill, Marks
  <2>2. Fails(p) \/ work' = work
    BY <1>3 DEF ResolveBusy, SyncFails, Kill
  <2> QED BY <2>1, <2>2, FailsKeeps DEF WorkInv
<1> QED BY <1>1, <1>2, <1>3

LEMMA NextInv == IInv /\ [Next]_vars => IInv'
<1> SUFFICES ASSUME IInv, [Next]_vars
             PROVE  IInv'
  OBVIOUS
<1>1. CASE UNCHANGED vars
  BY <1>1 DEF IInv, WorkInv, vars
<1>2. ASSUME NEW f \in Files, Edit(f)
      PROVE  IInv'
  BY <1>2, EditKeeps
<1>3. ASSUME NEW p \in Procs, Step(p)
      PROVE  IInv'
  BY <1>3, FileStepKeeps, ProcessKeeps DEF Step, FileStep
<1>4. ASSUME NEW p \in Procs, Fault(p)
      PROVE  IInv'
  BY <1>4, FileStepKeeps, ProcessKeeps DEF Fault
<1>5. CASE \/ "index" \in Procs /\ IndexStep
           \/ "index_file" \in Procs /\ \E f \in Files : IndexFile(f)
           \/ "watch" \in Procs /\ (WatchLoop \/ Terminate \/ StartWatch)
  BY <1>5, BeginKeeps
<1> QED BY <1>1, <1>2, <1>3, <1>4, <1>5 DEF Next

LEMMA Invariance == Spec => []IInv
<1>1. Init => IInv
  BY InitInv
<1>2. IInv /\ [Next]_vars => IInv'
  BY NextInv
<1> QED BY <1>1, <1>2, PTL DEF Spec

-----------------------------------------------------------------------------
\* Whatever index, index-file and the watcher write and clean up at once, and wherever they
\* are killed, edges hang on rows of nodes: every transaction of rust/crates/storage and
\* watcher keeps them anchored.
THEOREM EdgesStayAnchored == Spec => []EdgesAnchored
<1>1. IInv => EdgesAnchored
  BY DEF IInv, StoreInv, Anchored, EdgesAnchored
<1> QED BY <1>1, Invariance, PTL

\* The same for rows of nodes and the file_cache row of the path they carry, by which alone
\* `index' finds what to remove of a deleted file; the rows of PDFs carry another path.
THEOREM RowsStayCached == Spec => []RowsHaveCache
<1>1. IInv => RowsHaveCache
  BY DEF IInv, StoreInv, Cached, RowsHaveCache
<1> QED BY <1>1, Invariance, PTL

\* The same for the rows of a file and the hash by which it is skipped: they are of one
\* content, unless the file changed while it was read or its parser failed.
THEOREM RowsStayMatched == Spec => []RowsMatchCache
<1>1. IInv => RowsMatchCache
  BY DEF IInv, Matching, RowsMatchCache
<1> QED BY <1>1, Invariance, PTL

-----------------------------------------------------------------------------
(***************************************************************************)
(* Types.  StoreInv and WorkInv have those of the tables and of the work;  *)
(* a sync that has begun has a graph store.                                *)
(***************************************************************************)
RestInv ==
  /\ graph \in GraphStore \cup {NoGraph}
  /\ \A p \in Procs : pc[p] \in InSync => graph \in GraphStore
  /\ pc \in [Procs -> PCs]
  /\ cached \in [Procs -> [Files -> Contents \cup {None}]]
  /\ force \in [Procs -> BOOLEAN] /\ behind \in [Procs -> BOOLEAN]
  /\ alone \in BOOLEAN /\ stopping \in BOOLEAN
  /\ torn \subseteq Files /\ events \subseteq Files /\ pending \subseteq Files

LEMMA RestInitially ==
  ASSUME Init
  PROVE  RestInv
<1>1. pc \in [Procs -> PCs] /\ \A p \in Procs : pc[p] \notin InSync
  BY DEF Init, PCs, InSync
<1> QED BY <1>1 DEF Init, RestInv

\* A process that fails.
LEMMA FailsType ==
  ASSUME RestInv, NEW p \in Procs, Fails(p), graph' = graph
  PROVE  /\ pc' \in [Procs -> PCs]
         /\ \A q \in Procs : pc'[q] \in InSync => graph' \in GraphStore
         /\ cached' \in [Procs -> [Files -> Contents \cup {None}]]
         /\ force' \in [Procs -> BOOLEAN] /\ behind' \in [Procs -> BOOLEAN]
BY DEF RestInv, Fails, PCs, InSync

LEMMA MarksType ==
  ASSUME RestInv, NEW p, MarkAlone(p)
  PROVE  alone' \in BOOLEAN
BY DEF RestInv, MarkAlone

\* What the graph store is rebuilt from has its types.
LEMMA GraphType ==
  ASSUME NEW d, StoreInv(d), NEW nodes
  PROVE  Rows(d) \in SUBSET Symbols /\ GraphEdges(d, nodes) \in SUBSET (Symbols \X (Symbols \cup Refs))
BY DEF StoreInv, Database, EdgeRow, Rows, GraphEdges, Key

\* Files and the beginnings.
LEMMA BeginTypes ==
  ASSUME IInv, RestInv,
         \/ \E f \in Files : Edit(f)
         \/ "index" \in Procs /\ IndexStep
         \/ "index_file" \in Procs /\ \E f \in Files : IndexFile(f)
         \/ "watch" \in Procs /\ (WatchLoop \/ Terminate \/ StartWatch)
  PROVE  RestInv'
<1> USE DEF RestInv, Goto, watcher, bounds, Stop
<1>0. /\ {"open", "cleanup", "inspect", "write", "idle", "down"} \subseteq PCs \ InSync
      /\ db.cache \in [Files -> Contents \cup {None}]
  BY DEF PCs, InSync, IInv, StoreInv, Database
<1>1. ASSUME NEW f \in Files, Edit(f)
      PROVE  RestInv'
  BY <1>1 DEF Edit
<1>2. CASE "index" \in Procs /\ Scan
  BY <1>0, <1>2 DEF Scan
<1>3. CASE "index" \in Procs /\ (FindDeleted \/ Inspected)
  BY <1>0, <1>3, ZenonT(60) DEF FindDeleted, Inspected
<1>4. CASE "index" \in Procs /\ LoadCache
  BY <1>0, <1>4 DEF LoadCache
<1>5. ASSUME "index_file" \in Procs, NEW f \in Files, IndexFile(f)
      PROVE  RestInv'
  BY <1>0, <1>5 DEF IndexFile
<1>6. ASSUME NEW f \in Files, Receive(f)
      PROVE  RestInv'
  BY <1>6 DEF Receive
<1>7. CASE "watch" \in Procs /\ Flush
  BY <1>0, <1>7 DEF Flush
<1>8. CASE "watch" \in Procs /\ (Leave \/ Terminate \/ StartWatch)
  BY <1>0, <1>8 DEF Leave, Terminate, StartWatch
<1> QED BY <1>1, <1>2, <1>3, <1>4, <1>5, <1>6, <1>7, <1>8 DEF IndexStep, WatchLoop

LEMMA FileStepTypes ==
  ASSUME IInv, RestInv, NEW p \in Procs, NEW f \in Files,
         \/ Hash(p, f) \/ ParseFile(p, f) \/ ReadFails(p, f) \/ ReadVectors(f)
         \/ Write(p, f) \/ CleanUp(p, f) \/ WriteFails(p, f)
  PROVE  RestInv'
<1> USE DEF RestInv, Marks, watcher, bounds
<1>1. CASE Hash(p, f) \/ ParseFile(p, f) \/ ReadVectors(f)
  BY <1>1, MarksType DEF Hash, ParseFile, ReadVectors
<1>2. CASE ReadFails(p, f)
  BY <1>2, MarksType, FailsType DEF ReadFails
<1>3. CASE Write(p, f)
  <2>1. behind' \in [Procs -> BOOLEAN] /\ torn' \subseteq Files /\ alone' \in BOOLEAN
    BY <1>3, MarksType DEF Write, Commit
  <2>2. /\ pc' \in [Procs -> PCs]
        /\ \A q \in Procs : pc'[q] \in InSync => graph' \in GraphStore
    BY <1>3 DEF Write, PCs, InSync
  <2> QED BY <1>3, <2>1, <2>2 DEF Write
<1>4. CASE CleanUp(p, f)
  BY <1>4, MarksType DEF CleanUp, Commit
<1>5. CASE WriteFails(p, f)
  BY <1>5, MarksType, FailsType DEF WriteFails, Stop
<1> QED BY <1>1, <1>2, <1>3, <1>4, <1>5

LEMMA ProcessTypes ==
  ASSUME IInv, RestInv, NEW p \in Procs,
         \/ ResolveRead(p) \/ ResolveWrite(p) \/ ResolveBusy(p)
         \/ SyncClear(p) \/ SyncNodes(p) \/ SyncEdges(p) \/ SyncFails(p) \/ Kill(p)
  PROVE  RestInv'
<1> USE DEF RestInv, Marks, watcher, bounds, Goto
<1>0. /\ {"idle", "sync", "resolving", "inspect", "done", "file_nodes", "nodes", "file_edges",
          "edges"} \subseteq PCs
      /\ {"idle", "sync", "resolving", "inspect", "done"} \cap InSync = {}
  BY DEF PCs, InSync
<1>1. CASE ResolveRead(p)
  BY <1>0, <1>1, MarksType DEF ResolveRead, AfterResolve
<1>2. CASE ResolveWrite(p)
  BY <1>0, <1>2, MarksType DEF ResolveWrite, AfterResolve
<1>3. CASE ResolveBusy(p)
  BY <1>3, MarksType, FailsType DEF ResolveBusy
<1>4. CASE SyncClear(p)
  BY <1>0, <1>4, MarksType DEF SyncClear, GraphStore
<1>5. CASE SyncNodes(p)
  <2>1. graph \in GraphStore
    BY <1>5 DEF SyncNodes, InSync
  <2>2. graph' \in GraphStore
    BY <1>5, <2>1, GraphType DEF SyncNodes, GraphStore, IInv
  <2> QED BY <1>0, <1>5, <2>2, MarksType DEF SyncNodes
<1>6. CASE SyncEdges(p)
  <2>1. graph \in GraphStore
    BY <1>6 DEF SyncEdges, InSync
  <2>2. graph' \in GraphStore
    BY <1>6, <2>1, GraphType DEF SyncEdges, GraphStore, IInv
  <2> QED BY <1>0, <1>6, <2>2, MarksType DEF SyncEdges, AfterSync
<1>7. CASE SyncFails(p)
  BY <1>0, <1>7, MarksType, FailsType DEF SyncFails, Stop
<1>8. CASE Kill(p)
  BY <1>8, MarksType, FailsType DEF Kill, Stop
<1> QED BY <1>1, <1>2, <1>3, <1>4, <1>5, <1>6, <1>7, <1>8

LEMMA RestKept ==
  ASSUME IInv, RestInv, [Next]_vars
  PROVE  RestInv'
<1>1. CASE UNCHANGED vars
  BY <1>1 DEF RestInv, vars, watcher
<1> QED BY <1>1, BeginTypes, FileStepTypes, ProcessTypes DEF Next, Step, FileStep, Fault

LEMMA Typed == IInv /\ RestInv => TypeOK
BY DEF IInv, StoreInv, StatusFits, WorkInv, RestInv, TypeOK

\* Every state that index, index-file, the watcher and their files reach is well formed.
THEOREM IndexerTypes == Spec => []TypeOK
<1>1. Init => IInv /\ RestInv
  BY InitInv, RestInitially
<1>2. IInv /\ RestInv /\ [Next]_vars => IInv' /\ RestInv'
  BY NextInv, RestKept
<1> QED BY <1>1, <1>2, Typed, PTL DEF Spec

-----------------------------------------------------------------------------
(***************************************************************************)
(* `index', undisturbed: what it has found out agrees with the disk, phase *)
(* by phase, until the cache does.                                         *)
(***************************************************************************)
\* The cache agrees with the disk on a file that is gone or can be read as text.
Agrees(f) == disk[f] = None \/ OpensAsText(f) => db.cache[f] = disk[f]

\* While it inspects and writes: a file that is not there is not cached, and one that is is
\* still to be looked at, is cached as it is if it can be read as text, or will be.
Known(f) ==
  LET w == work["index"][f]
  IN  IF disk[f] = None THEN w = Nothing /\ db.cache[f] = None
      ELSE \/ w = Todo
           \/ w = Nothing /\ Agrees(f)
           \/ w.st \in {"hashed", "parsed", "ready"} /\ w.hash = disk[f]

IndexRun ==
  /\ pc["index"] \in PCs \ {"file_sync", "file_nodes", "file_edges", "down"}
  /\ pc["index"] = "open" =>
       \A f \in Files : work["index"][f] = IF disk[f] # None THEN Todo ELSE Nothing
  /\ pc["index"] = "cleanup" =>
       \A f \in Files : IF disk[f] # None THEN work["index"][f] = Todo
                        ELSE \/ work["index"][f] = Gone
                             \/ work["index"][f] = Nothing /\ db.cache[f] = None
  /\ pc["index"] = "inspect" => cached["index"] = db.cache /\ \A f \in Files : Known(f)
  /\ pc["index"] = "write" =>
       \A f \in Files : Known(f) /\ work["index"][f].st \notin {"todo", "hashed", "parsed"}
  /\ pc["index"] \in {"resolving", "sync", "nodes", "edges", "done"} => \A f \in Files : Agrees(f)
  /\ pc["index"] = "nodes" => graph = [nodes |-> {}, edges |-> {}]
  /\ pc["index"] = "edges" => graph = [nodes |-> Rows(db), edges |-> {}]
  /\ pc["index"] = "done" => graph = [nodes |-> Rows(db), edges |-> GraphEdges(db, Rows(db))]

RunInv == "index" \in Procs /\ alone => IndexRun


\* The others, and the watcher's loop, leave `index' and what it works on alone, or it is
\* not alone any more.
LEMMA Unmoved ==
  ASSUME RunInv, UNCHANGED <<disk, db, graph, alone>>,
         "index" \in Procs => /\ pc'["index"] = pc["index"]
                              /\ work'["index"] = work["index"]
                              /\ cached'["index"] = cached["index"]
  PROVE  RunInv'
BY DEF RunInv, IndexRun, Known, Agrees, OpensAsText, Opens

LEMMA NotAlone ==
  ASSUME ~alone'
  PROVE  RunInv'
BY DEF RunInv

\* The steps of the others.
LEMMA OthersRun ==
  ASSUME TypeOK, RunInv,
         \/ \E f \in Files : Edit(f)
         \/ \E p \in Procs \ {"index"} : Step(p) \/ Fault(p)
         \/ "index_file" \in Procs /\ \E f \in Files : IndexFile(f)
         \/ "watch" \in Procs /\ (WatchLoop \/ Terminate \/ StartWatch)
  PROVE  RunInv'
<1>1. CASE \E f \in Files : Edit(f)
  BY <1>1, NotAlone DEF Edit
<1>2. ASSUME NEW p \in Procs \ {"index"}, Step(p) \/ Fault(p)
      PROVE  RunInv'
  <2>1. MarkAlone(p)
    BY <1>2
    DEF Step, Fault, FileStep, Hash, ParseFile, ReadFails, Write, CleanUp, WriteFails, ResolveRead,
        ResolveWrite, ResolveBusy, SyncClear, SyncNodes, SyncEdges, SyncFails, Kill, Marks
  <2> QED BY <2>1, NotAlone DEF MarkAlone
<1>3. CASE "index_file" \in Procs /\ \E f \in Files : IndexFile(f)
  BY <1>3, NotAlone DEF IndexFile
<1>4. CASE "watch" \in Procs /\ (WatchLoop \/ Terminate \/ StartWatch)
  BY <1>4, Unmoved
  DEF TypeOK, WatchLoop, Receive, Flush, Leave, Terminate, StartWatch, Goto
<1> QED BY <1>1, <1>2, <1>3, <1>4

\* index gives up.
LEMMA FailsRun ==
  ASSUME TypeOK, "index" \in Procs, Fails("index")
  PROVE  RunInv'
BY DEF TypeOK, Fails, RunInv, IndexRun, PCs

\* index scans, finds what is gone, and loads the cache.
LEMMA BeginRun ==
  ASSUME TypeOK, RunInv, "index" \in Procs, IndexStep
  PROVE  RunInv'
<1> USE DEF TypeOK, Goto
<1>1. CASE Scan
  <2>1. pc'["index"] = "open" /\ disk' = disk
        /\ work'["index"] = [f \in Files |-> IF disk[f] # None THEN Todo ELSE Nothing]
    BY <1>1 DEF Scan
  <2> QED BY <2>1 DEF RunInv, IndexRun, PCs
<1> SUFFICES ASSUME alone, ~Scan
             PROVE  IndexRun'
  BY <1>1 DEF RunInv, IndexStep, FindDeleted, LoadCache, Inspected
<1>2. IndexRun
  BY DEF RunInv
<1>3. CASE FindDeleted
  <2>1. pc'["index"] = "cleanup" /\ disk' = disk /\ db' = db
        /\ work'["index"] = [f \in Files |->
             IF work["index"][f] = Nothing /\ db.cache[f] # None THEN Gone ELSE work["index"][f]]
    BY <1>3 DEF FindDeleted
  <2>2. \A f \in Files : work["index"][f] = IF disk[f] # None THEN Todo ELSE Nothing
    BY <1>2, <1>3 DEF FindDeleted, IndexRun
  <2>3. Todo # Nothing
    BY DEF Todo, Nothing
  <2> QED BY <2>1, <2>2, <2>3 DEF IndexRun, PCs
<1>4. CASE LoadCache
  <2>1. pc["index"] = "cleanup" /\ pc'["index"] = "inspect" /\ cached'["index"] = db.cache
        /\ UNCHANGED <<disk, db, work>>
    BY <1>4 DEF LoadCache
  <2>2. \A f \in Files : Known(f)'
    BY <1>2, <1>4, <2>1 DEF LoadCache, IndexRun, Known, Agrees, OpensAsText, Opens
  <2> QED BY <2>1, <2>2 DEF IndexRun, PCs
<1>5. CASE Inspected
  <2>1. pc["index"] = "inspect" /\ pc'["index"] = "write" /\ UNCHANGED <<disk, db, work>>
    BY <1>5 DEF Inspected
  <2>2. \A f \in Files : Known(f)' /\ work'["index"][f].st \notin {"todo", "hashed", "parsed"}
    BY <1>2, <1>5, <2>1 DEF Inspected, IndexRun, Known, Agrees, OpensAsText, Opens
  <2> QED BY <2>1, <2>2 DEF IndexRun, PCs
<1> QED BY <1>3, <1>4, <1>5 DEF IndexStep


\* index looks at a file that is as the scan found it, and writes it as it has read it.
LEMMA FileRun ==
  ASSUME TypeOK, WorkInv, "index" \in Procs, alone, IndexRun, NEW f \in Files,
         \/ Hash("index", f) \/ ParseFile("index", f) \/ ReadVectors(f)
         \/ ReadFails("index", f) \/ Write("index", f) \/ CleanUp("index", f)
  PROVE  IndexRun'
<1> USE DEF TypeOK, Marks, Work
<1> DEFINE w == work["index"]
<1>0. Todo.st = "todo" /\ Nothing.st = "none" /\ Gone.st = "gone"
  BY DEF Todo, Nothing, Gone
<1>1. ASSUME Inspecting("index", f), NEW v, Work("index", f, v), w[f].st \in {"todo", "hashed", "parsed"},
             UNCHANGED <<disk, db, graph, pc, cached>>,
             disk[f] # None,
             \/ v = Nothing /\ Agrees(f)
             \/ v.st \in {"hashed", "parsed", "ready"} /\ v.hash = disk[f]
      PROVE  IndexRun'
  <2>1. pc["index"] = "inspect" /\ pc'["index"] = "inspect"
    BY <1>1 DEF Inspecting
  <2>2. /\ cached["index"] = db.cache /\ \A g \in Files : Known(g)
        /\ cached'["index"] = db'.cache
    BY <1>1, <2>1 DEF IndexRun
  <2>3. work'["index"] = [w EXCEPT ![f] = v]
    BY <1>1
  <2>4. \A g \in Files : Agrees(g)' <=> Agrees(g)
    BY <1>1 DEF Agrees, OpensAsText, Opens
  <2>5. \A g \in Files : Known(g)'
    BY <1>1, <2>2, <2>3, <2>4 DEF Known
  <2> QED BY <2>1, <2>2, <2>5 DEF IndexRun, PCs
<1>2. ASSUME pc["index"] = "inspect", w[f].st # "none"
      PROVE  /\ Known(f) /\ disk[f] # None /\ cached["index"] = db.cache
             /\ w[f].st \in {"hashed", "parsed", "ready"} => w[f].hash = disk[f]
  BY <1>0, <1>2 DEF IndexRun, Known
<1>3. CASE Hash("index", f)
  <2>1. pc["index"] = "inspect" /\ w[f].st = "todo" /\ disk[f] # None /\ cached["index"] = db.cache
    BY <1>0, <1>2, <1>3 DEF Hash, Inspecting
  <2>2. CASE ~force["index"] /\ cached["index"][f] = disk[f]
    BY <1>1, <1>3, <2>1, <2>2 DEF Hash, Agrees
  <2>3. CASE ~ (~force["index"] /\ cached["index"][f] = disk[f])
    <3>1. Work("index", f, [st |-> "hashed", hash |-> disk[f], rows |-> None])
      BY <1>3, <2>1, <2>3 DEF Hash
    <3> QED BY <1>1, <1>3, <2>1, <3>1 DEF Hash
  <2> QED BY <2>2, <2>3
<1>4. CASE ParseFile("index", f)
  <2>1. pc["index"] = "inspect" /\ w[f].st = "hashed" /\ w[f].hash = disk[f] /\ disk[f] # None
    BY <1>2, <1>4 DEF ParseFile, Inspecting
  <2>2. PICK v \in {[w[f] EXCEPT !.st = "parsed", !.rows = disk[f]], [w[f] EXCEPT !.st = "parsed"]} :
          Work("index", f, v)
    BY <1>4 DEF ParseFile, AfterParse
  <2>3. w[f] \in WorkRecord
    OBVIOUS
  <2>4. v.st = "parsed" /\ v.hash = disk[f]
    BY <2>1, <2>2, <2>3 DEF WorkRecord
  <2> QED BY <1>1, <1>4, <2>1, <2>2, <2>4 DEF ParseFile
<1>8. CASE ReadVectors(f)
  <2> DEFINE v == [w[f] EXCEPT !.st = "ready"]
  <2>1. pc["index"] = "inspect" /\ w[f].st = "parsed" /\ w[f].hash = disk[f] /\ disk[f] # None
    BY <1>2, <1>8 DEF ReadVectors, Inspecting
  <2>2. v.st = "ready" /\ v.hash = disk[f]
    BY <2>1 DEF WorkRecord
  <2>3. Work("index", f, v)
    BY <1>8 DEF ReadVectors
  <2> HIDE DEF v
  <2> QED BY <1>1, <1>8, <2>1, <2>2, <2>3 DEF ReadVectors
<1>5. CASE ReadFails("index", f)
  <2>1. w[f].st \in {"todo", "hashed", "parsed"} /\ Work("index", f, Nothing)
    BY <1>0, <1>5 DEF ReadFails
  <2>2. disk[f] # None
    BY <1>2, <1>5, <2>1 DEF ReadFails, Inspecting
  <2>3. ~OpensAsText(f)
    BY <1>5 DEF ReadFails, OpensForHash, OpensAsText
  <2>4. Agrees(f)
    BY <2>2, <2>3 DEF Agrees
  <2> QED BY <1>1, <1>5, <2>1, <2>2, <2>4 DEF ReadFails
<1>6. CASE Write("index", f)
  <2>1. /\ pc["index"] = "write" /\ pc'["index"] = "write" /\ w[f].st = "ready"
        /\ UNCHANGED <<disk, graph, cached>>
        /\ work'["index"] = [w EXCEPT ![f] = Nothing]
        /\ db' = WriteFileBatch(db, f, w[f].hash, w[f].rows)
    BY <1>6 DEF Write, Writing, Commit
  <2>2. /\ \A g \in Files : Known(g) /\ w[g].st \notin {"todo", "hashed", "parsed"}
        /\ disk[f] # None /\ w[f].hash = disk[f]
    BY <1>0, <2>1 DEF IndexRun, Known
  <2>3. db'.cache = [db.cache EXCEPT ![f] = disk[f]]
    BY <2>1, <2>2 DEF WriteFileBatch
  <2>4. \A g \in Files : Known(g)' /\ work'["index"][g].st \notin {"todo", "hashed", "parsed"}
    BY <1>0, <2>1, <2>2, <2>3 DEF Known, Agrees, OpensAsText, Opens, Database
  <2> QED BY <2>1, <2>4 DEF IndexRun, PCs
<1>7. CASE CleanUp("index", f)
  <2>1. /\ w[f] = Gone /\ pc' = pc /\ pc["index"] \in {"write", "cleanup"}
        /\ UNCHANGED <<disk, graph, cached>>
        /\ work'["index"] = [w EXCEPT ![f] = Nothing]
        /\ db'.cache = [db.cache EXCEPT ![f] = None]
    BY <1>7 DEF CleanUp, Writing, Commit, CleanupFileRecords
  <2>2. pc["index"] = "cleanup" /\ disk[f] = None
    BY <1>0, <2>1 DEF IndexRun, Known
  <2>3. \A g \in Files : IF disk[g] # None THEN work'["index"][g] = Todo
                         ELSE \/ work'["index"][g] = Gone
                              \/ work'["index"][g] = Nothing /\ db'.cache[g] = None
    BY <2>1, <2>2 DEF IndexRun, Database
  <2> QED BY <2>1, <2>2, <2>3 DEF IndexRun, PCs
<1> QED BY <1>3, <1>4, <1>5, <1>6, <1>7, <1>8

\* When its files are done, the cache is the disk's; the resolver does not touch it, and the
\* graph store is rebuilt from the tables as they then are.
LEMMA EndRun ==
  ASSUME TypeOK, "index" \in Procs, alone, IndexRun,
         \/ ResolveRead("index") \/ ResolveWrite("index")
         \/ SyncClear("index") \/ SyncNodes("index") \/ SyncEdges("index")
  PROVE  IndexRun'
<1> USE DEF TypeOK, Goto, IndexRun, PCs
<1>0. ASSUME disk' = disk, db'.cache = db.cache
      PROVE  \A f \in Files : Agrees(f)' <=> Agrees(f)
  BY <1>0 DEF Agrees, OpensAsText, Opens
<1>1. CASE ResolveRead("index")
  <2>1. pc["index"] = "write" /\ pc'["index"] \in {"sync", "resolving"} /\ work["index"] = NoWork
        /\ UNCHANGED <<disk, db>>
    BY <1>1 DEF ResolveRead, FilesDone, AfterResolve
  <2>2. \A f \in Files : work["index"][f] = Nothing /\ Nothing.st = "none" /\ Todo # Nothing
    BY <2>1 DEF NoWork, Nothing, Todo
  <2>3. \A f \in Files : Agrees(f)
    BY <2>1, <2>2 DEF Known, Agrees
  <2> QED BY <1>0, <2>1, <2>3
<1>2. CASE ResolveWrite("index")
  <2>1. pc["index"] = "resolving" /\ pc'["index"] = "sync" /\ disk' = disk /\ db'.cache = db.cache
    BY <1>2 DEF ResolveWrite, AfterResolve, ResolveEdges
  <2> QED BY <1>0, <2>1
<1>3. CASE SyncClear("index")
  <2>1. pc["index"] = "sync" /\ pc'["index"] = "nodes" /\ UNCHANGED <<disk, db>>
        /\ graph' = [nodes |-> {}, edges |-> {}]
    BY <1>3 DEF SyncClear, SyncedFrom
  <2> QED BY <1>0, <2>1
<1>4. CASE SyncNodes("index")
  <2>1. pc["index"] = "nodes" /\ pc'["index"] = "edges" /\ UNCHANGED <<disk, db>>
        /\ graph' = [graph EXCEPT !.nodes = Rows(db)]
    BY <1>4 DEF SyncNodes, SyncedFrom
  <2>2. graph = [nodes |-> {}, edges |-> {}]
    BY <2>1
  <2>3. graph' = [nodes |-> Rows(db), edges |-> {}]
    <3> HIDE DEF TypeOK, IndexRun
    <3> QED BY <2>1, <2>2
  <2> QED BY <1>0, <2>1, <2>3
<1>5. CASE SyncEdges("index")
  <2>1. pc["index"] = "edges" /\ pc'["index"] = "done" /\ UNCHANGED <<disk, db>>
        /\ graph' = [graph EXCEPT !.edges = GraphEdges(db, graph.nodes)]
    BY <1>5 DEF SyncEdges, AfterSync, SyncedFrom
  <2>2. graph = [nodes |-> Rows(db), edges |-> {}]
    BY <2>1
  <2>3. graph' = [nodes |-> Rows(db), edges |-> GraphEdges(db, Rows(db))]
    <3> HIDE DEF TypeOK, IndexRun
    <3> QED BY <2>1, <2>2
  <2> QED BY <1>0, <2>1, <2>3
<1> QED BY <1>1, <1>2, <1>3, <1>4, <1>5

\* An `index' that ends with an error is idle again.
LEMMA FaultRun ==
  ASSUME TypeOK, "index" \in Procs, alone, IndexRun, Fault("index") \/ ResolveBusy("index")
  PROVE  RunInv'
<1>1. Fails("index")
  BY DEF Fault, ResolveBusy, Kill, SyncFails, WriteFails, SyncedFrom, InSync, IndexRun, AtRest
<1> QED BY <1>1, FailsRun

LEMMA RunKept ==
  ASSUME IInv, TypeOK, RunInv, [Next]_vars
  PROVE  RunInv'
<1>1. CASE UNCHANGED vars
  BY <1>1, Unmoved DEF vars
<1>2. CASE "index" \in Procs /\ IndexStep
  BY <1>2, BeginRun
<1>3. ASSUME "index" \in Procs, Step("index") \/ Fault("index")
      PROVE  RunInv'
  <2>1. CASE ~alone
    <3>1. MarkAlone("index")
      BY <1>3
      DEF Step, Fault, FileStep, Hash, ParseFile, ReadVectors, ReadFails, Write, CleanUp, WriteFails,
          ResolveRead, ResolveWrite, ResolveBusy, SyncClear, SyncNodes, SyncEdges, SyncFails,
          Kill, Marks
    <3> QED BY <2>1, <3>1, NotAlone DEF MarkAlone
  <2>2. CASE alone
    <3>1. IndexRun
      BY <1>3, <2>2 DEF RunInv
    <3>2. CASE \E f \in Files : \/ Hash("index", f) \/ ParseFile("index", f) \/ ReadVectors(f)
                                \/ ReadFails("index", f) \/ Write("index", f) \/ CleanUp("index", f)
      BY <1>3, <2>2, <3>1, <3>2, FileRun DEF IInv, RunInv
    <3>3. CASE \/ ResolveRead("index") \/ ResolveWrite("index")
               \/ SyncClear("index") \/ SyncNodes("index") \/ SyncEdges("index")
      BY <1>3, <2>2, <3>1, <3>3, EndRun DEF RunInv
    <3>4. CASE Fault("index") \/ ResolveBusy("index")
      BY <1>3, <2>2, <3>1, <3>4, FaultRun
    <3> QED BY <1>3, <3>2, <3>3, <3>4 DEF Step, FileStep
  <2> QED BY <2>1, <2>2
<1> QED BY <1>1, <1>2, <1>3, OthersRun DEF Next

\* Where `index' starts from does not matter, only that nothing disturbs it.
LEMMA Undisturbed == Spec => [](IInv /\ TypeOK /\ RunInv)
<1>1. Init => IInv /\ RestInv /\ RunInv
  BY InitInv, RestInitially DEF Init, RunInv
<1>2. IInv /\ RestInv /\ RunInv /\ [Next]_vars => IInv' /\ RestInv' /\ RunInv'
  BY NextInv, RestKept, RunKept, Typed
<1>3. IInv /\ RestInv /\ RunInv => IInv /\ TypeOK /\ RunInv
  BY Typed
<1> QED BY <1>1, <1>2, <1>3, PTL DEF Spec

\* Whatever crashes, races and lost events came before, one `index' that nothing disturbs
\* makes the cache agree with the disk on the files that are gone or can be read as text, and
\* leaves no row with the path of a file that is gone: they go with the cache (RowsStayCached).
THEOREM IndexingRepairs == Spec => []IndexRepairs
<1>1. IInv /\ TypeOK /\ RunInv => IndexRepairs
  BY StoreAssumption
  DEF IInv, StoreInv, Cached, RunInv, IndexRun, Agrees, IndexRepairs, IndexedAlone, RowsOf, Rows,
      FilePath
<1> QED BY <1>1, Undisturbed, PTL

\* After it the graph store holds the rows of nodes, and the edges that join them.
THEOREM GraphFollows == Spec => []GraphFollowsIndex
<1>1. RunInv => GraphFollowsIndex
  BY DEF RunInv, IndexRun, GraphFollowsIndex, IndexedAlone
<1> QED BY <1>1, Undisturbed, PTL

=============================================================================
