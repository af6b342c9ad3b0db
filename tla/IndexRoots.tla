----------------------------- MODULE IndexRoots -----------------------------
(***************************************************************************)
(* What the settings say is indexed (rust/crates/scanner): the index       *)
(* roots, the path a source file has in the database and the file a        *)
(* database path stands for.  No state: pure operators.                    *)
(*                                                                         *)
(* A path is the sequence of its names; an absolute one begins with Slash, *)
(* and `.' is the empty one.  Paths are canonical: no links, no `..'.      *)
(***************************************************************************)
EXTENDS Integers, SequencesExt, FiniteSetsExt

CONSTANTS
  Slash, External,  \* "/" and "@external", the first name of what is not in the workspace
  None,
  Workspace,        \* its absolute path
  SourceFiles,      \* the absolute paths of the files with a supported extension
  Ignored,          \* names that DEFAULT_IGNORES, .gitignore or exclude_paths match
  Dangerous,        \* DANGEROUS_PARTS
  Wild,             \* names with a character that roots and aliases may not have
  Includes          \* include_paths: what begins with one of these is indexed

\* A path is a list of names.
PathOK(path) == path \in Seq(ToSet(path))

ASSUME RootsAssumption ==
  /\ PathOK(Workspace) /\ Workspace # <<>> /\ Head(Workspace) = Slash
  /\ IsFiniteSet(SourceFiles) /\ None \notin SourceFiles
  /\ \A f \in SourceFiles : PathOK(f) /\ f # <<>> /\ Head(f) = Slash

StartsWith(path, prefix) == IsPrefix(prefix, path)
Below(path, root) == SubSeq(path, Len(root) + 1, Len(path))

-----------------------------------------------------------------------------
(***************************************************************************)
(* An entry of index_roots is a text or a mapping [path, external, alias]. *)
(***************************************************************************)
TextEntry(path) == [path |-> path, external |-> FALSE, alias |-> None]

\* What an entry or an argument names, a relative path being one of the workspace.
Target(path) == IF StartsWith(path, <<Slash>>) THEN path ELSE Workspace \o path

\* An entry that index add may have written.
EntryOK(entry) ==
  /\ entry = [path |-> entry.path, external |-> entry.external, alias |-> entry.alias]
  /\ PathOK(entry.path) /\ entry.external \in BOOLEAN

Written(entry) ==
  IF entry.external
  THEN StartsWith(entry.path, <<Slash>>) /\ entry.alias \notin Wild \cup {None}
  ELSE ~ StartsWith(entry.path, <<Slash>>)

AliasOf(alias, target) == IF alias = None THEN Last(target) ELSE alias

\* parse_root passes over the other entries,
Accepted(entry) ==
  LET target == Target(entry.path) IN
  /\ ToSet(entry.path) \cap Wild = {}
  /\ IF entry.external
     THEN AliasOf(entry.alias, target) \notin Wild /\ Last(target) \notin Dangerous
     ELSE StartsWith(target, Workspace) /\ ToSet(Below(target, Workspace)) \cap Dangerous = {}

\* and makes this of one that it accepts.
ParseRoot(entry) ==
  LET target == Target(entry.path) IN
  [db_root  |-> IF entry.external THEN <<External, AliasOf(entry.alias, target)>>
                ELSE Below(target, Workspace),
   source   |-> target,
   external |-> entry.external]

\* effective_index_roots: the whole workspace if nothing is configured.
EffectiveRoots(roots) == IF roots \in {None, <<>>} THEN <<TextEntry(<<>>)>> ELSE roots

\* Mutant: of equal db_roots the last.
KeepLast(out, entry) ==
  LET root == ParseRoot(entry) IN
  IF ~ Accepted(entry) THEN out
  ELSE Append(SelectSeq(out, LAMBDA r : r.db_root # root.db_root), root)

\* Of equal db_roots the first.
Keep(out, entry) ==
  LET root == ParseRoot(entry) IN
  IF Accepted(entry) /\ \A i \in DOMAIN out : out[i].db_root # root.db_root
  THEN Append(out, root) ELSE out

\* normalize_configured_index_roots
NormalizedRoots(roots) ==
  LET all == EffectiveRoots(roots)
      kept[i \in 0 .. Len(all)] == IF i = 0 THEN <<>> ELSE Keep(kept[i - 1], all[i])
  IN kept[Len(all)]

\* merge_indexing_rules: the local index_roots replace the workspace's.
Merge(base, local) == IF local = None THEN base ELSE local

-----------------------------------------------------------------------------
\* Of the chosen roots the first.
FirstOf(roots, chosen) == roots[Min(chosen)]

\* db_path_for_source_path: by the first root that contains the file.
DbPath(roots, file) ==
  LET all == NormalizedRoots(roots)
      around == {i \in DOMAIN all : StartsWith(file, all[i].source)}
      root == FirstOf(all, around)
  IN IF around = {} THEN None ELSE root.db_root \o Below(file, root.source)

\* source_path_for_index_path
SourcePath(roots, db) ==
  LET all == NormalizedRoots(roots)
      named == {i \in DOMAIN all : all[i].external /\ StartsWith(db, all[i].db_root)}
      root == FirstOf(all, named)
  IN IF ~ StartsWith(db, <<External>>) THEN Workspace \o db
     ELSE IF named = {} THEN None ELSE root.source \o Below(db, root.db_root)

ShouldIgnore(db) == ToSet(db) \cap Ignored # {}
ShouldInclude(db) == \E prefix \in Includes : StartsWith(db, prefix)

\* collect_from_index_root: a walk down from the root that does not enter what is
\* ignored, each directory and file by its own database path.
Collected(roots, root) ==
  {f \in SourceFiles :
     /\ StartsWith(f, root.source)
     /\ \A n \in Len(root.source) .. Len(f) :
          LET db == DbPath(roots, SubSeq(f, 1, n)) IN db = None \/ ~ ShouldIgnore(db)
     /\ ShouldInclude(DbPath(roots, f))}

\* scan_files
ScanFiles(roots) ==
  {DbPath(roots, f) : f \in UNION {Collected(roots, root) : root \in ToSet(NormalizedRoots(roots))}}

-----------------------------------------------------------------------------
(***************************************************************************)
(* index add and index remove.                                             *)
(***************************************************************************)
\* root_entry: None if there is no alias or not a good one.
RootEntry(path, alias) ==
  LET target == Target(path) IN
  IF StartsWith(target, Workspace) THEN TextEntry(Below(target, Workspace))
  ELSE IF AliasOf(alias, target) \in Wild THEN None
  ELSE [path |-> target, external |-> TRUE, alias |-> AliasOf(alias, target)]

\* matches_target
MatchesTarget(entry, target) ==
  \/ entry.path = target
  \/ entry.alias # None /\ target \in {<<entry.alias>>, <<External, entry.alias>>}

Listed(roots) == IF roots = None THEN <<>> ELSE roots

AddRoot(roots, entry) ==
  IF Contains(Listed(roots), entry) THEN Listed(roots) ELSE Append(Listed(roots), entry)

RemoveRoot(roots, target) ==
  LET all == Listed(roots)
      left[i \in 0 .. Len(all)] ==
        IF i = 0 THEN <<>>
        ELSE IF MatchesTarget(all[i], target) THEN left[i - 1] ELSE Append(left[i - 1], all[i])
  IN left[Len(all)]

=============================================================================
