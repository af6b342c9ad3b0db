------------------------------ MODULE MCIndexer ------------------------------
(***************************************************************************)
(* Two sources, and for some runs a PDF.  The caller's file has a function *)
(* main that calls what it names, and as `half' also imports it by its     *)
(* dotted name; as `full' it has a class of the same name that contains    *)
(* main.  The callee's file has the function, or, as `half', is empty or   *)
(* cannot be opened.  The paper is a chunk of text in a binary file; as    *)
(* `half' it happens to be UTF-8.                                          *)
(***************************************************************************)
EXTENDS Indexer

CONSTANTS caller, callee, paper,        \* files
          full, half,                   \* contents
          main, own, target, chunk,     \* symbols
          call, import                  \* refs

MCSymbolFile == [s \in Symbols |-> CASE s = target -> callee [] s = chunk -> paper
                                     [] OTHER -> caller]
MCSymbolName == [s \in Symbols |-> CASE s = main -> "main" [] s = chunk -> "chunk"
                                     [] OTHER -> "target"]
MCSymbolLang == [s \in Symbols |-> IF s = chunk THEN "pdf" ELSE "python"]
MCSymbolKind == [s \in Symbols |-> CASE s = own -> "class" [] s = chunk -> "chunk"
                                     [] OTHER -> "function"]

MCRefName   == [r \in {call, import} |-> "target"]
MCRefKind   == [r \in {call, import} |-> "function|method"]
MCRefFqn    == [r \in {call, import} |-> None]
MCRefDotted == [r \in {call, import} |-> IF r = import THEN {target} ELSE {}]

MCParse ==
  [f \in Files |-> [c \in {full, half} |->
     CASE f = caller ->
            IF c = full THEN [symbols |-> {main, own}, edges |-> {<<main, call>>, <<own, main>>}]
                        ELSE [symbols |-> {main}, edges |-> {<<main, call>>, <<main, import>>}]
       [] f = callee -> [symbols |-> IF c = full THEN {target} ELSE {}, edges |-> {}]
       [] f = paper  -> [symbols |-> {chunk}, edges |-> {}]]]

AnyDisk == [Files -> Contents \cup {None}]

\* The two sources, one of them `full', or the caller's file and the paper.  An edit may
\* bring the third.
SmallDisks ==
  {d \in AnyDisk :
     \/ d[paper] = None /\ d[caller] # None /\ full \in {d[caller], d[callee]}
     \/ d[paper] = full /\ d[caller] = full /\ d[callee] = None}

\* The callee's file loses its permissions.
MCSealedCallee == {<<callee, half>>}

MCBinary == {<<paper, full>>}

=============================================================================
