SPECIFICATION Spec
CONSTANTS
  caller = caller
  callee = callee
  paper = paper
  full = full
  half = half
  main = main
  own = own
  target = target
  chunk = chunk
  call = call
  import = import
  None = None
  NoGraph = NoGraph
  NotText <- MCBinary
  Sealed <- MCSealedCallee
  Files = {caller, callee, paper}
  Contents = {full, half}
  Pdfs = {paper}
  Symbols = {main, own, target, chunk}
  Refs = {call, import}
  SymbolFile <- MCSymbolFile
  SymbolName <- MCSymbolName
  SymbolLang <- MCSymbolLang
  SymbolKind <- MCSymbolKind
  RefName <- MCRefName
  RefKind <- MCRefKind
  RefFqn <- MCRefFqn
  RefDotted <- MCRefDotted
  Parse <- MCParse
  Disks <- SmallDisks
  Casts = {{"index", "watch"}, {"index_file", "watch"}}
  MaxEdits = 1
  MaxStops = 1
  MaxFailures = 0
INVARIANTS TypeOK EdgesAnchored RowsHaveCache RowsMatchCache IndexRepairs GraphFollowsIndex
