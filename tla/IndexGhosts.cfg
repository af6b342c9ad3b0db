SPECIFICATION QuietSpec
CONSTANTS
  caller = caller
  callee = callee
  paper = paper
  full = full
  half = half
  main = main
  own = own
  target = target
  chunk = chunk
  call = call
  import = import
  None = None
  NoGraph = NoGraph
  NotText = {}
  Sealed = {}
  Files = {caller, callee}
  Contents = {full, half}
  Pdfs = {}
  Symbols = {main, own, target}
  Refs = {call, import}
  SymbolFile <- MCSymbolFile
  SymbolName <- MCSymbolName
  SymbolLang <- MCSymbolLang
  SymbolKind <- MCSymbolKind
  RefName <- MCRefName
  RefKind <- MCRefKind
  RefFqn <- MCRefFqn
  RefDotted <- MCRefDotted
  Parse <- MCParse
  Disks <- AnyDisk
  Casts = {{"index"}}
  MaxEdits = 2
  MaxStops = 0
  MaxFailures = 0
INVARIANT NoGhosts
