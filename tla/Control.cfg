SPECIFICATION Spec
CONSTANTS
  Commands = {c1, c2}
  Pids = {p1, p2, p3, p4}
  None = None
  Slash = "/"
  External = "@external"
  Workspace <- Ws
  SourceFiles <- Tree
  Sealed <- Locked
  NotText <- BinaryPdfs
  Ignored = {"build"}
  Dangerous = {"node_modules"}
  Wild = {"no*"}
  Includes <- Everything
  Menus <- ControlMenus
SYMMETRY Symmetry
CHECK_DEADLOCK FALSE
INVARIANTS TypeOK ServicesAreTracked RootsAsCommanded RowsAsConfigured
