SPECIFICATION InspectSpec
CONSTANTS
  Dirs = {"d"}
  Names = {a, b}
  Lines = {5, 6}
  Syms <- MCSyms
  Filters <- MCFilters
  Specs <- MCSpecs
  Slides = {0, 10}
  Reach = 2
  SymReach = 5
  MaxAddr = 5
  MaxFiles = 2
  MaxRows = 4
  MaxUnits = 2
  MaxBreaks = 1
  Headers <- MCHeaders
  LastOpcode = 23
  AddressSize = 2
  FilePaths <- MCFilePaths
  RowLines = {0, 1, 3}
  Isas <- MCIsas
  MaxAdvance = 3
  MaxOperand = 2
  MaxWritten = 2
  Offsets <- MCOffsets
  NoOffset <- MCNoOffset
  TextBases = {4, 6}
  LoadBases = {5, 9}
  Entries <- MCEntries
  StartRet = 40
  Root = 11
  Junk <- MCJunk
  LowestPc = 15
  MaxFrames = 3
  MaxCalls = 2
  VarNames = {"x", "y"}
  DataSyms <- MCDataSyms
  FuncSizes <- MCFuncSizes
  MaxVars = 2
  MaxBlocks = 2
  Expr <- MCExpr
  Variables <- MCVariables
  Members <- MCMembers
  StructSize <- MCStructSize
  ScalarWord <- MCScalarWord
  ScalarSize <- MCScalarSize
  Memory = {1, 2, 3, 4, 5, 6, 7}
  ByteBits = 1
  WordSize = 3
  WatchAddrs = {8, 14}
  ValueSizes = {0, 1, 3, 12}
  HwSlots = 3
SYMMETRY Alike
INVARIANTS
  InspectTypeOK
  FilesOfUnit
  CoveringLineShown
  BreakShowsItsLine
  FunctionEntered
  BreakListAgree
  BreakIsListed
  BreakFollowsSlide
  RowsDecoded
  SymbolsFollowImage
  CallsShown
  NoFrameTwice
  LocalIsVisible
  PrintShowAgree
  SetShown
  SamePlace
  OperandSeesPlace
  WatchedBytes
PROPERTIES
  UpFollowsCalls
