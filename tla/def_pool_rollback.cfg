SPECIFICATION Spec
CONSTANTS
  Files = {"a", "b", "c"}
  Syms <- MCSyms
  Exts <- MCExts
  Deps <- MCDeps
  hash <- MCHash
  InitSize = 4
  MaxSize = 8
  MaxBuilds = 4
INVARIANT
  SymbolsSurviveFailure
CHECK_DEADLOCK FALSE
