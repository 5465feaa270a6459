SPECIFICATION Spec
CONSTANTS
  Files = {"a", "b", "c"}
  Syms <- MCSyms
  Exts <- MCExts
  Deps <- MCDeps
  hash <- MCHash
  InitSize = 4
  MaxSize = 8
  MaxBuilds = 5
INVARIANTS
  NoFreedSymbols
  RegistryExact
  SoundUntilRollback
  CountExact
CHECK_DEADLOCK FALSE
