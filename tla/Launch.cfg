SPECIFICATION Spec
CONSTANTS
  Spellings <- AllSpellings
  FileSpellings <- PlainSpellings
INVARIANTS
  SameDatabase
  CheckedBeforeRun
  FallbackIsModelOnly
