SPECIFICATION Spec
CONSTANTS
  Spellings <- AllSpellings
  FileSpellings <- PlainSpellings
INVARIANT OracleRunValidates
