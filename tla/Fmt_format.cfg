SPECIFICATION Spec
CONSTANTS
  MaxPacked = 2
  IntBits = 8
  Unprintable <- MCUnprintable
  Grouping <- MCGrouping
  Separator = 44
  BigitBits = 4
  SignificandBits = 4
  LongSignificandBits = 8
  ExponentBits = 5
  Kappa = 1
  TieExponent <- MCTieExponent
  ExpUpper = 3
  SegmentDigits = 4
  MaxDoubleDigits = 15
  DecimalPoint = 58
  Inputs <- MCInputs
INVARIANTS
  TypeOK
  ReadsAsGrammar
  CheckedRuns
  RefusedFails
  IntegersShown
  StringsShown
  DebugShown
  FloatsShown
