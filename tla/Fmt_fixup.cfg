SPECIFICATION Spec
CONSTANTS
  MaxPacked = 2
  IntBits = 8
  Unprintable <- MCUnprintable
  Grouping <- MCGrouping
  Separator = 44
  BigitBits = 4
  SignificandBits = 4
  LongSignificandBits = 8
  ExponentBits = 5
  Kappa = 1
  TieExponent <- MCTieExponent
  ExpUpper = 3
  SegmentDigits = 4
  MaxDoubleDigits = 15
  DecimalPoint = 58
  Inputs <- LongDoubleInputs
INVARIANTS
  LeadingDigit
