\* Up to three constants in all combinations, or many of two names, or alike enums.
SPECIFICATION Spec
CONSTANTS
  Symbols <- MCSymbols
  Inputs <- MCInputs
  Reserved <- MCReserved
  Raws <- MCRaws
INVARIANTS
  TypeOK
  OnlyNamesakesClash
  RawSurvives
  KnownValuesNamed
\* The generator ends.
CHECK_DEADLOCK FALSE
