SPECIFICATION Spec
CONSTANTS
  Inputs <- MCInputs
  Symbols <- MCSymbols
INVARIANTS LinesAreRight InOrder TrimsOnlySpace
PROPERTY Terminates
