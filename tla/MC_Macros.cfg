\* Up to five nested calls of expand_macro; the code allows 32.
CONSTANTS
  MAX_RECURSION = 4
  Programs <- MCPrograms
SPECIFICATION Spec
INVARIANTS AgreesWithC PendingInPlace
PROPERTY Terminates
