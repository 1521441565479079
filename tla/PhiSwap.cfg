SPECIFICATION Spec
CONSTANTS
  Words <- MCWords
  Modulus <- MCModulus
  StartWords = {0}
  Functions <- SwapLoop
INVARIANTS LiveValuesKept
CHECK_DEADLOCK FALSE
