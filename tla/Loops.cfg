SPECIFICATION FairSpec
CONSTANTS
  Words <- MCWords
  Modulus <- MCModulus
  StartWords = {0}
  Functions <- MCFunctions
INVARIANTS TypeOK LiveValuesKept
PROPERTIES ImplementsSSA TerminatorsComplete
CHECK_DEADLOCK FALSE
