SPECIFICATION Spec
CONSTANTS
  Words <- MCWords
  Modulus <- MCModulus
  StartWords = {0}
  Functions <- LostCopyLoop
PROPERTIES ImplementsSSA
CHECK_DEADLOCK FALSE
