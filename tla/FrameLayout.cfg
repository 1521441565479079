SPECIFICATION Spec
CONSTANTS Functions <- MCFunctions
INVARIANTS TypeOK SlotsDisjoint OutgoingArgsFit CallerCalleeAgree LayoutComputed
CHECK_DEADLOCK FALSE
