SPECIFICATION Spec
CONSTANTS
    MaxTokens = 7
CHECK_DEADLOCK FALSE
INVARIANTS DecisionIsWhole FencedOrFlatIsFound
