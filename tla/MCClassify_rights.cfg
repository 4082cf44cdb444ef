SPECIFICATION Spec
CONSTANTS
    Limit = 3
    Cap = 6
    Enabling = {TRUE}
INVARIANT DecisionKept
