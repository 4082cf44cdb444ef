SPECIFICATION Spec
CONSTANTS
    Limit = 3
    Cap = 6
    Enabling = {TRUE, FALSE}
INVARIANT TypeOK
PROPERTY FightAdvances
