SPECIFICATION FairSpec
CONSTANTS
    Limit = 3
    Cap = 6
    Enabling = {TRUE, FALSE}
INVARIANTS WriteGivenUp HandlesGivenBack
PROPERTIES FightGivenUp Settles
