\* Two sessions come up while an origin announces and withdraws.
CONSTANTS
    n1 = n1
    n2 = n2
    Nets <- Fair
    Nlris = {n1}
SPECIFICATION FairSpec
CHECK_DEADLOCK FALSE
PROPERTY Converges
