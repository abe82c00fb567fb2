\* The AS of speaker 1 again behind speaker 2.
CONSTANTS
    n1 = n1
    n2 = n2
    Nets <- Repeated
    Nlris = {n1}
SPECIFICATION Spec
CHECK_DEADLOCK FALSE
INVARIANT QuietIsExact
