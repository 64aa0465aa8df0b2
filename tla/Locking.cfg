SPECIFICATION Spec
CONSTANTS
    Runners = {r1, r2, r3}
    Submitters = {s1}
    Creator = creator
    Shots = 2
SYMMETRY RunnerSymmetry
INVARIANTS
    TypeOK
    WorkersAreCharged
    OneLockedController
PROPERTIES
    ChargesAreKept
\* Every process ends once; then nothing is left to do.
CHECK_DEADLOCK FALSE
