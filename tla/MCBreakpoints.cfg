SPECIFICATION Spec
CONSTANTS
    Address = {0, 1, 2, 3, 4}
    Capacity = 4
    Garbage = {3}
INVARIANTS TypeOK InBounds Sorted
PROPERTIES ImplementsSet Answered
