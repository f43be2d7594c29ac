\* A client that does not read; the channel holds two events.
CONSTANTS
    Subjects = {u1}
    Resources = {c1, c2}
    Watchers = {w1}
    Capacity = 2
    MaxRounds = 2
SPECIFICATION Spec
INVARIANTS NeverBlocked
CHECK_DEADLOCK FALSE
