\* Two watches of one user; the channel holds two events.
CONSTANTS
    Subjects = {u1}
    Resources = {c1}
    Watchers = {w1, w2}
    Capacity = 2
    MaxRounds = 3
SPECIFICATION FairSpec
INVARIANTS TypeOK ClientFollowsKnown
PROPERTY NoWatcherLeaks
CHECK_DEADLOCK FALSE
