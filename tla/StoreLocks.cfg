SPECIFICATION LockSpec
CONSTANTS
    Downloads = {d1, d2}
    Queries = {q1}
    Saves = {s1, s2}
    Rotations = {r1}
    Backups = {b1}
    NoOne = noone
INVARIANTS CapturesAgree
PROPERTIES OnlyReentryBlocks
CHECK_DEADLOCK FALSE
