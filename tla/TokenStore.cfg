SPECIFICATION Spec
CONSTANTS
    c1 = c1
    c2 = c2
    srv = srv
    t1 = t1
    t2 = t2
    i1 = i1
    i2 = i2
    i3 = i3
    NoInode = NoInode
    Commands <- TwoCommands
    Server = srv
    Tokens <- TwoTokens
    Inodes <- Files
    MaxEdits = 1
    MaxStarts = 2
SYMMETRY Symmetry
INVARIANT CacheCurrent
INVARIANT SerialPromises
PROPERTY ActsAtomically
CHECK_DEADLOCK FALSE
