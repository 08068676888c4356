\* Games with parallel branches, and with timers outside of them.
CONSTANTS
    Rule <- MCRule
    Kind <- MCKind
    Body <- MCBody
    Size <- MCSize
    Roots = {1, 14, 28, 51}
    MaxWorld = 2
SPECIFICATION FairSpec
INVARIANTS
    StatesThere
    NothingLeft
    TimersStop
PROPERTIES
    Interleaves
    BranchesMoveOn
    Ends
