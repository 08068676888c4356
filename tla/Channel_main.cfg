\* One thread, the main one: the server while no game runs.
CONSTANTS
    Text = {a, b}
    Threads = {main}
    Main = main
    NoThread = none
    Unwritten = unwritten
    MaxSends = 3
    MaxArrivals = 2
SPECIFICATION FairSpec
INVARIANTS
    TypeOK
    OneWrite
    ChainAlive
    NothingLost
PROPERTIES
    OutgoingPipe
    EverySentIsWritten
