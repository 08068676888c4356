\* A game thread receives while the main thread runs the handlers.
CONSTANTS
    Text = {a, b}
    Threads = {main, game}
    Main = main
    NoThread = none
    Unwritten = unwritten
    MaxSends = 0
    MaxArrivals = 2
SPECIFICATION FairSpec
PROPERTIES
    IncomingPipe
CHECK_DEADLOCK FALSE
