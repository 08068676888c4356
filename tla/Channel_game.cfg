\* A game thread sends while the main thread runs the handlers.
CONSTANTS
    Text = {a, b}
    Threads = {main, game}
    Main = main
    NoThread = none
    Unwritten = unwritten
    MaxSends = 3
    MaxArrivals = 0
SPECIFICATION Spec
INVARIANTS
    OneWrite
CHECK_DEADLOCK FALSE
