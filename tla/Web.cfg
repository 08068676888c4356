\* A browser that asks twice, or a client; two texts each way.
CONSTANTS
    Text = {a, b}
    Empty = empty
    MaxRequests = 2
    MaxTyped = 2
    MaxSent = 2
SPECIFICATION FairSpec
INVARIANTS
    OneChain
    AnswersInOrder
PROPERTIES
    ClientReads
    LossIsNoticed
    RequestsAreAnswered
CHECK_DEADLOCK FALSE
