\* Every kind of question, with two players of whom one may leave and somebody
\* new may come.
CONSTANTS
    p = p
    q = q
    Player = {p, q}
    Newcomer = n
    Owner = p
    Says <- MCSays
    Games <- MCGames
SPECIFICATION FairSpec
INVARIANTS
    AnswersAreOwn
    AnswersOffered
    NobodySkipped
    VotesAgree
    ListNamed
PROPERTIES
    AskedOnce
    TextsAreTaken
    StepsEnd
