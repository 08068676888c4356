\* A round of rock, paper, scissors played twice by three; cards that are dealt;
\* a list that grows.
CONSTANTS
    Games <- MCGames
SPECIFICATION Spec
INVARIANTS
    AddressesLive
    RoundsScored
    CardsKept
PROPERTIES
    EachVisited
