\* Two connections, two invite codes, so up to two sessions.
CONSTANTS
    Conn = {c1, c2}
    NoConn = none
    Code = {k1, k2}
    NoCode = none
    Session = {s1, s2}
    NoSession = none
    duel = duel
    solo = solo
    party = party
    Game = {party}
    NoGame = none
    MinPlayers <- MCMinPlayers
    MaxPlayers <- MCMaxPlayers
    Untimed = {}
    OwnerName = "Game Owner"
    Animal = {"Anonymous Fox"}
    UserName = {"Ann", ""}
    EmptyName = ""
    NoName = none
    Thread = {t1, t2}
    MaxInbox = 1
    SlowStart = FALSE
SPECIFICATION Spec
INVARIANTS
    TypeOK
    MembersAgree
    NoEmptySession
    OneGame
    OwnTextsOnly
PROPERTIES
    KeepsRooms
SYMMETRY Symmetry
