\* One session, with a game that waits for an input without a time limit, as
\* the prompts of a setup and an input-vote rule do.
CONSTANTS
    Conn = {c1, c2}
    NoConn = none
    Code = {k1}
    NoCode = none
    Session = {s1}
    NoSession = none
    duel = duel
    solo = solo
    party = party
    Game = {duel, solo}
    NoGame = none
    MinPlayers <- MCMinPlayers
    MaxPlayers <- MCMaxPlayers
    Untimed = {solo}
    OwnerName = "Game Owner"
    Animal = {"Anonymous Fox"}
    UserName = {"Ann", ""}
    EmptyName = ""
    NoName = none
    Thread = {t1}
    MaxInbox = 1
    SlowStart = FALSE
SPECIFICATION FairSpec
PROPERTIES
    LeaveCompletes
CHECK_DEADLOCK FALSE
