\* One session, whose games give up waiting after a time.
CONSTANTS
    Conn = {c1, c2}
    NoConn = none
    Code = {k1}
    NoCode = none
    Session = {s1}
    NoSession = none
    duel = duel
    solo = solo
    party = party
    Game = {duel, solo}
    NoGame = none
    MinPlayers <- MCMinPlayers
    MaxPlayers <- MCMaxPlayers
    Untimed = {}
    OwnerName = "Game Owner"
    Animal = {"Anonymous Fox"}
    UserName = {"Ann", ""}
    EmptyName = ""
    NoName = none
    Thread = {t1}
    MaxInbox = 1
    SlowStart = FALSE
SPECIFICATION FairSpec
PROPERTIES
    TextsAreTaken
    SessionsComeBack
    LeaveCompletes
