-------------------------------- MODULE Lobby --------------------------------
(***************************************************************************)
(* The game server (tools/gameserver/gameserver.cpp): connections come,    *)
(* send texts and go; each belongs to a GameSession, found by its invite   *)
(* code; the main loop goes over the sessions and handles the texts of     *)
(* their players; a session's game runs in a thread of its own, and while  *)
(* it does the session is "detached" from the main loop.                   *)
(*                                                                         *)
(* One main thread, which alternates Server::update (the handlers of       *)
(* connections) and a pass over the sessions; any number of game threads.  *)
(* Every access to a channel is under the lock of the server, so a call of *)
(* Server::send or receive is one step; everything else the threads share  *)
(* (players, detached, the sessions) is accessed without a lock.           *)
(*                                                                         *)
(* Sending has no effect on the state here: what Server::send may do to    *)
(* the caller is throw, when the connection is not registered.             *)
(***************************************************************************)
EXTENDS Sequences, FiniteSets, Integers

CONSTANTS
    Conn,           \* connections: addresses of Channel objects, used again
                    \* when a channel is gone
    NoConn,
    Code, NoCode,   \* invite codes
    Session,        \* addresses of GameSession objects, used again
    NoSession,
    Game, NoGame,   \* the configurations; NoGame: no such game
    MinPlayers,     \* MinPlayers[g], MaxPlayers[g]: Configuration's limits
    MaxPlayers,
    Untimed,        \* the games that wait for an input with no time limit
    OwnerName,      \* "Game Owner"
    Animal,         \* what select_random_animal may return
    UserName,       \* what players may type after /username
    EmptyName,      \* the empty name
    NoName,
    Thread,         \* bound: game threads that run at a time
    MaxInbox,       \* bound: texts that wait at a connection
    SlowStart       \* a thread that was started may not have run yet when the
                    \* main thread has slept a second and begins a new pass

Name == {OwnerName} \cup Animal \cup (UserName \ {EmptyName})

ASSUME NobodyAssumption ==
    /\ NoConn \notin Conn /\ NoCode \notin Code /\ NoSession \notin Session
    /\ NoGame \notin Game /\ NoName \notin Name
ASSUME LimitsAssumption ==
    /\ MinPlayers \in [Game -> Nat] /\ MaxPlayers \in [Game -> Nat]
    /\ Untimed \subseteq Game
    /\ MaxInbox \in Nat /\ SlowStart \in BOOLEAN

\* What a player may type, told apart by the test that recognises it.
Say(command, argument) == [command |-> command, argument |-> argument]
Texts ==
    {Say(x, NoName) : x \in {"chat", "/quit", "/shutdown", "/other"}}
        \cup {Say("/username ", n) : n \in UserName}
        \cup {Say("/start ", g) : g \in Game \cup {NoGame}}

VARIABLES
    channels,       \* the connections registered in ServerImpl::channels
    inbox,          \* inbox[c]: Channel::readBuffer of c
    gameSessions,   \* the vector of sessions, in order
    sessionMap,     \* sessionMap[c]: the session of c
    owner,          \* owner[s], code[s], players[s], configuration[s],
    code,           \* detached[s]: the members of GameSession; players[s][c]
    players,        \* is the name of c, or NoName
    configuration,
    detached,
    at,             \* where the main thread is, see Places
    index,          \* the position of its pass in gameSessions
    stop,           \* the size of gameSessions when the pass began
    todo,           \* players of the session whose texts it has not handled
    leaving,        \* the connection onDisconnect waits for
    buffer,         \* the sessions with texts in the main loop's buffer;
                    \* NoSession for one that has been dissolved
    game,           \* game[t]: the state of game thread t, see Games
    asked           \* history: asked[c] is the code c came with, until it goes

sessionVars == <<owner, code, players, configuration, detached, asked>>
mainVars == <<at, index, stop, todo, leaving, buffer>>
lobbyVars == <<channels, inbox, gameSessions, sessionMap, sessionVars>>
vars == <<lobbyVars, mainVars, game>>

(***************************************************************************)
(* update: in Server::update, between two handlers.  waiting: in           *)
(* onDisconnect, for the game of an empty session.  scan: at the head of   *)
(* the loop over the sessions.  session: in the loop over the players of   *)
(* gameSessions[index].  crashed: the process was ended by the use of a    *)
(* dangling session or by an exception that leaves a game thread.          *)
(***************************************************************************)
Places == {"update", "waiting", "scan", "session", "crashed"}

(***************************************************************************)
(* A game thread is free, spawned (it has not run yet), playing, asking    *)
(* for the input of one player, or telling everybody that the game is      *)
(* over.  table is the set of connections in its name2connection; at is    *)
(* the player it is occupied with; told, those it told.                    *)
(***************************************************************************)
Games ==
    [phase : {"free", "spawned", "playing", "asking", "telling"},
     session : Session \cup {NoSession},
     table : SUBSET Conn,
     at : Conn \cup {NoConn},
     told : SUBSET Conn]

Free == [phase |-> "free", session |-> NoSession, table |-> {}, at |-> NoConn,
         told |-> {}]

TypeOK ==
    /\ channels \subseteq Conn
    /\ inbox \in [Conn -> Seq(Texts)]
    /\ gameSessions \in Seq(Session)
    /\ sessionMap \in [Conn -> Session \cup {NoSession}]
    /\ owner \in [Session -> Conn \cup {NoConn}]
    /\ code \in [Session -> Code \cup {NoCode}]
    /\ players \in [Session -> [Conn -> Name \cup {NoName}]]
    /\ configuration \in [Session -> Game \cup {NoGame}]
    /\ detached \in [Session -> BOOLEAN]
    /\ at \in Places
    /\ index \in Nat \ {0} /\ stop \in Nat
    /\ todo \subseteq Conn
    /\ leaving \in Conn \cup {NoConn}
    /\ buffer \subseteq Session \cup {NoSession}
    /\ game \in [Thread -> Games]
    /\ asked \in [Conn -> Code \cup {NoCode}]

NoPlayers == [c \in Conn |-> NoName]

Init ==
    /\ channels = {}
    /\ inbox = [c \in Conn |-> <<>>]
    /\ gameSessions = <<>>
    /\ sessionMap = [c \in Conn |-> NoSession]
    /\ owner = [s \in Session |-> NoConn]
    /\ code = [s \in Session |-> NoCode]
    /\ players = [s \in Session |-> NoPlayers]
    /\ configuration = [s \in Session |-> NoGame]
    /\ detached = [s \in Session |-> FALSE]
    /\ at = "update" /\ index = 1 /\ stop = 0 /\ todo = {} /\ leaving = NoConn
    /\ buffer = {}
    /\ game = [t \in Thread |-> Free]
    /\ asked = [c \in Conn |-> NoCode]

Live == {gameSessions[i] : i \in 1..Len(gameSessions)}
Players(s) == {c \in Conn : players[s][c] # NoName}
Names(s) == {players[s][c] : c \in Players(s)}

\* The session the pass is at.
Current == gameSessions[index]

-----------------------------------------------------------------------------
(***************************************************************************)
(* Faulty variants of the definitions below, one plausible slip each.      *)
(* Nothing uses them: put in the place of what they vary, they show that   *)
(* the properties at the end of the module can fail.                       *)
(***************************************************************************)
FoundAny(k) == DOMAIN gameSessions      \* any session, not the one with the code
IdleAlways(s) == TRUE                   \* no wait for the game of the session
DesertedNever(s) == FALSE               \* no look whether anybody is left
RefusedIfTaken(n) == n \in Names(Current)   \* the empty name is one, too
ClearedNever == buffer                  \* the texts are sent again
TimedWhenHeard(t) ==                    \* the clock is read after an answer only
    configuration[game[t].session] \notin Untimed /\ inbox[game[t].at] # <<>>
SetDetachedOnly(s, b) ==                \* a session once detached remains so
    detached' = [detached EXCEPT ![s] = @ \/ b]
LeaveMapped(s, cs) ==                   \* those who leave stay in the map
    /\ players' = [players EXCEPT ![s] =
                        [c \in Conn |-> IF c \in cs THEN NoName ELSE @[c]]]
    /\ asked' = [c \in Conn |-> IF c \in cs THEN NoCode ELSE asked[c]]
    /\ UNCHANGED sessionMap

-----------------------------------------------------------------------------
(* Parts of the actions *)

\* Where the sessions with code k are, of which onConnect takes the first.
Found(k) == {i \in DOMAIN gameSessions : code[gameSessions[i]] = k}

Idle(s) == ~detached[s]
Deserted(s) == Players(s) = {}
SetDetached(s, b) == detached' = [detached EXCEPT ![s] = b]

\* The names change_username refuses.
Refused(n) == n = EmptyName \/ n \in Names(Current)

\* The players cs of session s are forgotten; their channels are erased.
Leave(s, cs) ==
    /\ players' = [players EXCEPT ![s] =
                        [c \in Conn |-> IF c \in cs THEN NoName ELSE @[c]]]
    /\ sessionMap' = [c \in Conn |-> IF c \in cs THEN NoSession ELSE sessionMap[c]]
    /\ asked' = [c \in Conn |-> IF c \in cs THEN NoCode ELSE asked[c]]
Close(cs) ==
    /\ channels' = channels \ cs
    /\ inbox' = [c \in Conn |-> IF c \in cs THEN <<>> ELSE inbox[c]]

\* Erase the sessions without players, wherever they are; the others keep their
\* order.  The memory of those that are gone is free again.
DropEmptySessions ==
    LET gone == {s \in Live : Players(s) = {}}
        stay == {i \in DOMAIN gameSessions : gameSessions[i] \notin gone} IN
    /\ \E f \in [1..Cardinality(stay) -> stay] :
            /\ \A i, j \in DOMAIN f : i < j => f[i] < f[j]
            /\ gameSessions' = [i \in DOMAIN f |-> gameSessions[f[i]]]
    /\ owner' = [s \in Session |-> IF s \in gone THEN NoConn ELSE owner[s]]
    /\ code' = [s \in Session |-> IF s \in gone THEN NoCode ELSE code[s]]
    /\ configuration' =
            [s \in Session |-> IF s \in gone THEN NoGame ELSE configuration[s]]
    /\ UNCHANGED <<players, detached, asked>>

\* Server::receive for c, whose turn it is, returns the text.
Hear(c, text) ==
    /\ at = "session" /\ c \in todo
    /\ inbox[c] # <<>> /\ text = Head(inbox[c])
    /\ UNCHANGED <<gameSessions, owner, code, detached, at, index, stop, leaving>>

\* What was heard goes to the buffer, for everybody; the next player's turn.
Repeat(c) ==
    /\ inbox' = [inbox EXCEPT ![c] = Tail(@)]
    /\ todo' = todo \ {c}
    /\ buffer' = buffer \cup {Current}
    /\ UNCHANGED <<channels, sessionMap, asked>>

-----------------------------------------------------------------------------
(* Server::update: connections come, send and go *)

Register(c) ==
    /\ at = "update"
    /\ c \notin channels
    /\ channels' = channels \cup {c}
    /\ inbox' = [inbox EXCEPT ![c] = <<>>]

\* registerChannel and onConnect, with the code of a session that is there;
\* the new player is given the name of an animal.
JoinSession(c, k, n) ==
    /\ Register(c)
    /\ \E i \in Found(k) :
            /\ \A j \in Found(k) : i <= j
            /\ players' = [players EXCEPT ![gameSessions[i]][c] = n]
            /\ sessionMap' = [sessionMap EXCEPT ![c] = gameSessions[i]]
    /\ asked' = [asked EXCEPT ![c] = k]
    /\ UNCHANGED <<gameSessions, owner, code, configuration, detached, mainVars, game>>

\* The same with a code that no session has: c creates and owns one.
CreateSession(c, k) ==
    /\ Register(c)
    /\ Found(k) = {}
    /\ \E s \in Session \ Live :
            /\ gameSessions' = Append(gameSessions, s)
            /\ owner' = [owner EXCEPT ![s] = c]
            /\ code' = [code EXCEPT ![s] = k]
            /\ players' = [players EXCEPT ![s][c] = OwnerName]
            /\ sessionMap' = [sessionMap EXCEPT ![c] = s]
    /\ asked' = [asked EXCEPT ![c] = k]
    /\ UNCHANGED <<configuration, detached, mainVars, game>>

\* A text of c is read (the handler of Channel::readMessage).
Arrive(c, text) ==
    /\ at = "update"
    /\ c \in channels
    /\ Len(inbox[c]) < MaxInbox
    /\ inbox' = [inbox EXCEPT ![c] = Append(@, text)]
    /\ UNCHANGED <<channels, gameSessions, sessionMap, sessionVars, mainVars, game>>

\* The connection c is lost: Server::disconnect calls onDisconnect, which
\* takes c out of its session.  Unless it was the last player the channel is
\* erased when onDisconnect returns.
LosePlayer(c) ==
    /\ at = "update" /\ c \in channels
    /\ Players(sessionMap[c]) # {c}
    /\ Leave(sessionMap[c], {c})
    /\ Close({c})
    /\ UNCHANGED <<gameSessions, owner, code, configuration, detached, mainVars, game>>

\* It was the last one: onDisconnect waits until no game runs in the session.
LoseLastPlayer(c) ==
    /\ at = "update" /\ c \in channels
    /\ Players(sessionMap[c]) = {c}
    /\ Leave(sessionMap[c], {c})
    /\ at' = "waiting"
    /\ leaving' = c
    /\ UNCHANGED <<channels, inbox, gameSessions, owner, code, configuration,
                   detached, index, stop, todo, buffer, game>>

\* ... then it erases the session, and Server::disconnect erases the channel.
StopWaiting ==
    /\ at = "waiting"
    /\ \A s \in Live : Players(s) = {} => Idle(s)
    /\ DropEmptySessions
    /\ Close({leaving})
    /\ at' = "update"
    /\ leaving' = NoConn
    /\ UNCHANGED <<sessionMap, index, stop, todo, buffer, game>>

-----------------------------------------------------------------------------
(* The pass of the main loop over the sessions *)

\* Server::update returns; the loop computes its end once.
BeginPass ==
    /\ at = "update"
    /\ at' = "scan"
    /\ index' = 1
    /\ stop' = Len(gameSessions)
    /\ UNCHANGED <<lobbyVars, todo, leaving, buffer, game>>

\* A session whose game runs is left alone.
SkipDetached ==
    /\ at = "scan"
    /\ index <= stop /\ index <= Len(gameSessions)
    /\ detached[Current]
    /\ index' = index + 1
    /\ UNCHANGED <<lobbyVars, at, stop, todo, leaving, buffer, game>>

EnterSession ==
    /\ at = "scan"
    /\ index <= stop /\ index <= Len(gameSessions)
    /\ ~detached[Current]
    /\ at' = "session"
    /\ todo' = Players(Current)
    /\ UNCHANGED <<lobbyVars, index, stop, leaving, buffer, game>>

\* The loop goes on beyond the sessions that are left after an erase and
\* dereferences what is there, a null pointer.
EnterDangling ==
    /\ at = "scan"
    /\ index <= stop /\ index > Len(gameSessions)
    /\ at' = "crashed"
    /\ UNCHANGED <<lobbyVars, index, stop, todo, leaving, buffer, game>>

\* The pass is over; the main thread sleeps a second, enough for a thread it
\* has started to run unless SlowStart.
EndPass ==
    /\ at = "scan"
    /\ index > stop
    /\ SlowStart \/ \A t \in Thread : game[t].phase # "spawned"
    /\ at' = "update"
    /\ index' = 1
    /\ stop' = 0
    /\ UNCHANGED <<lobbyVars, todo, leaving, buffer, game>>

\* Server::receive for a player c whose turn it is finds nothing.
HearNothing(c) ==
    /\ at = "session" /\ c \in todo
    /\ inbox[c] = <<>>
    /\ todo' = todo \ {c}
    /\ UNCHANGED <<lobbyVars, at, index, stop, leaving, buffer, game>>

\* A chat, or a command that is not known or not allowed.
HandleChat(c, text) ==
    /\ Hear(c, text)
    /\ \/ text.command \in {"chat", "/other"}
       \/ text.command \in {"/shutdown", "/start "} /\ c # owner[Current]
    /\ Repeat(c)
    /\ UNCHANGED <<players, configuration, game>>

\* change_username: names are unique among the players.
HandleUsername(c, text) ==
    /\ Hear(c, text)
    /\ text.command = "/username "
    /\ players' = IF Refused(text.argument) THEN players
                  ELSE [players EXCEPT ![Current][c] = text.argument]
    /\ Repeat(c)
    /\ UNCHANGED <<configuration, game>>

HandleQuit(c, text) ==
    /\ Hear(c, text)
    /\ text.command = "/quit"
    /\ Leave(Current, {c})
    /\ Close({c})
    /\ todo' = todo \ {c}
    /\ buffer' = buffer \cup {Current}
    /\ UNCHANGED <<configuration, game>>

\* The owner disconnects everybody, and the pass leaves the players' loop.
HandleShutdown(c, text) ==
    /\ Hear(c, text)
    /\ text.command = "/shutdown" /\ c = owner[Current]
    /\ Leave(Current, Players(Current))
    /\ Close(Players(Current))
    /\ todo' = {}
    /\ UNCHANGED <<configuration, buffer, game>>

\* validate fails: no such game, or too many or too few players for it.  The
\* session keeps the configuration that was found.
HandleStartInVain(c, text) ==
    LET g == text.argument IN
    /\ Hear(c, text)
    /\ text.command = "/start " /\ c = owner[Current]
    /\ \/ g = NoGame /\ UNCHANGED configuration
       \/ /\ g # NoGame
          /\ Cardinality(Players(Current)) \notin MinPlayers[g]..MaxPlayers[g]
          /\ configuration' = [configuration EXCEPT ![Current] = g]
    /\ Repeat(c)
    /\ UNCHANGED <<players, game>>

\* GameSession::start: name2connection keeps one of the players who have the
\* same name, and a thread is started with it.
HandleStart(c, text) ==
    LET g == text.argument IN
    /\ Hear(c, text)
    /\ text.command = "/start " /\ c = owner[Current]
    /\ g # NoGame
    /\ Cardinality(Players(Current)) \in MinPlayers[g]..MaxPlayers[g]
    /\ configuration' = [configuration EXCEPT ![Current] = g]
    /\ \E t \in Thread, table \in SUBSET Players(Current) :
            /\ game[t].phase = "free"
            /\ {players[Current][d] : d \in table} = Names(Current)
            /\ Cardinality(table) = Cardinality(Names(Current))
            /\ game' = [game EXCEPT ![t] =
                            [Free EXCEPT !.phase = "spawned", !.session = Current,
                                         !.table = table]]
    /\ Repeat(c)
    /\ UNCHANGED players

\* All players have been heard and somebody is left: everybody is sent the
\* buffer, which is cleared.
Cleared == {}
Broadcast ==
    /\ at = "session" /\ todo = {}
    /\ ~Deserted(Current)
    /\ buffer' = Cleared
    /\ at' = "scan"
    /\ index' = index + 1
    /\ UNCHANGED <<lobbyVars, stop, todo, leaving, game>>

\* Nobody is left: the main thread waits until no game runs in the session and
\* erases it.  What the buffer holds stays there.
Dissolve ==
    /\ at = "session" /\ todo = {}
    /\ Deserted(Current) /\ Idle(Current)
    /\ DropEmptySessions
    /\ at' = "scan"
    /\ index' = index + 1
    /\ buffer' = {IF s = Current THEN NoSession ELSE s : s \in buffer}
    /\ UNCHANGED <<channels, inbox, sessionMap, stop, todo, leaving, game>>

\* The process is gone.
Crashed == at = "crashed" /\ UNCHANGED vars

-----------------------------------------------------------------------------
(* Game threads *)

\* Whom the game talks to: the players it was started with, and for the setup
\* the owner of the session.
Contacts(t) == game[t].table \cup {owner[game[t].session]}

Runs(t, phase) == at # "crashed" /\ game[t].phase = phase
Timed(t) == configuration[game[t].session] \notin Untimed

\* The thread t goes on at another phase, occupied with c.
Goes(t, phase, c) ==
    /\ game' = [game EXCEPT ![t].phase = phase, ![t].at = c]
    /\ UNCHANGED <<lobbyVars, mainVars>>

\* The thread gets to run and detaches its session.
Detach(t) ==
    /\ Runs(t, "spawned")
    /\ SetDetached(game[t].session, TRUE)
    /\ game' = [game EXCEPT ![t].phase = "playing"]
    /\ UNCHANGED <<channels, inbox, gameSessions, sessionMap, owner, code, players,
                   configuration, asked, mainVars>>

\* The game prompts a player and polls for the answer.
Ask(t, c) ==
    /\ Runs(t, "playing")
    /\ c \in Contacts(t) \cap channels
    /\ Goes(t, "asking", c)

\* The answer is there: a valid one, or one after which it is asked again.
TakeAnswer(t) ==
    LET c == game[t].at IN
    /\ Runs(t, "asking")
    /\ c \in channels
    /\ inbox[c] # <<>>
    /\ inbox' = [inbox EXCEPT ![c] = Tail(@)]
    /\ \/ game' = [game EXCEPT ![t].phase = "playing", ![t].at = NoConn]
       \/ UNCHANGED game
    /\ UNCHANGED <<channels, gameSessions, sessionMap, sessionVars, mainVars>>

\* A timed input gives up and says so to the player, which throws if the
\* player is not registered.
TimeUp(t) ==
    /\ Runs(t, "asking") /\ Timed(t)
    /\ Goes(t, IF game[t].at \in channels THEN "playing" ELSE "telling", NoConn)

\* Server::send or receive throws, for the player is not registered any more;
\* the thread catches the exception, and the game is over.
LoseContact(t) ==
    /\ \/ Runs(t, "playing") /\ ~(Contacts(t) \subseteq channels)
       \/ Runs(t, "asking") /\ game[t].at \notin channels
    /\ Goes(t, "telling", NoConn)

\* The rules have been run.
EndGame(t) == Runs(t, "playing") /\ Goes(t, "telling", NoConn)

\* "The game is over!": the loop reads the next player of the session ...
PickToTell(t, c) ==
    /\ Runs(t, "telling")
    /\ game[t].at = NoConn
    /\ c \in Players(game[t].session) \ game[t].told
    /\ Goes(t, "telling", c)

\* ... and sends to it.
Tell(t) ==
    /\ Runs(t, "telling")
    /\ game[t].at \in channels
    /\ game' = [game EXCEPT ![t].at = NoConn, ![t].told = @ \cup {game[t].at}]
    /\ UNCHANGED <<lobbyVars, mainVars>>

\* The player has gone between the two: Server::send throws, outside of the
\* try, which ends the process.
TellNobody(t) ==
    /\ Runs(t, "telling")
    /\ game[t].at # NoConn /\ game[t].at \notin channels
    /\ at' = "crashed"
    /\ UNCHANGED <<lobbyVars, index, stop, todo, leaving, buffer, game>>

\* Everybody has been told; the session goes back to the main loop.
HandBack(t) ==
    /\ Runs(t, "telling")
    /\ game[t].at = NoConn
    /\ Players(game[t].session) \subseteq game[t].told
    /\ SetDetached(game[t].session, FALSE)
    /\ game' = [game EXCEPT ![t] = Free]
    /\ UNCHANGED <<channels, inbox, gameSessions, sessionMap, owner, code, players,
                   configuration, asked, mainVars>>

-----------------------------------------------------------------------------
Handler ==
    \/ \E c \in Conn, k \in Code :
            CreateSession(c, k) \/ \E n \in Animal : JoinSession(c, k, n)
    \/ \E c \in Conn, text \in Texts : Arrive(c, text)
    \/ \E c \in Conn : LosePlayer(c) \/ LoseLastPlayer(c)

HandleText(c, text) ==
    \/ HandleChat(c, text) \/ HandleUsername(c, text) \/ HandleQuit(c, text)
    \/ HandleShutdown(c, text)
    \/ HandleStartInVain(c, text) \/ HandleStart(c, text)

MainLoop ==
    \/ StopWaiting \/ BeginPass \/ SkipDetached \/ EnterSession \/ EnterDangling
    \/ EndPass
    \/ \E c \in Conn : HearNothing(c) \/ \E text \in Texts : HandleText(c, text)
    \/ Broadcast \/ Dissolve

Play(t) == \E c \in Conn : Ask(t, c)

GameThread(t) ==
    \/ Detach(t) \/ TakeAnswer(t) \/ TimeUp(t) \/ LoseContact(t) \/ EndGame(t)
    \/ \E c \in Conn : PickToTell(t, c)
    \/ Tell(t) \/ TellNobody(t) \/ HandBack(t)

Next ==
    \/ Handler
    \/ MainLoop
    \/ \E t \in Thread : Play(t) \/ GameThread(t)
    \/ Crashed

Spec == Init /\ [][Next]_vars

(***************************************************************************)
(* Fairness.  The main thread never stops to go round its loop (poll runs  *)
(* the handlers that are ready and returns), the game threads are          *)
(* scheduled, the clock of a timed input runs out whatever is typed, and a *)
(* game that is not stuck in an input gets to the end of its rules.  The   *)
(* last is a property of the games that are configured, not of this code;  *)
(* nothing is assumed of the players.                                      *)
(***************************************************************************)
GamesEnd == \A t \in Thread : SF_vars(EndGame(t))
Fairness ==
    /\ WF_vars(MainLoop)
    /\ \A t \in Thread : WF_vars(GameThread(t)) /\ WF_vars(TimeUp(t))

FairSpec == Spec /\ Fairness /\ GamesEnd

-----------------------------------------------------------------------------
(* Properties *)

\* The three records of who is where agree at every step of every thread: a
\* connection is registered exactly while it is in a session or onDisconnect
\* waits with it, and it is in the session sessionMap gives, which exists, and
\* in no other.  Were it not so, Server::send would throw in the middle of the
\* main loop, or sessionMap.at in onDisconnect.
MembersAgree ==
    /\ channels = {c \in Conn : sessionMap[c] # NoSession \/ c = leaving}
    /\ \A c \in Conn, s \in Session : players[s][c] # NoName <=> sessionMap[c] = s
    /\ \A c \in Conn : sessionMap[c] \in Live \cup {NoSession}

\* A session without players does not outlive the handler or the pass in which
\* it lost the last one.
NoEmptySession ==
    at = "update" => \A s \in Live : Players(s) # {}

\* A session has one game at most, is detached exactly while it runs (from the
\* time the thread got to run), and is not destroyed under it.
OneGame ==
    \A t \in Thread : game[t].phase # "free" =>
        /\ game[t].session \in Live
        /\ detached[game[t].session] <=> game[t].phase # "spawned"
        /\ \A u \in Thread :
              game[u].phase # "free" /\ game[u].session = game[t].session => u = t

\* What the players of a session are sent was said in that session, or in one
\* that has been dissolved since the buffer was last cleared: never in another
\* that is still there.
OwnTextsOnly == at = "session" => buffer \subseteq {Current, NoSession}

\* The lobby keeps the promise of Rooms: the room of a connection is the code
\* of its session; a session nobody is left in is no room any more, though it
\* is there until the main thread has erased it.
RoomOf(c) == IF sessionMap[c] = NoSession THEN NoCode ELSE code[sessionMap[c]]
HostOf(k) ==
    LET open == {s \in Live : code[s] = k /\ Players(s) # {}} IN
    IF open = {} THEN NoConn ELSE owner[CHOOSE s \in open : TRUE]

Promise ==
    INSTANCE Rooms WITH invite <- asked,
                        room <- [c \in Conn |-> RoomOf(c)],
                        host <- [k \in Code |-> HostOf(k)]
KeepsRooms == Promise!RoomsSpec

\* Every text that waits at a connection is taken, by the main loop or by the
\* game, if the connection is not lost first and the process lives.
TextsAreTaken ==
    \A c \in Conn : inbox[c] # <<>> ~> (inbox[c] = <<>> \/ at = "crashed")

\* A session whose game was started comes back to the main loop.
SessionsComeBack ==
    \A t \in Thread : game[t].phase = "spawned" ~>
                        (game[t].phase = "free" \/ at = "crashed")

\* The main thread does not wait in onDisconnect for ever.  While it does it
\* serves nobody, in whatever session.
LeaveCompletes == at = "waiting" ~> at # "waiting"

-----------------------------------------------------------------------------
(* What comments and the README say, and the code does not do *)

\* Several sessions can be there: a pass over them stays inside the vector,
\* whatever session is dissolved on the way.
PassStaysInside == at = "scan" /\ index <= stop => index <= Len(gameSessions)

\* When the game ends, those who are told so are there to be told: nothing is
\* thrown outside of the try of the thread.
ToldAreThere ==
    \A t \in Thread : game[t].phase = "telling" /\ game[t].at # NoConn
                        => game[t].at \in channels
=============================================================================
