----------------------------- MODULE GamesProofs -----------------------------
(***************************************************************************)
(* Proofs about the main loop and the threads of the games it starts.  The *)
(* flag "detached" is set by a game's thread when it gets to run, not by   *)
(* the main loop that starts it; between the two nothing marks the session *)
(* as taken.  That no session gets a second game meanwhile, and none is    *)
(* erased, is because the main loop has gone past the session, or is still *)
(* at it and has heard its owner: it is there until the pass is over, and  *)
(* has no second word before.  It rests on the sleep between two passes    *)
(* being long enough for a thread to begin.                                *)
(***************************************************************************)
EXTENDS LobbyProofs

Busy(t) == game[t].phase # "free"
Spawned(t) == game[t].phase = "spawned"

\* No session is in the vector twice.
Distinct ==
    \A i, j \in DOMAIN gameSessions : gameSessions[i] = gameSessions[j] => i = j

\* A session is detached only while a game runs in it.
DetachedRuns ==
    \A s \in Session : detached[s] =>
        \E t \in Thread : Busy(t) /\ ~Spawned(t) /\ game[t].session = s

\* Between two passes every thread that was started has begun.
BegunBetweenPasses ==
    at \in {"update", "waiting"} => \A t \in Thread : ~Spawned(t)

\* A session whose thread has not begun is behind the pass, or where it is.
BehindThePass ==
    \A t \in Thread, i \in DOMAIN gameSessions :
        Spawned(t) /\ game[t].session = gameSessions[i] =>
            /\ at = "scan" => i < index
            /\ at = "session" => i <= index

\* Once a game is started where the pass is, the owner has been heard, and is
\* still there.
OwnerWasHeard ==
    at = "session" => \A t \in Thread :
        Busy(t) /\ game[t].session = Current => owner[Current] \in Players(Current) \ todo

GParts == Distinct /\ OneGame /\ DetachedRuns /\ BegunBetweenPasses
            /\ BehindThePass /\ OwnerWasHeard
GInv == IInv /\ GParts

LEMMA GParts0 == Init => GParts
<1> SUFFICES ASSUME Init PROVE GParts
  OBVIOUS
<1>1. gameSessions = <<>> /\ at = "update"
  BY DEF Init
<1>2. \A t \in Thread : game[t].phase = "free"
  BY DEF Init, Free
<1>3. \A s \in Session : detached[s] = FALSE
  BY DEF Init
<1>4. Distinct /\ BehindThePass
  BY <1>1 DEF Distinct, BehindThePass
<1>5. OneGame
  BY <1>2 DEF OneGame
<1> QED
  BY <1>1, <1>2, <1>3, <1>4, <1>5
     DEF GParts, DetachedRuns, BegunBetweenPasses, OwnerWasHeard, Spawned

-----------------------------------------------------------------------------
(* The sessions that stay *)

\* Sessions that stay move to the front only, and none comes in twice.
LEMMA DropShifts ==
  ASSUME TypeOK, Distinct, DropEmptySessions
  PROVE  /\ Distinct'
         /\ \A i \in (DOMAIN gameSessions)' : \E j \in DOMAIN gameSessions :
                i <= j /\ gameSessions'[i] = gameSessions[j]
<1> DEFINE gone == {s \in Live : Players(s) = {}}
           stay == {i \in DOMAIN gameSessions : gameSessions[i] \notin gone}
           k == Cardinality(stay)
<1>1. PICK f \in [1..k -> stay] :
        /\ \A i, j \in DOMAIN f : i < j => f[i] < f[j]
        /\ gameSessions' = [i \in DOMAIN f |-> gameSessions[f[i]]]
  BY DEF DropEmptySessions
<1>2. stay \subseteq 1..Len(gameSessions) /\ Len(gameSessions) \in Nat
      /\ stay \subseteq DOMAIN gameSessions
  BY LiveAre
<1> HIDE DEF stay
<1>3. k \in Nat
  <2>1. IsFiniteSet(1..Len(gameSessions))
    BY <1>2, FS_Interval
  <2>2. IsFiniteSet(stay)
    BY <1>2, <2>1, FS_Subset
  <2> QED
    BY <2>2, FS_CardinalityType
<1> HIDE DEF k
<1>4. DOMAIN f = 1..k /\ (DOMAIN gameSessions)' = 1..k
      /\ \A i \in 1..k : gameSessions'[i] = gameSessions[f[i]]
  BY <1>1
<1>5. \A i \in 1..k : f[i] \in DOMAIN gameSessions /\ f[i] \in Nat
  BY <1>2
<1>6. \A i, j \in 1..k : f[i] = f[j] => i = j
  <2> SUFFICES ASSUME NEW i \in 1..k, NEW j \in 1..k, f[i] = f[j] PROVE i = j
    OBVIOUS
  <2>1. f[i] \in Nat /\ f[j] \in Nat /\ i \in Int /\ j \in Int
    BY <1>3, <1>5
  <2>2. ~(i < j) /\ ~(j < i)
    BY <1>1, <1>4, <2>1
  <2> QED
    BY <2>1, <2>2
<1>7. Distinct'
  BY <1>4, <1>5, <1>6 DEF Distinct
<1>8. ASSUME NEW i \in 1..k PROVE i <= f[i]
  <2>1. i \in Nat /\ f[i] \in Nat
    BY <1>3, <1>5
  <2> DEFINE g == [j \in 1..i |-> f[j]]
  <2>2. \A j \in 1..i : j \in 1..k /\ f[j] \in 1..f[i]
    <3> SUFFICES ASSUME NEW j \in 1..i PROVE j \in 1..k /\ f[j] \in 1..f[i]
      OBVIOUS
    <3>1. j \in 1..k
      BY <1>3, <2>1
    <3>2. f[j] \in 1..Len(gameSessions)
      BY <1>2, <3>1
    <3>3. j = i \/ j < i
      BY <2>1
    <3>4. j < i => f[j] < f[i]
      BY <1>1, <1>4, <3>1
    <3> QED
      BY <1>2, <2>1, <3>1, <3>2, <3>3, <3>4
  <2>3. g \in Injection(1..i, 1..f[i])
    BY <1>6, <2>2 DEF Injection, IsInjective
  <2>4. /\ IsFiniteSet(1..i) /\ Cardinality(1..i) = i
        /\ IsFiniteSet(1..f[i]) /\ Cardinality(1..f[i]) = f[i]
    BY <2>1, FS_Interval
  <2> HIDE DEF g
  <2>5. Cardinality(1..i) <= Cardinality(1..f[i])
    BY <2>3, <2>4, FS_Injection
  <2> QED
    BY <2>4, <2>5
<1> QED
  BY <1>4, <1>5, <1>7, <1>8

\* No game runs in a session that is erased.
LEMMA DropSpares ==
  ASSUME TypeOK, OneGame, DropEmptySessions,
         \A t \in Thread : Busy(t) => Players(game[t].session) # {}
  PROVE  \A t \in Thread : Busy(t) => game[t].session \in Live'
BY DropLeaves DEF OneGame, Busy

-----------------------------------------------------------------------------
(* The main thread *)

\* Server::update: nobody's game is about to begin, and no session goes.
LEMMA UpdateKeepsGames ==
  ASSUME GInv, Handler
  PROVE  GParts'
<1>1. /\ at = "update" /\ at' \in {"update", "waiting"}
      /\ UNCHANGED <<detached, game>>
  BY DEF Handler, CreateSession, JoinSession, Register, Arrive, LosePlayer,
         LoseLastPlayer, mainVars, sessionVars
<1>2. TypeOK
  BY DEF GInv, IInv
<1>3. UNCHANGED gameSessions \/ \E s \in Session \ Live : gameSessions' = Append(gameSessions, s)
  BY DEF Handler, CreateSession, JoinSession, Arrive, LosePlayer, LoseLastPlayer
<1>4. Distinct' /\ Live \subseteq Live'
  <2>1. CASE UNCHANGED gameSessions
    BY <2>1 DEF GInv, GParts, Distinct, Live
  <2>2. ASSUME NEW s \in Session \ Live, gameSessions' = Append(gameSessions, s)
        PROVE  Distinct' /\ Live \subseteq Live'
    <3>1. gameSessions \in Seq(Session) /\ s \in Session
      BY <1>2 DEF TypeOK
    <3>2. /\ DOMAIN Append(gameSessions, s) = 1..(Len(gameSessions) + 1)
          /\ Len(Append(gameSessions, s)) = Len(gameSessions) + 1
          /\ \A i \in 1..Len(gameSessions) : Append(gameSessions, s)[i] = gameSessions[i]
          /\ Append(gameSessions, s)[Len(gameSessions) + 1] = s
          /\ Len(gameSessions) \in Nat /\ DOMAIN gameSessions = 1..Len(gameSessions)
      BY ONLY <3>1
    <3>3. \A i \in 1..Len(gameSessions) : gameSessions[i] # s
      BY DEF Live
    <3>4. Distinct'
      BY <2>2, <3>2, <3>3 DEF GInv, GParts, Distinct
    <3>5. Live \subseteq Live'
      BY <2>2, <3>2 DEF Live
    <3> QED
      BY <3>4, <3>5
  <2> QED
    BY <1>3, <2>1, <2>2
<1>5. OneGame'
  BY <1>1, <1>4 DEF GInv, GParts, OneGame
<1>6. DetachedRuns'
  BY <1>1 DEF GInv, GParts, DetachedRuns, Busy, Spawned
<1>7. BegunBetweenPasses' /\ BehindThePass' /\ OwnerWasHeard'
  BY <1>1 DEF GInv, GParts, BegunBetweenPasses, BehindThePass, OwnerWasHeard, Spawned
<1> QED
  BY <1>4, <1>5, <1>6, <1>7 DEF GParts

LEMMA StopWaitingKeepsGames ==
  ASSUME GInv, StopWaiting
  PROVE  GParts'
<1>1. /\ at = "waiting" /\ at' = "update" /\ DropEmptySessions
      /\ UNCHANGED <<detached, game>>
      /\ \A s \in Live : Players(s) = {} => ~detached[s]
  BY DEF StopWaiting, DropEmptySessions, Idle
<1>2. TypeOK /\ OneGame /\ Distinct
  BY DEF GInv, GParts, IInv
<1>3. \A t \in Thread : Busy(t) => Players(game[t].session) # {}
  BY <1>1, <1>2 DEF GInv, GParts, OneGame, BegunBetweenPasses, Busy, Spawned
<1>4. OneGame'
  BY <1>1, <1>2, <1>3, DropSpares DEF OneGame, Busy
<1>5. Distinct'
  BY <1>1, <1>2, DropShifts
<1>6. DetachedRuns' /\ BegunBetweenPasses' /\ BehindThePass' /\ OwnerWasHeard'
  BY <1>1 DEF GInv, GParts, DetachedRuns, BegunBetweenPasses, BehindThePass,
              OwnerWasHeard, Busy, Spawned
<1> QED
  BY <1>4, <1>5, <1>6 DEF GParts

\* The session the pass comes to is none whose thread has still to begin.
LEMMA HeadOfLoopKeepsGames ==
  ASSUME GInv, ~SlowStart,
         BeginPass \/ SkipDetached \/ EnterSession \/ EnterDangling \/ EndPass
  PROVE  GParts'
<1>1. UNCHANGED <<gameSessions, owner, players, detached, game>>
  BY DEF BeginPass, SkipDetached, EnterSession, EnterDangling, EndPass, lobbyVars, sessionVars
<1>2. TypeOK /\ OneGame /\ Distinct /\ index \in Nat
  BY DEF GInv, GParts, IInv, TypeOK
<1>3. Distinct' /\ OneGame' /\ DetachedRuns'
  BY <1>1 DEF GInv, GParts, Distinct, OneGame, DetachedRuns, Live, Busy, Spawned
<1>4. BegunBetweenPasses'
  BY <1>1 DEF GInv, GParts, BegunBetweenPasses, Spawned, BeginPass, SkipDetached,
              EnterSession, EnterDangling, EndPass
<1>5. DOMAIN gameSessions = 1..Len(gameSessions) /\ Len(gameSessions) \in Nat
  BY <1>2, LiveAre
<1>6. BehindThePass'
  <2>1. CASE BeginPass \/ EnterDangling \/ EndPass
    BY <1>1, <2>1 DEF GInv, GParts, BehindThePass, BegunBetweenPasses, Spawned, BeginPass,
                      EnterDangling, EndPass
  <2>2. CASE SkipDetached
    <3>1. at = "scan" /\ index' = index + 1 /\ at' = "scan"
      BY <2>2 DEF SkipDetached
    <3>2. ASSUME NEW t \in Thread, NEW i \in DOMAIN gameSessions, Spawned(t),
                 game[t].session = gameSessions[i]
          PROVE  i < index + 1
      BY <1>2, <1>5, <3>1, <3>2 DEF GInv, GParts, BehindThePass
    <3> QED
      BY <1>1, <3>1, <3>2 DEF BehindThePass, Spawned
  <2>3. CASE EnterSession
    <3>1. at = "scan" /\ index' = index /\ at' = "session"
      BY <2>3 DEF EnterSession
    <3>2. ASSUME NEW t \in Thread, NEW i \in DOMAIN gameSessions, Spawned(t),
                 game[t].session = gameSessions[i]
          PROVE  i <= index
      BY <1>2, <1>5, <3>1, <3>2 DEF GInv, GParts, BehindThePass
    <3> QED
      BY <1>1, <3>1, <3>2 DEF BehindThePass, Spawned
  <2> QED
    BY <2>1, <2>2, <2>3
<1>7. OwnerWasHeard'
  <2>1. CASE EnterSession
    <3>1. /\ at = "scan" /\ index <= Len(gameSessions) /\ ~detached[Current]
          /\ index' = index /\ index \in DOMAIN gameSessions
      BY <1>2, <1>5, <2>1 DEF EnterSession, TypeOK
    <3>2. ASSUME NEW t \in Thread, Busy(t), game[t].session = Current PROVE FALSE
      <4>1. Spawned(t)
        BY <1>2, <3>1, <3>2 DEF OneGame, Busy, Spawned
      <4>2. index < index
        BY <3>1, <3>2, <4>1 DEF GInv, GParts, BehindThePass, Current
      <4> QED
        BY <1>2, <4>2
    <3>3. Current' = Current
      BY <1>1, <3>1 DEF Current
    <3> QED
      BY <1>1, <3>2, <3>3 DEF OwnerWasHeard, Busy
  <2>2. CASE ~EnterSession
    BY <2>2 DEF OwnerWasHeard, BeginPass, SkipDetached, EnterDangling, EndPass
  <2> QED
    BY <2>1, <2>2
<1> QED
  BY <1>3, <1>4, <1>6, <1>7 DEF GParts

\* The steps that hear a player of the session, and start no game.
LEMMA HearKeepsGames ==
  ASSUME GInv, at = "session",
         UNCHANGED <<at, index, gameSessions, owner, detached, game>>,
         todo' \subseteq todo,
         owner[Current] \in Players(Current) \ todo => owner[Current] \in Players(Current)'
  PROVE  GParts'
<1>1. Current' = Current /\ Live' = Live
  BY DEF Current, Live
<1> QED
  BY <1>1 DEF GInv, GParts, Distinct, OneGame, DetachedRuns, BegunBetweenPasses,
              BehindThePass, OwnerWasHeard, Busy, Spawned

\* What is said by others does not take the owner away.
LEMMA OthersTalk ==
  ASSUME GInv, NEW c \in Conn,
         HearNothing(c) \/ \E text \in Texts :
            HandleChat(c, text) \/ HandleUsername(c, text) \/ HandleQuit(c, text)
            \/ HandleShutdown(c, text) \/ HandleStartInVain(c, text)
  PROVE  GParts'
<1>1. TypeOK
  BY DEF GInv, IInv
<1>2. CASE HearNothing(c)
  <2>1. /\ at = "session" /\ todo' = todo \ {c}
        /\ UNCHANGED <<at, index, gameSessions, owner, players, detached, game>>
    BY <1>2 DEF HearNothing, lobbyVars, sessionVars
  <2>2. Players(Current)' = Players(Current)
    BY <2>1 DEF Current, Players
  <2> QED
    BY <2>1, <2>2, HearKeepsGames
<1>3. ASSUME NEW text \in Texts, HandleChat(c, text) \/ HandleStartInVain(c, text)
      PROVE  GParts'
  <2>1. /\ at = "session" /\ todo' = todo \ {c}
        /\ UNCHANGED <<at, index, gameSessions, owner, players, detached, game>>
    BY <1>3 DEF HandleChat, HandleStartInVain, Hear, Repeat
  <2>2. Players(Current)' = Players(Current)
    BY <2>1 DEF Current, Players
  <2> QED
    BY <2>1, <2>2, HearKeepsGames
<1>4. ASSUME NEW text \in Texts, Hear(c, text), HandleUsername(c, text) \/ HandleQuit(c, text)
      PROVE  GParts'
  <2>1. /\ at = "session" /\ c \in todo /\ todo' = todo \ {c} /\ Current \in Session
        /\ UNCHANGED <<at, index, gameSessions, owner, detached, game>>
    BY <1>1, <1>4, AtASession DEF HandleUsername, HandleQuit, Hear, Repeat, GInv, IInv
  <2>2. \A d \in Conn \ {c} : players'[Current][d] = players[Current][d]
    <3>1. players[Current] \in [Conn -> Name \cup {NoName}]
      BY <1>1, <2>1 DEF TypeOK
    <3>2. CASE HandleUsername(c, text)
      BY <1>1, <2>1, <3>1, <3>2 DEF HandleUsername, TypeOK
    <3>3. CASE HandleQuit(c, text)
      BY <1>1, <2>1, <3>1, <3>3 DEF HandleQuit, Leave, TypeOK
    <3> QED
      BY <1>4, <3>2, <3>3
  <2>3. Current' = Current
    BY <2>1 DEF Current
  <2>4. owner[Current] \in Players(Current) \ todo => owner[Current] \in Players(Current)'
    BY <2>1, <2>2, <2>3 DEF Players
  <2> QED
    BY <2>1, <2>4, HearKeepsGames
<1>5. ASSUME NEW text \in Texts, HandleShutdown(c, text) PROVE GParts'
  <2>1. /\ at = "session" /\ owner[Current] \in todo /\ todo' = {}
        /\ UNCHANGED <<at, index, gameSessions, owner, detached, game>>
    BY <1>5 DEF HandleShutdown, Hear
  <2> QED
    BY <2>1, HearKeepsGames
<1> QED
  BY <1>2, <1>3, <1>4, <1>5 DEF HandleUsername, HandleQuit

\* The owner starts a game: there is none yet.
LEMMA HandleStartKeepsGames ==
  ASSUME GInv, NEW c \in Conn, NEW text \in Texts, HandleStart(c, text)
  PROVE  GParts'
<1>1. /\ at = "session" /\ c \in todo /\ c = owner[Current] /\ todo' = todo \ {c}
      /\ UNCHANGED <<at, index, gameSessions, owner, detached, players>>
  BY DEF HandleStart, Hear, Repeat
<1>2. PICK t \in Thread, table \in SUBSET Players(Current) :
        /\ game[t].phase = "free"
        /\ game' = [game EXCEPT ![t] =
                    [Free EXCEPT !.phase = "spawned", !.session = Current, !.table = table]]
  BY DEF HandleStart
<1>3. /\ TypeOK /\ OneGame /\ Current \in Session /\ Current \in Live
      /\ index \in DOMAIN gameSessions /\ players[Current][c] # NoName
  BY <1>1, HearingIsBusy DEF GInv, GParts
<1>4. \A u \in Thread : Busy(u) => game[u].session # Current
  BY <1>1 DEF GInv, GParts, OwnerWasHeard
<1>5. ~detached[Current]
  BY <1>3, <1>4 DEF GInv, GParts, DetachedRuns
<1>6. /\ game'[t].phase = "spawned" /\ game'[t].session = Current
      /\ \A u \in Thread \ {t} : game'[u] = game[u]
  <2> DEFINE r == [Free EXCEPT !.phase = "spawned", !.session = Current, !.table = table]
  <2>1. r.phase = "spawned" /\ r.session = Current
    BY DEF Free
  <2>2. game' = [game EXCEPT ![t] = r]
    BY <1>2
  <2> HIDE DEF r
  <2> QED
    BY <1>3, <2>1, <2>2 DEF TypeOK
<1>7. Current' = Current /\ Live' = Live
  BY <1>1 DEF Current, Live
<1>8. OneGame'
  BY <1>1, <1>3, <1>4, <1>5, <1>6, <1>7 DEF OneGame, Busy
<1>9. DetachedRuns'
  BY <1>1, <1>2, <1>6 DEF GInv, GParts, DetachedRuns, Busy, Spawned
<1>10. Distinct' /\ BegunBetweenPasses'
  BY <1>1 DEF GInv, GParts, Distinct, BegunBetweenPasses
<1>11. BehindThePass'
  <2>1. \A i \in DOMAIN gameSessions : gameSessions[i] = Current => i <= index
    <3>1. index \in Nat
      BY <1>3 DEF TypeOK
    <3> QED
      BY <1>3, <3>1 DEF GInv, GParts, Distinct, Current
  <2>2. ASSUME NEW u \in Thread, NEW i \in DOMAIN gameSessions, Spawned(u)',
               game'[u].session = gameSessions[i]
        PROVE  i <= index
    <3>1. CASE u = t
      BY <1>6, <2>1, <2>2, <3>1
    <3>2. CASE u # t
      BY <1>1, <1>6, <2>2, <3>2 DEF GInv, GParts, BehindThePass, Spawned
    <3> QED
      BY <3>1, <3>2
  <2> QED
    BY <1>1, <2>2 DEF BehindThePass, Spawned
<1>12. OwnerWasHeard'
  BY <1>1, <1>3, <1>7 DEF OwnerWasHeard, Players
<1> QED
  BY <1>8, <1>9, <1>10, <1>11, <1>12 DEF GParts

LEMMA BroadcastKeepsGames ==
  ASSUME GInv, Broadcast
  PROVE  GParts'
<1>1. /\ at = "session" /\ at' = "scan" /\ index' = index + 1
      /\ UNCHANGED <<gameSessions, owner, players, detached, game>>
  BY DEF Broadcast, lobbyVars, sessionVars
<1>2. TypeOK /\ index \in Nat /\ DOMAIN gameSessions \subseteq Nat
  BY LiveAre DEF GInv, IInv, TypeOK
<1>3. Distinct' /\ OneGame' /\ DetachedRuns' /\ BegunBetweenPasses' /\ OwnerWasHeard'
  BY <1>1 DEF GInv, GParts, Distinct, OneGame, DetachedRuns, BegunBetweenPasses,
              OwnerWasHeard, Live, Busy, Spawned
<1>4. ASSUME NEW t \in Thread, NEW i \in DOMAIN gameSessions, Spawned(t),
             game[t].session = gameSessions[i]
      PROVE  i < index + 1
  BY <1>1, <1>2, <1>4 DEF GInv, GParts, BehindThePass
<1>5. BehindThePass'
  BY <1>1, <1>4 DEF BehindThePass, Spawned
<1> QED
  BY <1>3, <1>5 DEF GParts

\* The session of the pass is erased: no game is started in it, for the owner
\* would be there, and none runs, for it is not detached.
LEMMA DissolveKeepsGames ==
  ASSUME GInv, Dissolve
  PROVE  GParts'
<1>1. /\ at = "session" /\ at' = "scan" /\ index' = index + 1
      /\ Players(Current) = {} /\ ~detached[Current] /\ DropEmptySessions
      /\ UNCHANGED <<detached, game>>
  BY DEF Dissolve, Deserted, Idle, DropEmptySessions
<1>2. /\ TypeOK /\ OneGame /\ Distinct /\ index \in Nat
      /\ \A s \in Live \ {Current} : \E c \in Conn : players[s][c] # NoName
      /\ DOMAIN gameSessions = 1..Len(gameSessions) /\ Len(gameSessions) \in Nat
  BY <1>1, HearingIsBusy, LiveAre DEF GInv, GParts, TypeOK
<1>3. \A t \in Thread : Busy(t) => game[t].session # Current
  BY <1>1 DEF GInv, GParts, OwnerWasHeard
<1>4. \A t \in Thread : Busy(t) => Players(game[t].session) # {}
  BY <1>2, <1>3 DEF OneGame, Players, Busy
<1>5. OneGame'
  BY <1>1, <1>2, <1>4, DropSpares DEF OneGame, Busy
<1>6. /\ Distinct'
      /\ \A i \in (DOMAIN gameSessions)' : \E j \in DOMAIN gameSessions :
            i <= j /\ gameSessions'[i] = gameSessions[j]
  BY <1>1, <1>2, DropShifts
<1>7. (DOMAIN gameSessions)' \subseteq Nat
  <2>1. gameSessions' \in Seq(Session)
    BY <1>1, <1>2, DropLeaves
  <2> QED
    BY <2>1
<1>8. ASSUME NEW t \in Thread, NEW i \in (DOMAIN gameSessions)', Spawned(t),
             game[t].session = gameSessions'[i]
      PROVE  i < index + 1
  <2>1. PICK j \in DOMAIN gameSessions : i <= j /\ gameSessions'[i] = gameSessions[j]
    BY <1>6
  <2>2. j <= index
    BY <1>1, <1>8, <2>1 DEF GInv, GParts, BehindThePass
  <2>3. i \in Nat /\ j \in Nat
    BY <1>2, <1>7, <2>1
  <2> QED
    BY <1>2, <2>1, <2>2, <2>3
<1>9. BehindThePass'
  BY <1>1, <1>8 DEF BehindThePass, Spawned
<1>10. DetachedRuns' /\ BegunBetweenPasses' /\ OwnerWasHeard'
  BY <1>1 DEF GInv, GParts, DetachedRuns, BegunBetweenPasses, OwnerWasHeard, Busy, Spawned
<1> QED
  BY <1>5, <1>6, <1>9, <1>10 DEF GParts

-----------------------------------------------------------------------------
(* The game threads *)

\* A thread that has begun goes on, in the same session.
LEMMA GoesOnKeepsGames ==
  ASSUME GInv, NEW t \in Thread,
         UNCHANGED <<at, index, todo, gameSessions, owner, players, detached>>,
         Busy(t) /\ ~Spawned(t), (Busy(t) /\ ~Spawned(t))',
         game'[t].session = game[t].session,
         \A u \in Thread \ {t} : game'[u] = game[u]
  PROVE  GParts'
<1>1. Current' = Current /\ Live' = Live /\ Players(Current)' = Players(Current)
  BY DEF Current, Live, Players
<1>2. \A u \in Thread : /\ Busy(u)' <=> Busy(u)
                        /\ Spawned(u)' <=> Spawned(u)
                        /\ game'[u].session = game[u].session
  BY DEF Busy, Spawned
<1>3. OneGame'
  <2>1. \A u \in Thread : /\ game'[u].phase # "free" <=> game[u].phase # "free"
                          /\ game'[u].phase # "spawned" <=> game[u].phase # "spawned"
                          /\ game'[u].session = game[u].session
    BY <1>2 DEF Busy, Spawned
  <2> QED
    BY <1>1, <2>1 DEF GInv, GParts, OneGame
<1>4. DetachedRuns'
  BY <1>2 DEF GInv, GParts, DetachedRuns
<1>5. Distinct' /\ BegunBetweenPasses' /\ BehindThePass'
  BY <1>2 DEF GInv, GParts, Distinct, BegunBetweenPasses, BehindThePass
<1>6. OwnerWasHeard'
  BY <1>1, <1>2 DEF GInv, GParts, OwnerWasHeard
<1> QED
  BY <1>3, <1>4, <1>5, <1>6 DEF GParts

LEMMA GoesGoesOn ==
  ASSUME GInv, NEW t \in Thread, Busy(t) /\ ~Spawned(t),
         NEW phase \in {"playing", "asking", "telling"}, NEW c \in Conn \cup {NoConn},
         Goes(t, phase, c)
  PROVE  GParts'
<1>1. game \in [Thread -> Games] /\ game[t] \in Games
  BY DEF GInv, IInv, TypeOK
<1>2. UNCHANGED <<at, index, todo, gameSessions, owner, players, detached>>
  BY DEF Goes, lobbyVars, sessionVars, mainVars
<1>3. /\ game'[t].phase = phase /\ game'[t].session = game[t].session
      /\ \A u \in Thread \ {t} : game'[u] = game[u]
  <2> DEFINE r == [game[t] EXCEPT !.phase = phase, !.at = c]
  <2>1. r.phase = phase /\ r.session = game[t].session
    BY <1>1 DEF Games
  <2>2. game' = [game EXCEPT ![t] = r]
    BY DEF Goes
  <2> HIDE DEF r
  <2> QED
    BY <1>1, <2>1, <2>2
<1> QED
  BY <1>2, <1>3, GoesOnKeepsGames DEF Busy, Spawned

\* The thread begins, and marks its session as taken.
LEMMA DetachKeepsGames ==
  ASSUME GInv, NEW t \in Thread, Detach(t)
  PROVE  GParts'
<1> DEFINE s == game[t].session
<1>1. TypeOK /\ OneGame /\ game[t] \in Games /\ Spawned(t) /\ Busy(t)
  BY DEF GInv, GParts, IInv, TypeOK, Detach, Runs, Busy, Spawned
<1>2. s \in Live /\ s \in Session
  BY <1>1, LiveAre DEF OneGame, Busy
<1>3. /\ UNCHANGED <<at, index, todo, gameSessions, owner, players>>
      /\ detached' = [detached EXCEPT ![s] = TRUE]
  BY DEF Detach, SetDetached, mainVars
<1>4. /\ game'[t].phase = "playing" /\ game'[t].session = s
      /\ \A u \in Thread \ {t} : game'[u] = game[u]
  <2> DEFINE r == [game[t] EXCEPT !.phase = "playing"]
  <2>1. r.phase = "playing" /\ r.session = s
    BY <1>1 DEF Games
  <2>2. game' = [game EXCEPT ![t] = r]
    BY DEF Detach
  <2> HIDE DEF r
  <2> QED
    BY <1>1, <2>1, <2>2 DEF TypeOK
<1>5. \A r \in Session : detached'[r] = IF r = s THEN TRUE ELSE detached[r]
  BY <1>1, <1>2, <1>3 DEF TypeOK
<1>6. Current' = Current /\ Live' = Live /\ Players(Current)' = Players(Current)
  BY <1>3 DEF Current, Live, Players
<1>7. OneGame'
  <2>1. ASSUME NEW u \in Thread, game'[u].phase # "free"
        PROVE  /\ game'[u].session \in Live'
               /\ detached'[game'[u].session] <=> game'[u].phase # "spawned"
    <3>1. CASE u = t
      BY <1>2, <1>4, <1>5, <1>6, <3>1
    <3>2. CASE u # t
      <4>1. game[u].session # s /\ game[u].session \in Live
        BY <1>1, <1>4, <2>1, <3>2 DEF OneGame, Busy
      <4>2. game[u].session \in Session
        BY <1>1, <4>1, LiveAre
      <4>3. detached'[game[u].session] = detached[game[u].session]
        BY <1>5, <4>1, <4>2
      <4>4. game'[u] = game[u]
        BY <1>4, <3>2
      <4>5. detached[game[u].session] <=> game[u].phase # "spawned"
        BY <1>1, <2>1, <4>4 DEF OneGame
      <4> QED
        BY <1>6, <4>1, <4>3, <4>4, <4>5
    <3> QED
      BY <3>1, <3>2
  <2>2. ASSUME NEW u \in Thread, NEW v \in Thread,
               game'[u].phase # "free", game'[v].phase # "free",
               game'[v].session = game'[u].session
        PROVE  u = v
    <3>1. game[u].phase # "free" /\ game[v].phase # "free"
          /\ game[v].session = game[u].session
      BY <1>1, <1>4, <2>2 DEF Busy
    <3> QED
      BY <1>1, <3>1 DEF OneGame
  <2> QED
    BY <2>1, <2>2 DEF OneGame
<1>8. DetachedRuns'
  <2>1. ASSUME NEW r \in Session, detached'[r]
        PROVE  \E u \in Thread : /\ game'[u].phase # "free" /\ game'[u].phase # "spawned"
                                 /\ game'[u].session = r
    <3>1. CASE r = s
      BY <1>4, <3>1
    <3>2. CASE r # s
      <4>1. PICK u \in Thread : /\ game[u].phase # "free" /\ game[u].phase # "spawned"
                                /\ game[u].session = r
        BY <1>5, <2>1, <3>2 DEF GInv, GParts, DetachedRuns, Busy, Spawned
      <4> QED
        BY <1>4, <3>2, <4>1
    <3> QED
      BY <3>1, <3>2
  <2> QED
    BY <2>1 DEF DetachedRuns, Busy, Spawned
<1>9. \A u \in Thread : /\ Spawned(u)' => Spawned(u)
                        /\ Busy(u)' => Busy(u)
                        /\ Busy(u)' => game'[u].session = game[u].session
  BY <1>1, <1>4 DEF Spawned, Busy
<1>10. Distinct' /\ BegunBetweenPasses'
  BY <1>3, <1>9 DEF GInv, GParts, Distinct, BegunBetweenPasses
<1>11. BehindThePass'
  <2>1. \A u \in Thread : Spawned(u)' => Spawned(u) /\ game'[u].session = game[u].session
    BY <1>9 DEF Spawned, Busy
  <2> QED
    BY <1>3, <2>1 DEF GInv, GParts, BehindThePass
<1>12. OwnerWasHeard'
  BY <1>3, <1>6, <1>9 DEF GInv, GParts, OwnerWasHeard
<1> QED
  BY <1>7, <1>8, <1>10, <1>11, <1>12 DEF GParts

\* The game is over, and its session is free.
LEMMA HandBackKeepsGames ==
  ASSUME GInv, NEW t \in Thread, HandBack(t)
  PROVE  GParts'
<1> DEFINE s == game[t].session
<1>1. TypeOK /\ OneGame /\ game[t].phase = "telling" /\ Busy(t)
  BY DEF GInv, GParts, IInv, HandBack, Runs, Busy
<1>2. s \in Live /\ s \in Session
  BY <1>1, LiveAre DEF OneGame
<1>3. /\ UNCHANGED <<at, index, todo, gameSessions, owner, players>>
      /\ detached' = [detached EXCEPT ![s] = FALSE]
  BY DEF HandBack, SetDetached, mainVars
<1>4. /\ game'[t].phase = "free"
      /\ \A u \in Thread \ {t} : game'[u] = game[u]
  BY <1>1 DEF HandBack, TypeOK, Free
<1>5. \A r \in Session : detached'[r] = IF r = s THEN FALSE ELSE detached[r]
  BY <1>1, <1>2, <1>3 DEF TypeOK
<1>6. Current' = Current /\ Live' = Live /\ Players(Current)' = Players(Current)
  BY <1>3 DEF Current, Live, Players
<1>7. ASSUME NEW u \in Thread, game'[u].phase # "free"
      PROVE  /\ u # t /\ game'[u] = game[u] /\ game[u].phase # "free"
             /\ game[u].session # s /\ game[u].session \in Session
  <2>1. u # t /\ game'[u] = game[u]
    BY <1>4, <1>7
  <2>2. game[u].session # s /\ game[u].session \in Live
    BY <1>1, <1>7, <2>1 DEF OneGame
  <2> QED
    BY <1>1, <1>7, <2>1, <2>2, LiveAre
<1>8. OneGame'
  <2>1. ASSUME NEW u \in Thread, game'[u].phase # "free"
        PROVE  /\ game'[u].session \in Live'
               /\ detached'[game'[u].session] <=> game'[u].phase # "spawned"
    <3>1. /\ game[u].session \in Live
          /\ detached[game[u].session] <=> game[u].phase # "spawned"
      BY <1>1, <1>7, <2>1 DEF OneGame
    <3>2. detached'[game[u].session] = detached[game[u].session]
      BY <1>5, <1>7, <2>1
    <3>3. game'[u] = game[u]
      BY <1>7, <2>1
    <3> QED
      BY <1>6, <3>1, <3>2, <3>3
  <2>2. ASSUME NEW u \in Thread, NEW v \in Thread,
               game'[u].phase # "free", game'[v].phase # "free",
               game'[v].session = game'[u].session
        PROVE  u = v
    <3>1. game[u].phase # "free" /\ game[v].phase # "free"
          /\ game[v].session = game[u].session
      BY <1>7, <2>2
    <3> QED
      BY <1>1, <3>1 DEF OneGame
  <2> QED
    BY <2>1, <2>2 DEF OneGame
<1>9. DetachedRuns'
  <2>1. ASSUME NEW r \in Session, detached'[r]
        PROVE  \E u \in Thread : /\ game'[u].phase # "free" /\ game'[u].phase # "spawned"
                                 /\ game'[u].session = r
    <3>1. r # s /\ detached[r]
      BY <1>5, <2>1
    <3>2. PICK u \in Thread : /\ game[u].phase # "free" /\ game[u].phase # "spawned"
                              /\ game[u].session = r
      BY <3>1 DEF GInv, GParts, DetachedRuns, Busy, Spawned
    <3> QED
      BY <1>4, <3>1, <3>2
  <2> QED
    BY <2>1 DEF DetachedRuns, Busy, Spawned
<1>10. \A u \in Thread : /\ Spawned(u)' => Spawned(u) /\ game'[u] = game[u]
                         /\ Busy(u)' => Busy(u) /\ game'[u] = game[u]
  BY <1>4 DEF Spawned, Busy
<1>11. Distinct' /\ BegunBetweenPasses' /\ BehindThePass'
  BY <1>3, <1>10 DEF GInv, GParts, Distinct, BegunBetweenPasses, BehindThePass
<1>12. OwnerWasHeard'
  BY <1>3, <1>6, <1>10 DEF GInv, GParts, OwnerWasHeard
<1> QED
  BY <1>8, <1>9, <1>11, <1>12 DEF GParts

LEMMA GameThreadKeepsGames ==
  ASSUME GInv, NEW t \in Thread, Play(t) \/ GameThread(t)
  PROVE  GParts'
<1>1. TypeOK /\ game \in [Thread -> Games] /\ game[t] \in Games
  BY DEF GInv, IInv, TypeOK
<1>2. ASSUME NEW c \in Conn \cup {NoConn},
             game[t].phase \in {"playing", "asking", "telling"},
             \E phase \in {"playing", "asking", "telling"} : Goes(t, phase, c)
      PROVE  GParts'
  BY <1>2, GoesGoesOn DEF Busy, Spawned
<1>3. CASE Play(t)
  <2>1. game[t].phase = "playing" /\ \E c \in Conn : Goes(t, "asking", c)
    BY <1>3 DEF Play, Ask, Runs
  <2> QED
    BY <1>2, <2>1
<1>4. CASE TimeUp(t) \/ LoseContact(t) \/ EndGame(t)
  <2>1. /\ game[t].phase \in {"playing", "asking"}
        /\ \E phase \in {"playing", "asking", "telling"} : Goes(t, phase, NoConn)
    BY <1>4 DEF TimeUp, LoseContact, EndGame, Runs
  <2> QED
    BY <1>2, <2>1
<1>5. CASE \E c \in Conn : PickToTell(t, c)
  <2>1. game[t].phase = "telling" /\ \E c \in Conn : Goes(t, "telling", c)
    BY <1>5 DEF PickToTell, Runs
  <2> QED
    BY <1>2, <2>1
<1>6. CASE TakeAnswer(t)
  <2>1. /\ UNCHANGED <<at, index, todo, gameSessions, owner, players, detached>>
        /\ game[t].phase = "asking"
    BY <1>6 DEF TakeAnswer, Runs, sessionVars, mainVars
  <2>2. /\ game'[t].phase \in {"asking", "playing"}
        /\ game'[t].session = game[t].session
        /\ \A u \in Thread \ {t} : game'[u] = game[u]
    <3> DEFINE r == [game[t] EXCEPT !.phase = "playing", !.at = NoConn]
    <3>1. r.phase = "playing" /\ r.session = game[t].session
      BY <1>1 DEF Games
    <3>2. UNCHANGED game \/ game' = [game EXCEPT ![t] = r]
      BY <1>6 DEF TakeAnswer
    <3> HIDE DEF r
    <3> QED
      BY <1>1, <2>1, <3>1, <3>2
  <2> QED
    BY <2>1, <2>2, GoesOnKeepsGames DEF Busy, Spawned
<1>7. CASE Tell(t)
  <2>1. /\ UNCHANGED <<at, index, todo, gameSessions, owner, players, detached>>
        /\ game[t].phase = "telling"
    BY <1>7 DEF Tell, Runs, lobbyVars, sessionVars, mainVars
  <2>2. /\ game'[t].phase = "telling"
        /\ game'[t].session = game[t].session
        /\ \A u \in Thread \ {t} : game'[u] = game[u]
    <3> DEFINE r == [game[t] EXCEPT !.at = NoConn, !.told = @ \cup {game[t].at}]
    <3>1. r.phase = "telling" /\ r.session = game[t].session
      BY <1>1, <2>1 DEF Games
    <3>2. game' = [game EXCEPT ![t] = r]
      BY <1>7 DEF Tell
    <3> HIDE DEF r
    <3> QED
      BY <1>1, <3>1, <3>2
  <2> QED
    BY <2>1, <2>2, GoesOnKeepsGames DEF Busy, Spawned
<1>8. CASE TellNobody(t)
  <2>1. at' = "crashed" /\ UNCHANGED <<gameSessions, detached, game>>
    BY <1>8 DEF TellNobody, lobbyVars, sessionVars
  <2> QED
    BY <2>1 DEF GInv, GParts, Distinct, OneGame, DetachedRuns, BegunBetweenPasses,
                BehindThePass, OwnerWasHeard, Live, Busy, Spawned
<1> QED
  BY <1>3, <1>4, <1>5, <1>6, <1>7, <1>8, DetachKeepsGames, HandBackKeepsGames
     DEF GameThread

-----------------------------------------------------------------------------
LEMMA MainLoopKeepsGames == ASSUME GInv, ~SlowStart, MainLoop PROVE GParts'
<1>1. ASSUME NEW c \in Conn, NEW text \in Texts, HandleText(c, text) PROVE GParts'
  BY <1>1, OthersTalk, HandleStartKeepsGames DEF HandleText
<1>2. ASSUME NEW c \in Conn, HearNothing(c) PROVE GParts'
  BY <1>2, OthersTalk
<1> QED
  BY <1>1, <1>2, StopWaitingKeepsGames, HeadOfLoopKeepsGames, BroadcastKeepsGames,
     DissolveKeepsGames DEF MainLoop

LEMMA StutterKeepsGames == ASSUME GParts, UNCHANGED vars PROVE GParts'
BY DEF GParts, Distinct, OneGame, DetachedRuns, BegunBetweenPasses, BehindThePass,
       OwnerWasHeard, Live, Current, Players, Busy, Spawned,
       vars, lobbyVars, sessionVars, mainVars

\* If a thread that is started always begins before the main thread has slept,
\* a session never has two games, is detached exactly while the thread of its
\* game is at work, and is never erased under it (GameSession::start, and the
\* uses of "detached" in the main loop and in onDisconnect).
THEOREM OneGameAtATime == ~SlowStart => (Spec => []OneGame)
<1> SUFFICES ASSUME ~SlowStart PROVE Spec => []OneGame
  OBVIOUS
<1>1. Init => GInv
  BY InitHolds, GParts0 DEF GInv
<1>2. GInv /\ [Next]_vars => GInv'
  <2> SUFFICES ASSUME GInv, [Next]_vars PROVE GInv'
    OBVIOUS
  <2>1. IInv'
    BY StepKeeps DEF GInv
  <2>2. CASE UNCHANGED vars
    BY <2>1, <2>2, StutterKeepsGames DEF GInv
  <2>3. CASE Next
    BY <2>1, <2>2, <2>3, UpdateKeepsGames, MainLoopKeepsGames, GameThreadKeepsGames
       DEF GInv, Next, Crashed
  <2> QED
    BY <2>2, <2>3
<1>3. GInv => OneGame
  BY DEF GInv, GParts
<1> QED
  BY <1>1, <1>2, <1>3, PTL DEF Spec
=============================================================================
