------------------------------ MODULE LobbyProofs ------------------------------
(***************************************************************************)
(* Proofs about Lobby, for every set of connections, codes and sessions,   *)
(* any number of game threads, and games of any kind.                      *)
(*                                                                         *)
(* The records of who is where change on the main thread only, but at many *)
(* places, and agree at each of them because of where that thread is: it   *)
(* waits in onDisconnect with a connection that is in no session any more, *)
(* or it is in a session all of whose players it has still to hear are     *)
(* there, and which alone may be without players.                          *)
(***************************************************************************)
EXTENDS Lobby, FiniteSetTheorems, TLAPS

\* onDisconnect waits with a connection that it has taken out of its session.
Waits ==
    /\ at = "waiting" => leaving # NoConn
    /\ leaving # NoConn => at \in {"waiting", "crashed"} /\ sessionMap[leaving] = NoSession

\* Those the pass has still to hear are players of the session it is at.
Hears ==
    at = "session" =>
        /\ index \in DOMAIN gameSessions
        /\ \A c \in todo : players[Current][c] # NoName

\* Only the session of the pass, or the one onDisconnect waits for, is without
\* players.
Inhabited ==
    at \in {"update", "scan", "session"} =>
        \A s \in Live :
            \/ \E c \in Conn : players[s][c] # NoName
            \/ at = "session" /\ s = Current

\* What is in the buffer is from this session, or from one that is gone.
OwnBuffer ==
    at # "crashed" =>
        \A s \in buffer : s = NoSession \/ (at = "session" /\ s = Current)

IInv == TypeOK /\ MembersAgree /\ Waits /\ Hears /\ Inhabited /\ OwnBuffer

-----------------------------------------------------------------------------
(* Types *)

LEMMA EmptyIsSeq == ASSUME NEW T PROVE <<>> \in Seq(T)
  OBVIOUS

\* The initial values have their types.
LEMMA InitTyped == Init => TypeOK
<1> SUFFICES ASSUME Init PROVE TypeOK
  OBVIOUS
<1>1. <<>> \in Seq(Texts) /\ <<>> \in Seq(Session)
  BY EmptyIsSeq
<1>2. inbox \in [Conn -> Seq(Texts)]
  BY <1>1 DEF Init
<1>3. Free \in Games
  BY DEF Free, Games
<1>4. game \in [Thread -> Games]
  BY <1>3 DEF Init
<1>5. players \in [Session -> [Conn -> Name \cup {NoName}]]
  BY DEF Init, NoPlayers
<1> QED
  BY <1>1, <1>2, <1>4, <1>5 DEF Init, TypeOK, Places

\* Nobody is in a session in the beginning.
LEMMA InitHolds == Init => IInv
<1> SUFFICES ASSUME Init PROVE IInv
  OBVIOUS
<1>1. TypeOK
  BY InitTyped
<1>2. Live = {}
  BY DEF Init, Live
<1>3. MembersAgree
  BY <1>2, NobodyAssumption DEF Init, MembersAgree, NoPlayers
<1>4. Waits /\ Hears /\ OwnBuffer
  BY DEF Init, Waits, Hears, OwnBuffer
<1>5. Inhabited
  BY <1>2 DEF Inhabited
<1> QED
  BY <1>1, <1>3, <1>4, <1>5 DEF IInv

-----------------------------------------------------------------------------
(* Sequences of sessions *)

\* The sessions are the elements of the vector.
LEMMA LiveAre ==
  ASSUME TypeOK
  PROVE  /\ Live \subseteq Session
         /\ \A i \in DOMAIN gameSessions : gameSessions[i] \in Live
         /\ DOMAIN gameSessions = 1..Len(gameSessions)
         /\ Len(gameSessions) \in Nat
<1>1. gameSessions \in Seq(Session)
  BY DEF TypeOK
<1>2. /\ DOMAIN gameSessions = 1..Len(gameSessions)
      /\ Len(gameSessions) \in Nat
      /\ \A i \in 1..Len(gameSessions) : gameSessions[i] \in Session
  BY ONLY <1>1
<1> QED
  BY <1>2 DEF Live

\* A strictly increasing function from the first n numbers to a set of n has all
\* of them in its range.
LEMMA IncreasingIsOnto ==
  ASSUME NEW n \in Nat, NEW S, S \subseteq 1..n,
         NEW f \in [1..Cardinality(S) -> S],
         \A i, j \in 1..Cardinality(S) : i < j => f[i] < f[j]
  PROVE  /\ Cardinality(S) \in Nat
         /\ \A x \in S : \E i \in 1..Cardinality(S) : f[i] = x
<1>1. IsFiniteSet(1..n)
  BY FS_Interval
<1>2. IsFiniteSet(S)
  BY <1>1, FS_Subset
<1> DEFINE k == Cardinality(S)
<1>3. k \in Nat
  BY <1>2, FS_CardinalityType
<1>4. IsFiniteSet(1..k) /\ Cardinality(1..k) = k
  BY <1>3, FS_Interval
<1>5. \A i, j \in 1..k : f[i] = f[j] => i = j
  <2> SUFFICES ASSUME NEW i \in 1..k, NEW j \in 1..k, f[i] = f[j] PROVE i = j
    OBVIOUS
  <2>1. f[i] \in 1..n /\ f[j] \in 1..n
    OBVIOUS
  <2>2. ~(i < j) /\ ~(j < i)
    BY <2>1
  <2>3. i \in Int /\ j \in Int
    BY <1>3
  <2> QED
    BY <2>2, <2>3
<1>6. f \in Injection(1..k, S)
  BY <1>5 DEF Injection, IsInjective
<1>7. f \in Surjection(1..k, S)
  BY <1>2, <1>4, <1>6, FS_Injection
<1> QED
  BY <1>3, <1>7 DEF Surjection

\* Those that stay are the sessions with players, and keep their memory.
LEMMA DropLeaves ==
  ASSUME TypeOK, DropEmptySessions
  PROVE  /\ gameSessions' \in Seq(Session)
         /\ Live' = {s \in Live : Players(s) # {}}
<1> DEFINE gone == {s \in Live : Players(s) = {}}
           stay == {i \in DOMAIN gameSessions : gameSessions[i] \notin gone}
           k == Cardinality(stay)
<1>1. PICK f \in [1..k -> stay] :
        /\ \A i, j \in DOMAIN f : i < j => f[i] < f[j]
        /\ gameSessions' = [i \in DOMAIN f |-> gameSessions[f[i]]]
  BY DEF DropEmptySessions
<1>2. stay \subseteq 1..Len(gameSessions) /\ Len(gameSessions) \in Nat
  BY LiveAre
<1>3. DOMAIN f = 1..k
  OBVIOUS
<1>4. /\ k \in Nat
      /\ \A x \in stay : \E i \in 1..k : f[i] = x
  <2> HIDE DEF stay
  <2>1. \A i, j \in 1..Cardinality(stay) : i < j => f[i] < f[j]
    BY <1>1, <1>3
  <2> QED
    BY <1>2, <2>1, IncreasingIsOnto
<1> HIDE DEF k
<1>5. \A i \in 1..k : gameSessions[f[i]] \in Session /\ gameSessions[f[i]] \in Live \ gone
  BY LiveAre
<1>6. gameSessions' = [i \in 1..k |-> gameSessions[f[i]]]
  BY <1>1, <1>3
<1>7. gameSessions' \in Seq(Session) /\ Len(gameSessions') = k
  <2> DEFINE g == [i \in 1..k |-> gameSessions[f[i]]]
  <2>1. \A i \in 1..k : gameSessions[f[i]] \in Session
    BY <1>5
  <2> HIDE DEF stay, gone
  <2>2. g \in Seq(Session) /\ Len(g) = k
    BY <1>4, <2>1
  <2> QED
    BY <1>6, <2>2
<1>8. Live' = Live \ gone
  <2>1. Live' = {gameSessions'[i] : i \in 1..k}
    BY <1>7 DEF Live
  <2>2. Live' = {gameSessions[f[i]] : i \in 1..k}
    BY <1>6, <2>1
  <2>3. ASSUME NEW s \in Live \ gone PROVE s \in Live'
    <3>1. PICK x \in DOMAIN gameSessions : s = gameSessions[x]
      BY LiveAre DEF Live
    <3>2. PICK i \in 1..k : f[i] = x
      BY <1>4, <3>1
    <3> QED
      BY <2>2, <3>1, <3>2
  <2> QED
    BY <1>5, <2>2, <2>3
<1> QED
  BY <1>7, <1>8

-----------------------------------------------------------------------------
(* Parts of the actions *)

\* The types of what may be typed after a command.
LEMMA Arguments ==
  ASSUME NEW text \in Texts
  PROVE  /\ text.command = "/username " => text.argument \in UserName
         /\ text.command = "/start " => text.argument \in Game \cup {NoGame}
<1>1. \/ \E x \in {"chat", "/quit", "/shutdown", "/other"} : text = Say(x, NoName)
      \/ \E n \in UserName : text = Say("/username ", n)
      \/ \E g \in Game \cup {NoGame} : text = Say("/start ", g)
  BY DEF Texts
<1>2. CASE \E x \in {"chat", "/quit", "/shutdown", "/other"} : text = Say(x, NoName)
  <2>1. text.command \in {"chat", "/quit", "/shutdown", "/other"}
    BY <1>2 DEF Say
  <2> QED
    BY <2>1
<1>3. CASE \E n \in UserName : text = Say("/username ", n)
  <2>1. PICK n \in UserName : text = Say("/username ", n)
    BY <1>3
  <2>2. text.command = "/username "
    BY <2>1 DEF Say
  <2>3. text.argument \in UserName
    BY <2>1 DEF Say
  <2> QED
    BY <2>2, <2>3
<1>4. CASE \E g \in Game \cup {NoGame} : text = Say("/start ", g)
  <2>1. PICK g \in Game \cup {NoGame} : text = Say("/start ", g)
    BY <1>4
  <2>2. text.command = "/start "
    BY <2>1 DEF Say
  <2>3. text.argument \in Game \cup {NoGame}
    BY <2>1 DEF Say
  <2> QED
    BY <2>2, <2>3
<1> QED
  BY <1>1, <1>2, <1>3, <1>4

\* No name is the lack of one.
LEMMA NamesAreNames ==
  /\ NoName \notin Name
  /\ OwnerName \in Name /\ Animal \subseteq Name
  /\ \A n \in UserName : n # EmptyName => n \in Name
BY NobodyAssumption DEF Name

\* What was heard is a text, and so are those that wait after it.
LEMMA HeardIsText ==
  ASSUME TypeOK, NEW c \in Conn, NEW text, Hear(c, text)
  PROVE  text \in Texts /\ Tail(inbox[c]) \in Seq(Texts)
<1>1. inbox[c] \in Seq(Texts)
  BY DEF TypeOK
<1>2. inbox[c] # <<>> /\ text = Head(inbox[c])
  BY DEF Hear
<1> HIDE DEF Texts
<1> QED
  BY ONLY <1>1, <1>2

\* In the loop over the players the main thread is at a session that is there.
LEMMA AtASession ==
  ASSUME TypeOK, Hears, at = "session"
  PROVE  Current \in Live /\ Current \in Session
BY LiveAre DEF Hears, Current

\* Those who leave have no name, and are in no session.
LEMMA LeaveTyped ==
  ASSUME TypeOK, NEW s \in Session, NEW cs \in SUBSET Conn, Leave(s, cs)
  PROVE  /\ players' \in [Session -> [Conn -> Name \cup {NoName}]]
         /\ sessionMap' \in [Conn -> Session \cup {NoSession}]
         /\ asked' \in [Conn -> Code \cup {NoCode}]
         /\ \A r \in Session, c \in Conn :
                players'[r][c] = IF r = s /\ c \in cs THEN NoName ELSE players[r][c]
<1>1. players[s] \in [Conn -> Name \cup {NoName}]
  BY DEF TypeOK
<1>2. [c \in Conn |-> IF c \in cs THEN NoName ELSE players[s][c]]
        \in [Conn -> Name \cup {NoName}]
  BY <1>1
<1>3. players' \in [Session -> [Conn -> Name \cup {NoName}]]
  BY <1>2 DEF TypeOK, Leave
<1>4. sessionMap' \in [Conn -> Session \cup {NoSession}]
  BY DEF TypeOK, Leave
<1>5. asked' \in [Conn -> Code \cup {NoCode}]
  BY DEF TypeOK, Leave
<1> QED
  BY <1>3, <1>4, <1>5 DEF TypeOK, Leave

LEMMA CloseTyped ==
  ASSUME TypeOK, NEW cs \in SUBSET Conn, Close(cs)
  PROVE  channels' \subseteq Conn /\ inbox' \in [Conn -> Seq(Texts)]
<1>1. <<>> \in Seq(Texts)
  BY EmptyIsSeq
<1> QED
  BY <1>1 DEF TypeOK, Close

\* The records still agree when the players cs leave session s and the channels
\* of all of them, or of all but the one onDisconnect waits for, are erased.
LEMMA LeaveAgrees ==
  ASSUME TypeOK, MembersAgree, NEW s \in Session, NEW cs \in SUBSET Conn,
         Leave(s, cs), \A c \in cs : sessionMap[c] = s, Live' = Live
  PROVE  /\ \A c \in Conn, r \in Session :
                players'[r][c] # NoName <=> sessionMap'[c] = r
         /\ \A c \in Conn : sessionMap'[c] \in Live' \cup {NoSession}
         /\ \A c \in Conn : sessionMap'[c] # NoSession
                                <=> sessionMap[c] # NoSession /\ c \notin cs
<1>1. /\ \A r \in Session, c \in Conn :
                players'[r][c] = IF r = s /\ c \in cs THEN NoName ELSE players[r][c]
  BY LeaveTyped
<1>2. \A c \in Conn : sessionMap'[c] = IF c \in cs THEN NoSession ELSE sessionMap[c]
  BY DEF Leave
<1> QED
  BY <1>1, <1>2, NobodyAssumption DEF MembersAgree

-----------------------------------------------------------------------------
(* Connections come, send and go *)

LEMMA CreateSessionKeeps ==
  ASSUME IInv, NEW c \in Conn, NEW k \in Code, CreateSession(c, k)
  PROVE  IInv'
<1>1. PICK s \in Session \ Live :
        /\ gameSessions' = Append(gameSessions, s)
        /\ owner' = [owner EXCEPT ![s] = c]
        /\ code' = [code EXCEPT ![s] = k]
        /\ players' = [players EXCEPT ![s][c] = OwnerName]
        /\ sessionMap' = [sessionMap EXCEPT ![c] = s]
  BY DEF CreateSession
<1>2. TypeOK /\ MembersAgree /\ at = "update" /\ c \notin channels
  BY DEF IInv, CreateSession, Register
<1>3. sessionMap[c] = NoSession /\ leaving = NoConn
  BY <1>2 DEF IInv, MembersAgree, Waits
<1>4. gameSessions' \in Seq(Session) /\ Live' = Live \cup {s}
  <2>1. gameSessions \in Seq(Session) /\ s \in Session
    BY <1>2 DEF TypeOK
  <2>2. /\ Append(gameSessions, s) \in Seq(Session)
        /\ Len(Append(gameSessions, s)) = Len(gameSessions) + 1
        /\ \A i \in 1..Len(gameSessions) : Append(gameSessions, s)[i] = gameSessions[i]
        /\ Append(gameSessions, s)[Len(gameSessions) + 1] = s
        /\ Len(gameSessions) \in Nat
    BY ONLY <2>1
  <2> QED
    BY <1>1, <2>2 DEF Live
<1>5. players[s] \in [Conn -> Name \cup {NoName}]
  BY <1>2 DEF TypeOK
<1>6. \A d \in Conn : players[s][d] = NoName
  BY <1>2, NobodyAssumption DEF MembersAgree
<1>7. /\ players' \in [Session -> [Conn -> Name \cup {NoName}]]
      /\ \A r \in Session, d \in Conn :
            players'[r][d] = IF r = s /\ d = c THEN OwnerName ELSE players[r][d]
  BY <1>1, <1>2, <1>5, NamesAreNames DEF TypeOK
<1>8. /\ sessionMap' \in [Conn -> Session \cup {NoSession}]
      /\ \A d \in Conn : sessionMap'[d] = IF d = c THEN s ELSE sessionMap[d]
  BY <1>1, <1>2 DEF TypeOK
<1>9. /\ channels' = channels \cup {c}
      /\ inbox' = [inbox EXCEPT ![c] = <<>>]
      /\ asked' = [asked EXCEPT ![c] = k]
      /\ UNCHANGED <<configuration, detached, mainVars, game>>
  BY DEF CreateSession, Register
<1>10. TypeOK'
  <2>1. inbox' \in [Conn -> Seq(Texts)]
    BY <1>2, <1>9, EmptyIsSeq DEF TypeOK
  <2> QED
    BY <1>1, <1>2, <1>4, <1>7, <1>8, <1>9, <2>1 DEF TypeOK, mainVars
<1>11. MembersAgree'
  <2>1. leaving' = leaving
    BY <1>9 DEF mainVars
  <2>2. channels' = {d \in Conn : sessionMap'[d] # NoSession \/ d = leaving'}
    BY <1>2, <1>3, <1>8, <1>9, <2>1, NobodyAssumption DEF MembersAgree
  <2>3. \A d \in Conn, r \in Session : players'[r][d] # NoName <=> sessionMap'[d] = r
    BY <1>2, <1>3, <1>6, <1>7, <1>8, NamesAreNames, NobodyAssumption DEF MembersAgree
  <2>4. \A d \in Conn : sessionMap'[d] \in Live' \cup {NoSession}
    BY <1>2, <1>4, <1>8 DEF MembersAgree
  <2> QED
    BY <2>2, <2>3, <2>4 DEF MembersAgree
<1>12. Inhabited'
  <2>1. \A r \in Live : \E d \in Conn : players[r][d] # NoName
    BY <1>2 DEF IInv, Inhabited
  <2>2. Live \subseteq Session
    BY <1>2, LiveAre
  <2>3. \A r \in Live' : \E d \in Conn : players'[r][d] # NoName
    BY <1>4, <1>7, <2>1, <2>2, NamesAreNames
  <2> QED
    BY <2>3 DEF Inhabited
<1>13. Waits' /\ Hears' /\ OwnBuffer'
  BY <1>2, <1>3, <1>9 DEF IInv, Waits, Hears, OwnBuffer, mainVars
<1> QED
  BY <1>10, <1>11, <1>12, <1>13 DEF IInv

LEMMA JoinSessionKeeps ==
  ASSUME IInv, NEW c \in Conn, NEW k \in Code, NEW n \in Animal, JoinSession(c, k, n)
  PROVE  IInv'
<1>1. PICK s \in Live :
        /\ players' = [players EXCEPT ![s][c] = n]
        /\ sessionMap' = [sessionMap EXCEPT ![c] = s]
  BY LiveAre DEF IInv, JoinSession, Found
<1>2. TypeOK /\ MembersAgree /\ at = "update" /\ c \notin channels
  BY DEF IInv, JoinSession, Register
<1>3. sessionMap[c] = NoSession /\ leaving = NoConn
  BY <1>2 DEF IInv, MembersAgree, Waits
<1>4. Live \subseteq Session /\ s \in Session
  BY <1>2, LiveAre
<1>5. players[s] \in [Conn -> Name \cup {NoName}]
  BY <1>2, <1>4 DEF TypeOK
<1>6. n \in Name /\ n # NoName
  BY NamesAreNames
<1>7. /\ players' \in [Session -> [Conn -> Name \cup {NoName}]]
      /\ \A r \in Session, d \in Conn :
            players'[r][d] = IF r = s /\ d = c THEN n ELSE players[r][d]
  BY <1>1, <1>2, <1>4, <1>5, <1>6 DEF TypeOK
<1>8. /\ sessionMap' \in [Conn -> Session \cup {NoSession}]
      /\ \A d \in Conn : sessionMap'[d] = IF d = c THEN s ELSE sessionMap[d]
  BY <1>1, <1>2, <1>4 DEF TypeOK
<1>9. /\ channels' = channels \cup {c}
      /\ inbox' = [inbox EXCEPT ![c] = <<>>]
      /\ asked' = [asked EXCEPT ![c] = k]
      /\ UNCHANGED <<gameSessions, owner, code, configuration, detached, mainVars, game>>
  BY DEF JoinSession, Register
<1>10. TypeOK'
  <2>1. inbox' \in [Conn -> Seq(Texts)]
    BY <1>2, <1>9, EmptyIsSeq DEF TypeOK
  <2> QED
    BY <1>2, <1>7, <1>8, <1>9, <2>1 DEF TypeOK, mainVars
<1>11. MembersAgree'
  <2>1. leaving' = leaving /\ Live' = Live
    BY <1>9 DEF mainVars, Live
  <2>2. channels' = {d \in Conn : sessionMap'[d] # NoSession \/ d = leaving'}
    BY <1>2, <1>3, <1>4, <1>8, <1>9, <2>1, NobodyAssumption DEF MembersAgree
  <2>3. \A d \in Conn, r \in Session : players'[r][d] # NoName <=> sessionMap'[d] = r
    BY <1>2, <1>3, <1>4, <1>6, <1>7, <1>8, NobodyAssumption DEF MembersAgree
  <2>4. \A d \in Conn : sessionMap'[d] \in Live' \cup {NoSession}
    BY <1>2, <1>8, <2>1 DEF MembersAgree
  <2> QED
    BY <2>2, <2>3, <2>4 DEF MembersAgree
<1>12. Inhabited'
  <2>1. \A r \in Live : \E d \in Conn : players[r][d] # NoName
    BY <1>2 DEF IInv, Inhabited
  <2>2. Live' = Live
    BY <1>9 DEF Live
  <2>3. \A r \in Live' : \E d \in Conn : players'[r][d] # NoName
    BY <1>4, <1>6, <1>7, <2>1, <2>2
  <2> QED
    BY <2>3 DEF Inhabited
<1>13. Waits' /\ Hears' /\ OwnBuffer'
  BY <1>2, <1>3, <1>9 DEF IInv, Waits, Hears, OwnBuffer, mainVars
<1> QED
  BY <1>10, <1>11, <1>12, <1>13 DEF IInv

\* A step that leaves the sessions, who is in them and the main thread alone.
LEMMA OthersKeep ==
  ASSUME IInv, TypeOK',
         UNCHANGED <<channels, gameSessions, sessionMap, players, mainVars>>
  PROVE  IInv'
<1>1. Live' = Live /\ Current' = Current
  BY DEF Live, Current, mainVars
<1> QED
  BY <1>1 DEF IInv, MembersAgree, Waits, Hears, Inhabited, OwnBuffer, mainVars

LEMMA ArriveKeeps ==
  ASSUME IInv, NEW c \in Conn, NEW text \in Texts, Arrive(c, text)
  PROVE  IInv'
<1>1. inbox[c] \in Seq(Texts)
  BY DEF IInv, TypeOK
<1>2. Append(inbox[c], text) \in Seq(Texts)
  <2> HIDE DEF Texts
  <2>1. text \in Texts
    OBVIOUS
  <2> QED
    BY ONLY <1>1, <2>1
<1>3. inbox' \in [Conn -> Seq(Texts)]
  BY <1>2 DEF Arrive, IInv, TypeOK
<1>4. TypeOK'
  BY <1>3 DEF Arrive, IInv, TypeOK, sessionVars, mainVars
<1> QED
  BY <1>4, OthersKeep DEF Arrive, sessionVars

LEMMA LosePlayerKeeps ==
  ASSUME IInv, NEW c \in Conn, LosePlayer(c)
  PROVE  IInv'
<1> DEFINE s == sessionMap[c]
<1>1. TypeOK /\ MembersAgree /\ at = "update" /\ leaving = NoConn /\ c \in channels
  BY DEF IInv, LosePlayer, Waits
<1>2. s \in Live /\ s \in Session /\ s # NoSession
  BY <1>1, LiveAre, NobodyAssumption DEF MembersAgree
<1>3. /\ Leave(s, {c}) /\ Close({c}) /\ Players(s) # {c}
      /\ UNCHANGED <<gameSessions, owner, code, configuration, detached, mainVars, game>>
      /\ Live' = Live
  BY DEF LosePlayer, Live
<1>4. TypeOK'
  <2>1. /\ players' \in [Session -> [Conn -> Name \cup {NoName}]]
        /\ sessionMap' \in [Conn -> Session \cup {NoSession}]
        /\ asked' \in [Conn -> Code \cup {NoCode}]
        /\ channels' \subseteq Conn /\ inbox' \in [Conn -> Seq(Texts)]
    BY <1>1, <1>2, <1>3, LeaveTyped, CloseTyped
  <2> QED
    BY <1>1, <1>3, <2>1 DEF TypeOK, mainVars
<1>5. MembersAgree'
  <2>1. /\ \A d \in Conn, r \in Session :
                players'[r][d] # NoName <=> sessionMap'[d] = r
        /\ \A d \in Conn : sessionMap'[d] \in Live' \cup {NoSession}
        /\ \A d \in Conn : sessionMap'[d] # NoSession
                                <=> sessionMap[d] # NoSession /\ d \notin {c}
    BY <1>1, <1>2, <1>3, LeaveAgrees
  <2>2. channels' = channels \ {c} /\ leaving' = NoConn
    BY <1>1, <1>3 DEF Close, mainVars
  <2>3. channels' = {d \in Conn : sessionMap'[d] # NoSession \/ d = leaving'}
    BY <1>1, <2>1, <2>2, NobodyAssumption DEF MembersAgree
  <2> QED
    BY <2>1, <2>3 DEF MembersAgree
<1>6. Inhabited'
  <2>1. \A r \in Live : \E d \in Conn : players[r][d] # NoName
    BY <1>1 DEF IInv, Inhabited
  <2>2. players[s][c] # NoName
    BY <1>1, <1>2 DEF MembersAgree
  <2>3. \E d \in Conn : d # c /\ players[s][d] # NoName
    BY <1>3, <2>2 DEF Players
  <2>4. \A r \in Session, d \in Conn :
            players'[r][d] = IF r = s /\ d = c THEN NoName ELSE players[r][d]
    BY <1>1, <1>2, <1>3, LeaveTyped
  <2>5. Live \subseteq Session
    BY <1>1, LiveAre
  <2>6. \A r \in Live' : \E d \in Conn : players'[r][d] # NoName
    BY <1>3, <2>1, <2>3, <2>4, <2>5
  <2> QED
    BY <2>6 DEF Inhabited
<1>7. Waits' /\ Hears' /\ OwnBuffer'
  BY <1>1, <1>3 DEF IInv, Waits, Hears, OwnBuffer, mainVars
<1> QED
  BY <1>4, <1>5, <1>6, <1>7 DEF IInv

LEMMA LoseLastPlayerKeeps ==
  ASSUME IInv, NEW c \in Conn, LoseLastPlayer(c)
  PROVE  IInv'
<1> DEFINE s == sessionMap[c]
<1>1. TypeOK /\ MembersAgree /\ at = "update" /\ leaving = NoConn /\ c \in channels
  BY DEF IInv, LoseLastPlayer, Waits
<1>2. s \in Live /\ s \in Session /\ s # NoSession
  BY <1>1, LiveAre, NobodyAssumption DEF MembersAgree
<1>3. /\ Leave(s, {c}) /\ at' = "waiting" /\ leaving' = c
      /\ UNCHANGED <<channels, inbox, gameSessions, owner, code, configuration,
                     detached, index, stop, todo, buffer, game>>
      /\ Live' = Live
  BY DEF LoseLastPlayer, Live
<1>4. TypeOK'
  <2>1. /\ players' \in [Session -> [Conn -> Name \cup {NoName}]]
        /\ sessionMap' \in [Conn -> Session \cup {NoSession}]
        /\ asked' \in [Conn -> Code \cup {NoCode}]
    BY <1>1, <1>2, <1>3, LeaveTyped
  <2> QED
    BY <1>1, <1>3, <2>1 DEF TypeOK, Places
<1>5. MembersAgree'
  <2>1. /\ \A d \in Conn, r \in Session :
                players'[r][d] # NoName <=> sessionMap'[d] = r
        /\ \A d \in Conn : sessionMap'[d] \in Live' \cup {NoSession}
        /\ \A d \in Conn : sessionMap'[d] # NoSession
                                <=> sessionMap[d] # NoSession /\ d \notin {c}
    BY <1>1, <1>2, <1>3, LeaveAgrees
  <2>2. channels' = {d \in Conn : sessionMap'[d] # NoSession \/ d = leaving'}
    BY <1>1, <1>2, <1>3, <2>1, NobodyAssumption DEF MembersAgree
  <2> QED
    BY <2>1, <2>2 DEF MembersAgree
<1>6. Waits'
  BY <1>3, NobodyAssumption DEF Waits, Leave
<1>7. Hears' /\ OwnBuffer' /\ Inhabited'
  BY <1>1, <1>3 DEF IInv, Hears, OwnBuffer, Inhabited
<1> QED
  BY <1>4, <1>5, <1>6, <1>7 DEF IInv

-----------------------------------------------------------------------------
(* The main loop *)

\* What is left when the sessions without players are erased.
LEMMA DropKeeps ==
  ASSUME TypeOK, MembersAgree, DropEmptySessions, UNCHANGED sessionMap
  PROVE  /\ gameSessions' \in Seq(Session)
         /\ owner' \in [Session -> Conn \cup {NoConn}]
         /\ code' \in [Session -> Code \cup {NoCode}]
         /\ configuration' \in [Session -> Game \cup {NoGame}]
         /\ UNCHANGED <<players, detached, asked>>
         /\ \A s \in Live' : \E c \in Conn : players'[s][c] # NoName
         /\ \A c \in Conn, s \in Session : players'[s][c] # NoName <=> sessionMap'[c] = s
         /\ \A c \in Conn : sessionMap'[c] \in Live' \cup {NoSession}
<1>1. gameSessions' \in Seq(Session) /\ Live' = {s \in Live : Players(s) # {}}
  BY DropLeaves
<1>2. UNCHANGED <<players, detached, asked>>
  BY DEF DropEmptySessions
<1>3. /\ owner' \in [Session -> Conn \cup {NoConn}]
      /\ code' \in [Session -> Code \cup {NoCode}]
      /\ configuration' \in [Session -> Game \cup {NoGame}]
  BY DEF DropEmptySessions, TypeOK
<1>4. \A s \in Live' : \E c \in Conn : players'[s][c] # NoName
  BY <1>1, <1>2 DEF Players
<1>5. Live \subseteq Session
  BY LiveAre
<1>6. \A c \in Conn : sessionMap[c] # NoSession => sessionMap[c] \in Live'
  BY <1>1, <1>5 DEF MembersAgree, Players
<1> QED
  BY <1>1, <1>2, <1>3, <1>4, <1>6 DEF MembersAgree

LEMMA StopWaitingKeeps ==
  ASSUME IInv, StopWaiting
  PROVE  IInv'
<1>1. TypeOK /\ MembersAgree /\ at = "waiting" /\ leaving \in Conn
      /\ sessionMap[leaving] = NoSession
  BY DEF IInv, StopWaiting, Waits, TypeOK
<1>2. /\ DropEmptySessions /\ Close({leaving}) /\ at' = "update" /\ leaving' = NoConn
      /\ UNCHANGED <<sessionMap, index, stop, todo, buffer, game>>
  BY DEF StopWaiting
<1>3. TypeOK'
  BY <1>1, <1>2, DropKeeps, CloseTyped DEF TypeOK, Places
<1>4. MembersAgree'
  <2>1. channels' = {c \in Conn : sessionMap'[c] # NoSession \/ c = leaving'}
    BY <1>1, <1>2, NobodyAssumption DEF MembersAgree, Close
  <2> QED
    BY <1>1, <1>2, <2>1, DropKeeps DEF MembersAgree
<1>5. Inhabited'
  BY <1>1, <1>2, DropKeeps DEF Inhabited
<1>6. Waits' /\ Hears' /\ OwnBuffer'
  BY <1>1, <1>2 DEF IInv, Waits, Hears, OwnBuffer
<1> QED
  BY <1>3, <1>4, <1>5, <1>6 DEF IInv

\* The steps at the head of the loop over the sessions.
LEMMA HeadOfLoopKeeps ==
  ASSUME IInv, BeginPass \/ SkipDetached \/ EnterSession \/ EnterDangling \/ EndPass
  PROVE  IInv'
<1>1. TypeOK /\ at \in {"update", "scan"} /\ at' # "waiting" /\ leaving = NoConn
  BY DEF IInv, BeginPass, SkipDetached, EnterSession, EnterDangling, EndPass, Waits
<1>2. UNCHANGED <<lobbyVars, leaving, buffer, game>>
  BY DEF BeginPass, SkipDetached, EnterSession, EnterDangling, EndPass
<1>3. Live' = Live /\ Len(gameSessions) \in Nat /\ DOMAIN gameSessions = 1..Len(gameSessions)
  BY <1>1, <1>2, LiveAre DEF lobbyVars, Live
<1>4. TypeOK'
  <2>1. at' \in Places /\ index' \in Nat \ {0} /\ stop' \in Nat /\ todo' \subseteq Conn
    BY <1>1, <1>3 DEF TypeOK, Places, BeginPass, SkipDetached, EnterSession,
                      EnterDangling, EndPass, Players
  <2> QED
    BY <1>1, <1>2, <2>1 DEF TypeOK, lobbyVars, sessionVars
<1>5. MembersAgree'
  BY <1>2, <1>3 DEF IInv, MembersAgree, lobbyVars, sessionVars
<1>6. Hears'
  <2> SUFFICES ASSUME at' = "session"
               PROVE  /\ index' \in (DOMAIN gameSessions)'
                      /\ \A c \in todo' : players'[Current'][c] # NoName
    BY DEF Hears
  <2>1. EnterSession
    BY <1>1 DEF BeginPass, SkipDetached, EnterDangling, EndPass
  <2>2. UNCHANGED <<gameSessions, players, index>> /\ Current' = Current
    BY <2>1 DEF EnterSession, lobbyVars, sessionVars, Current
  <2>3. index \in DOMAIN gameSessions
    BY <1>1, <1>3, <2>1 DEF EnterSession, TypeOK
  <2>4. \A c \in todo' : players[Current][c] # NoName
    BY <2>1 DEF EnterSession, Players
  <2> QED
    BY <2>2, <2>3, <2>4
<1>7. Inhabited'
  <2>1. \A s \in Live : \E c \in Conn : players[s][c] # NoName
    BY <1>1 DEF IInv, Inhabited
  <2> QED
    BY <1>2, <1>3, <2>1 DEF Inhabited, lobbyVars, sessionVars
<1>8. Waits' /\ OwnBuffer'
  BY <1>1, <1>2, NobodyAssumption DEF IInv, Waits, OwnBuffer
<1> QED
  BY <1>4, <1>5, <1>6, <1>7, <1>8 DEF IInv

\* In the loop over the players the main thread waits for nobody.
LEMMA HearingIsBusy ==
  ASSUME IInv, at = "session"
  PROVE  /\ TypeOK /\ MembersAgree /\ leaving = NoConn
         /\ Current \in Live /\ Current \in Session /\ Live \subseteq Session
         /\ index \in DOMAIN gameSessions
         /\ \A c \in todo : players[Current][c] # NoName /\ sessionMap[c] = Current
         /\ \A s \in Live \ {Current} : \E c \in Conn : players[s][c] # NoName
         /\ \A s \in buffer : s = NoSession \/ s = Current
<1>1. TypeOK /\ MembersAgree /\ leaving = NoConn
  BY DEF IInv, Waits
<1>2. Current \in Live /\ Current \in Session /\ Live \subseteq Session
  BY AtASession, LiveAre DEF IInv
<1> QED
  BY <1>1, <1>2 DEF IInv, MembersAgree, TypeOK, Hears, Inhabited, OwnBuffer

LEMMA HearNothingKeeps ==
  ASSUME IInv, NEW c \in Conn, HearNothing(c)
  PROVE  IInv'
<1>1. at = "session" /\ todo' = todo \ {c}
      /\ UNCHANGED <<lobbyVars, at, index, stop, leaving, buffer, game>>
  BY DEF HearNothing
<1>2. Live' = Live /\ Current' = Current
  BY <1>1 DEF Live, Current, lobbyVars
<1> QED
  BY <1>1, <1>2 DEF IInv, TypeOK, MembersAgree, Waits, Hears, Inhabited, OwnBuffer,
                    lobbyVars, sessionVars

\* The steps that hear a text and repeat it: nobody goes, and a name that is
\* changed is another name.
LEMMA RepeatKeeps ==
  ASSUME IInv, NEW c \in Conn, NEW text, Hear(c, text), Repeat(c),
         players' \in [Session -> [Conn -> Name \cup {NoName}]],
         \A s \in Session, d \in Conn : players'[s][d] # NoName <=> players[s][d] # NoName,
         configuration' \in [Session -> Game \cup {NoGame}],
         game' \in [Thread -> Games]
  PROVE  IInv'
<1>1. /\ at = "session"
      /\ UNCHANGED <<gameSessions, owner, code, detached, at, index, stop, leaving>>
      /\ todo' = todo \ {c} /\ buffer' = buffer \cup {Current}
      /\ UNCHANGED <<channels, sessionMap, asked>>
      /\ Live' = Live /\ Current' = Current
  BY DEF Hear, Repeat, Live, Current
<1>2. /\ TypeOK /\ MembersAgree /\ leaving = NoConn
      /\ Current \in Live /\ Current \in Session /\ Live \subseteq Session
      /\ index \in DOMAIN gameSessions
      /\ \A d \in todo : players[Current][d] # NoName
      /\ \A s \in Live \ {Current} : \E d \in Conn : players[s][d] # NoName
      /\ \A s \in buffer : s = NoSession \/ s = Current
      /\ todo \subseteq Conn
  BY <1>1, HearingIsBusy DEF TypeOK
<1>3. TypeOK'
  <2>1. inbox' \in [Conn -> Seq(Texts)]
    BY <1>2, HeardIsText DEF Repeat, TypeOK
  <2> QED
    BY <1>1, <1>2, <2>1 DEF TypeOK
<1>4. MembersAgree'
  BY <1>1, <1>2 DEF MembersAgree
<1>5. Hears'
  BY <1>1, <1>2 DEF Hears
<1>6. Inhabited'
  BY <1>1, <1>2 DEF Inhabited
<1>7. Waits' /\ OwnBuffer'
  BY <1>1, <1>2, NobodyAssumption DEF Waits, OwnBuffer
<1> QED
  BY <1>3, <1>4, <1>5, <1>6, <1>7 DEF IInv

LEMMA HandleChatKeeps ==
  ASSUME IInv, NEW c \in Conn, NEW text \in Texts, HandleChat(c, text)
  PROVE  IInv'
<1>1. Hear(c, text) /\ Repeat(c) /\ UNCHANGED <<players, configuration, game>>
  BY DEF HandleChat
<1> QED
  BY <1>1, RepeatKeeps DEF IInv, TypeOK

LEMMA HandleUsernameKeeps ==
  ASSUME IInv, NEW c \in Conn, NEW text \in Texts, HandleUsername(c, text)
  PROVE  IInv'
<1>1. /\ Hear(c, text) /\ Repeat(c) /\ UNCHANGED <<configuration, game>>
      /\ text.command = "/username "
      /\ at = "session" /\ c \in todo
  BY DEF HandleUsername, Hear
<1>2. CASE players' = players
  BY <1>1, <1>2, RepeatKeeps DEF IInv, TypeOK
<1>3. CASE ~Refused(text.argument)
  <2>1. players' = [players EXCEPT ![Current][c] = text.argument]
    BY <1>3 DEF HandleUsername
  <2>2. text.argument \in Name /\ text.argument # NoName
    BY <1>1, <1>3, Arguments, NamesAreNames DEF Refused
  <2>3. Current \in Session /\ players[Current][c] # NoName /\ TypeOK
    BY <1>1, HearingIsBusy
  <2>4. players[Current] \in [Conn -> Name \cup {NoName}]
    BY <2>3 DEF TypeOK
  <2>5. /\ players' \in [Session -> [Conn -> Name \cup {NoName}]]
        /\ \A s \in Session, d \in Conn :
              players'[s][d] = IF s = Current /\ d = c THEN text.argument
                               ELSE players[s][d]
    BY <2>1, <2>2, <2>3, <2>4 DEF TypeOK
  <2>6. \A s \in Session, d \in Conn : players'[s][d] # NoName <=> players[s][d] # NoName
    BY <2>2, <2>3, <2>5
  <2>7. configuration' \in [Session -> Game \cup {NoGame}] /\ game' \in [Thread -> Games]
    BY <1>1, <2>3 DEF TypeOK
  <2> QED
    BY <1>1, <2>5, <2>6, <2>7, RepeatKeeps
<1> QED
  BY <1>2, <1>3 DEF HandleUsername

\* One player goes, or all of them: only the session of the pass may be left
\* without players.
LEMMA GoKeeps ==
  ASSUME IInv, NEW c \in Conn, NEW text, Hear(c, text), NEW cs \in SUBSET Conn,
         \A d \in cs : sessionMap[d] = Current,
         Leave(Current, cs), Close(cs), todo' \in SUBSET (todo \ cs),
         buffer' \in SUBSET (buffer \cup {Current}),
         UNCHANGED <<configuration, game>>
  PROVE  IInv'
<1>1. /\ at = "session"
      /\ UNCHANGED <<gameSessions, owner, code, detached, at, index, stop, leaving>>
      /\ Live' = Live /\ Current' = Current
  BY DEF Hear, Live, Current
<1>2. /\ TypeOK /\ MembersAgree /\ leaving = NoConn
      /\ Current \in Live /\ Current \in Session /\ Live \subseteq Session
      /\ index \in DOMAIN gameSessions
      /\ \A d \in todo : players[Current][d] # NoName
      /\ \A s \in Live \ {Current} : \E d \in Conn : players[s][d] # NoName
      /\ \A s \in buffer : s = NoSession \/ s = Current
      /\ todo \subseteq Conn /\ buffer \subseteq Session \cup {NoSession}
  BY <1>1, HearingIsBusy DEF TypeOK
<1>3. /\ players' \in [Session -> [Conn -> Name \cup {NoName}]]
      /\ sessionMap' \in [Conn -> Session \cup {NoSession}]
      /\ asked' \in [Conn -> Code \cup {NoCode}]
      /\ \A r \in Session, d \in Conn :
            players'[r][d] = IF r = Current /\ d \in cs THEN NoName ELSE players[r][d]
  BY <1>2, LeaveTyped
<1>4. TypeOK'
  <2>1. channels' \subseteq Conn /\ inbox' \in [Conn -> Seq(Texts)]
    BY <1>2, CloseTyped
  <2> QED
    BY <1>1, <1>2, <1>3, <2>1 DEF TypeOK
<1>5. MembersAgree'
  <2>1. /\ \A d \in Conn, r \in Session :
                players'[r][d] # NoName <=> sessionMap'[d] = r
        /\ \A d \in Conn : sessionMap'[d] \in Live' \cup {NoSession}
        /\ \A d \in Conn : sessionMap'[d] # NoSession
                                <=> sessionMap[d] # NoSession /\ d \notin cs
    BY <1>1, <1>2, LeaveAgrees
  <2>2. channels' = channels \ cs
    BY DEF Close
  <2>3. channels' = {d \in Conn : sessionMap'[d] # NoSession \/ d = leaving'}
    BY <1>1, <1>2, <2>1, <2>2, NobodyAssumption DEF MembersAgree
  <2> QED
    BY <2>1, <2>3 DEF MembersAgree
<1>6. Hears'
  BY <1>1, <1>2, <1>3 DEF Hears
<1>7. Inhabited'
  BY <1>1, <1>2, <1>3 DEF Inhabited
<1>8. Waits' /\ OwnBuffer'
  BY <1>1, <1>2, NobodyAssumption DEF Waits, OwnBuffer
<1> QED
  BY <1>4, <1>5, <1>6, <1>7, <1>8 DEF IInv

LEMMA HandleQuitKeeps ==
  ASSUME IInv, NEW c \in Conn, NEW text \in Texts, HandleQuit(c, text)
  PROVE  IInv'
<1>1. /\ Hear(c, text) /\ Leave(Current, {c}) /\ Close({c})
      /\ todo' = todo \ {c} /\ buffer' = buffer \cup {Current}
      /\ UNCHANGED <<configuration, game>>
  BY DEF HandleQuit
<1>2. sessionMap[c] = Current
  BY <1>1, HearingIsBusy DEF Hear
<1> QED
  BY <1>1, <1>2, GoKeeps

LEMMA HandleShutdownKeeps ==
  ASSUME IInv, NEW c \in Conn, NEW text \in Texts, HandleShutdown(c, text)
  PROVE  IInv'
<1>1. /\ Hear(c, text) /\ Leave(Current, Players(Current)) /\ Close(Players(Current))
      /\ todo' = {} /\ UNCHANGED <<configuration, buffer, game>>
  BY DEF HandleShutdown
<1>2. MembersAgree /\ Current \in Session
  BY <1>1, HearingIsBusy DEF Hear
<1>3. Players(Current) \in SUBSET Conn /\ \A d \in Players(Current) : sessionMap[d] = Current
  BY <1>2 DEF Players, MembersAgree
<1> QED
  BY <1>1, <1>3, GoKeeps

\* A session keeps the configuration that was found.
LEMMA ConfigurationTyped ==
  ASSUME TypeOK, NEW g \in Game, configuration' = [configuration EXCEPT ![Current] = g]
  PROVE  configuration' \in [Session -> Game \cup {NoGame}]
BY DEF TypeOK

LEMMA HandleStartInVainKeeps ==
  ASSUME IInv, NEW c \in Conn, NEW text \in Texts, HandleStartInVain(c, text)
  PROVE  IInv'
<1>1. /\ Hear(c, text) /\ Repeat(c) /\ UNCHANGED <<players, game>>
      /\ text.argument \in Game \cup {NoGame} /\ TypeOK
  BY Arguments DEF HandleStartInVain, IInv
<1>2. configuration' \in [Session -> Game \cup {NoGame}]
  <2>1. CASE UNCHANGED configuration
    BY <1>1, <2>1 DEF TypeOK
  <2>2. CASE /\ text.argument # NoGame
             /\ configuration' = [configuration EXCEPT ![Current] = text.argument]
    BY <1>1, <2>2, ConfigurationTyped
  <2> QED
    BY <2>1, <2>2 DEF HandleStartInVain
<1> QED
  BY <1>1, <1>2, RepeatKeeps DEF TypeOK

LEMMA HandleStartKeeps ==
  ASSUME IInv, NEW c \in Conn, NEW text \in Texts, HandleStart(c, text)
  PROVE  IInv'
<1>1. /\ Hear(c, text) /\ Repeat(c) /\ UNCHANGED players
      /\ text.argument \in Game /\ TypeOK
      /\ configuration' = [configuration EXCEPT ![Current] = text.argument]
      /\ at = "session"
  BY Arguments DEF HandleStart, Hear, IInv
<1>2. configuration' \in [Session -> Game \cup {NoGame}]
  BY <1>1, ConfigurationTyped
<1>3. PICK t \in Thread, table \in SUBSET Players(Current) :
        game' = [game EXCEPT ![t] =
                    [Free EXCEPT !.phase = "spawned", !.session = Current, !.table = table]]
  BY DEF HandleStart
<1>4. [Free EXCEPT !.phase = "spawned", !.session = Current, !.table = table] \in Games
  <2>1. Current \in Session /\ table \in SUBSET Conn
    BY <1>1, HearingIsBusy DEF Players
  <2> QED
    BY <2>1 DEF Free, Games
<1>5. game' \in [Thread -> Games]
  BY <1>1, <1>3, <1>4 DEF TypeOK
<1> QED
  BY <1>1, <1>2, <1>5, RepeatKeeps DEF TypeOK

LEMMA BroadcastKeeps ==
  ASSUME IInv, Broadcast
  PROVE  IInv'
<1>1. /\ at = "session" /\ at' = "scan" /\ index' = index + 1 /\ buffer' = {}
      /\ UNCHANGED <<lobbyVars, stop, todo, leaving, game>>
      /\ Players(Current) # {} /\ Live' = Live
  BY DEF Broadcast, Deserted, Cleared, lobbyVars, Live
<1>2. TypeOK /\ MembersAgree /\ leaving = NoConn
      /\ \A s \in Live \ {Current} : \E c \in Conn : players[s][c] # NoName
  BY <1>1, HearingIsBusy
<1>3. TypeOK'
  BY <1>1, <1>2 DEF TypeOK, Places, lobbyVars, sessionVars
<1>4. MembersAgree'
  BY <1>1, <1>2 DEF MembersAgree, lobbyVars, sessionVars
<1>5. Inhabited'
  BY <1>1, <1>2 DEF Inhabited, Players, lobbyVars, sessionVars
<1>6. Waits' /\ Hears' /\ OwnBuffer'
  BY <1>1, <1>2 DEF Waits, Hears, OwnBuffer
<1> QED
  BY <1>3, <1>4, <1>5, <1>6 DEF IInv

LEMMA DissolveKeeps ==
  ASSUME IInv, Dissolve
  PROVE  IInv'
<1>1. /\ at = "session" /\ at' = "scan" /\ index' = index + 1
      /\ DropEmptySessions
      /\ buffer' = {IF s = Current THEN NoSession ELSE s : s \in buffer}
      /\ UNCHANGED <<channels, inbox, sessionMap, stop, todo, leaving, game>>
  BY DEF Dissolve
<1>2. /\ TypeOK /\ MembersAgree /\ leaving = NoConn
      /\ \A s \in buffer : s = NoSession \/ s = Current
  BY <1>1, HearingIsBusy
<1>3. \A s \in buffer' : s = NoSession
  BY <1>1, <1>2
<1>4. TypeOK'
  <2>1. buffer' \subseteq Session \cup {NoSession}
    BY <1>3
  <2>2. index' \in Nat \ {0}
    BY <1>1, <1>2 DEF TypeOK
  <2>3. detached' = detached /\ players' = players /\ asked' = asked
    BY <1>1, <1>2, DropKeeps
  <2> QED
    BY <1>1, <1>2, <2>1, <2>2, <2>3, DropKeeps DEF TypeOK, Places
<1>5. MembersAgree'
  BY <1>1, <1>2, DropKeeps DEF MembersAgree
<1>6. Inhabited'
  BY <1>1, <1>2, DropKeeps DEF Inhabited
<1>7. Waits' /\ Hears' /\ OwnBuffer'
  BY <1>1, <1>2, <1>3 DEF Waits, Hears, OwnBuffer
<1> QED
  BY <1>4, <1>5, <1>6, <1>7 DEF IInv

-----------------------------------------------------------------------------
(* Game threads *)

\* What a game thread never touches: the sessions and who is in them, and where
\* the main thread is, unless it ends the process.
Bystanders == <<channels, gameSessions, sessionMap, owner, code, players,
                configuration, asked, index, stop, todo, leaving, buffer>>

LEMMA GoesTyped ==
  ASSUME TypeOK, NEW t \in Thread,
         NEW phase \in {"playing", "asking", "telling"}, NEW c \in Conn \cup {NoConn},
         Goes(t, phase, c)
  PROVE  /\ UNCHANGED <<Bystanders, at, inbox, detached>>
         /\ game' \in [Thread -> Games]
<1>1. game[t] \in Games
  BY DEF TypeOK
<1>2. [game[t] EXCEPT !.phase = phase, !.at = c] \in Games
  BY <1>1 DEF Games
<1>3. game' = [game EXCEPT ![t] = [game[t] EXCEPT !.phase = phase, !.at = c]]
  BY DEF Goes
<1>4. game' \in [Thread -> Games]
  BY <1>2, <1>3 DEF TypeOK
<1> QED
  BY <1>4 DEF Goes, Bystanders, lobbyVars, sessionVars, mainVars

LEMMA GameThreadStands ==
  ASSUME TypeOK, NEW t \in Thread, Play(t) \/ GameThread(t)
  PROVE  /\ UNCHANGED Bystanders
         /\ at' \in {at, "crashed"}
         /\ inbox' \in [Conn -> Seq(Texts)]
         /\ detached' \in [Session -> BOOLEAN]
         /\ game' \in [Thread -> Games]
<1>1. /\ inbox \in [Conn -> Seq(Texts)] /\ detached \in [Session -> BOOLEAN]
      /\ game \in [Thread -> Games] /\ game[t] \in Games
  BY DEF TypeOK
<1>2. ASSUME NEW c \in Conn \cup {NoConn},
             \E phase \in {"playing", "asking", "telling"} : Goes(t, phase, c)
      PROVE  /\ UNCHANGED <<Bystanders, at, inbox, detached>>
             /\ game' \in [Thread -> Games]
  BY <1>2, GoesTyped
<1>3. CASE Play(t)
  <2>1. \E c \in Conn : Goes(t, "asking", c)
    BY <1>3 DEF Play, Ask
  <2> QED
    BY <1>1, <1>2, <2>1
<1>4. CASE Detach(t)
  <2>1. [game[t] EXCEPT !.phase = "playing"] \in Games
    BY <1>1 DEF Games
  <2>2. game' = [game EXCEPT ![t] = [game[t] EXCEPT !.phase = "playing"]]
    BY <1>4 DEF Detach
  <2>3. game' \in [Thread -> Games]
    BY <1>1, <2>1, <2>2
  <2>4. detached' \in [Session -> BOOLEAN]
    BY <1>1, <1>4 DEF Detach, SetDetached
  <2> QED
    BY <1>1, <1>4, <2>3, <2>4 DEF Detach, Bystanders, mainVars
<1>5. CASE TakeAnswer(t)
  <2>1. PICK c \in Conn : inbox[c] # <<>> /\ inbox' = [inbox EXCEPT ![c] = Tail(@)]
    BY <1>5 DEF TakeAnswer, TypeOK
  <2>2. Tail(inbox[c]) \in Seq(Texts)
    <3> HIDE DEF Texts
    <3>1. inbox[c] \in Seq(Texts) /\ inbox[c] # <<>>
      BY <1>1, <2>1
    <3> QED
      BY ONLY <3>1
  <2>3. inbox' \in [Conn -> Seq(Texts)]
    BY <1>1, <2>1, <2>2
  <2>4. game' \in [Thread -> Games]
    <3>1. [game[t] EXCEPT !.phase = "playing", !.at = NoConn] \in Games
      BY <1>1 DEF Games
    <3>2. \/ UNCHANGED game
          \/ game' = [game EXCEPT ![t] =
                        [game[t] EXCEPT !.phase = "playing", !.at = NoConn]]
      BY <1>5 DEF TakeAnswer
    <3> QED
      BY <1>1, <3>1, <3>2
  <2> QED
    BY <1>1, <1>5, <2>3, <2>4 DEF TakeAnswer, Bystanders, sessionVars, mainVars
<1>6. CASE TimeUp(t) \/ LoseContact(t) \/ EndGame(t)
  <2>1. \E phase \in {"playing", "asking", "telling"} : Goes(t, phase, NoConn)
    BY <1>6 DEF TimeUp, LoseContact, EndGame
  <2> QED
    BY <1>1, <1>2, <2>1
<1>7. CASE \E c \in Conn : PickToTell(t, c)
  <2>1. \E c \in Conn : Goes(t, "telling", c)
    BY <1>7 DEF PickToTell
  <2> QED
    BY <1>1, <1>2, <2>1
<1>8. CASE Tell(t)
  <2>1. game[t].at \in Conn
    BY <1>8 DEF Tell, TypeOK
  <2>2. [game[t] EXCEPT !.at = NoConn, !.told = @ \cup {game[t].at}] \in Games
    BY <1>1, <2>1 DEF Games
  <2>3. game' = [game EXCEPT ![t] =
                    [game[t] EXCEPT !.at = NoConn, !.told = @ \cup {game[t].at}]]
    BY <1>8 DEF Tell
  <2>4. game' \in [Thread -> Games]
    BY <1>1, <2>2, <2>3
  <2> QED
    BY <1>1, <1>8, <2>4 DEF Tell, Bystanders, lobbyVars, sessionVars, mainVars
<1>9. CASE TellNobody(t)
  BY <1>1, <1>9 DEF TellNobody, Bystanders, lobbyVars, sessionVars
<1>10. CASE HandBack(t)
  <2>1. game' \in [Thread -> Games]
    BY <1>1, <1>10 DEF HandBack, Free, Games
  <2>2. detached' \in [Session -> BOOLEAN]
    BY <1>1, <1>10 DEF HandBack, SetDetached
  <2> QED
    BY <1>1, <1>10, <2>1, <2>2 DEF HandBack, Bystanders, mainVars
<1> QED
  BY <1>3, <1>4, <1>5, <1>6, <1>7, <1>8, <1>9, <1>10 DEF GameThread

LEMMA GameThreadKeeps ==
  ASSUME IInv, NEW t \in Thread, Play(t) \/ GameThread(t)
  PROVE  IInv'
<1>1. TypeOK
  BY DEF IInv
<1>2. /\ UNCHANGED Bystanders
      /\ at' \in {at, "crashed"}
      /\ inbox' \in [Conn -> Seq(Texts)]
      /\ detached' \in [Session -> BOOLEAN]
      /\ game' \in [Thread -> Games]
  BY <1>1, GameThreadStands
<1>3. TypeOK'
  BY <1>1, <1>2 DEF TypeOK, Bystanders, Places
<1>4. Live' = Live /\ Current' = Current
  BY <1>2 DEF Bystanders, Live, Current
<1>5. MembersAgree'
  BY <1>2, <1>4 DEF IInv, MembersAgree, Bystanders
<1>6. Waits' /\ Hears' /\ Inhabited' /\ OwnBuffer'
  BY <1>2, <1>4 DEF IInv, Waits, Hears, Inhabited, OwnBuffer, Bystanders
<1> QED
  BY <1>3, <1>5, <1>6 DEF IInv

-----------------------------------------------------------------------------
(* The theorems *)

LEMMA HandlerKeeps == ASSUME IInv, Handler PROVE IInv'
BY CreateSessionKeeps, JoinSessionKeeps, ArriveKeeps, LosePlayerKeeps,
   LoseLastPlayerKeeps DEF Handler

LEMMA MainLoopKeeps == ASSUME IInv, MainLoop PROVE IInv'
<1>1. ASSUME NEW c \in Conn, NEW text \in Texts, HandleText(c, text) PROVE IInv'
  BY <1>1, HandleChatKeeps, HandleUsernameKeeps, HandleQuitKeeps, HandleShutdownKeeps,
     HandleStartInVainKeeps, HandleStartKeeps DEF HandleText
<1> QED
  BY <1>1, StopWaitingKeeps, HeadOfLoopKeeps, HearNothingKeeps, BroadcastKeeps,
     DissolveKeeps DEF MainLoop

LEMMA StepKeeps == IInv /\ [Next]_vars => IInv'
<1> SUFFICES ASSUME IInv, [Next]_vars PROVE IInv'
  OBVIOUS
<1>1. CASE UNCHANGED vars
  BY <1>1 DEF IInv, TypeOK, MembersAgree, Waits, Hears, Inhabited, OwnBuffer,
              Live, Current, vars, lobbyVars, sessionVars, mainVars
<1>2. CASE Next
  BY <1>1, <1>2, HandlerKeeps, MainLoopKeeps, GameThreadKeeps DEF Next, Crashed
<1> QED
  BY <1>1, <1>2

\* The invariant the theorems below rest on.
THEOREM LobbyInvariant == Spec => []IInv
<1>1. Init => IInv
  BY InitHolds
<1>2. IInv /\ [Next]_vars => IInv'
  BY StepKeeps
<1> QED
  BY <1>1, <1>2, PTL DEF Spec

\* Every variable of the game server keeps its type, whatever comes and goes.
THEOREM LobbyTypeCorrect == Spec => []TypeOK
<1>1. IInv => TypeOK
  BY DEF IInv
<1> QED
  BY <1>1, LobbyInvariant, PTL

\* The channels of the server, the map of sessions and the players of each
\* session always agree on who is where (onConnect, onDisconnect, and what the
\* main loop does for /quit and /shutdown).
THEOREM WhoIsWhere == Spec => []MembersAgree
<1>1. IInv => MembersAgree
  BY DEF IInv
<1> QED
  BY <1>1, LobbyInvariant, PTL

\* When the main loop comes back to Server::update, every session has a player.
THEOREM SessionsAreInhabited == Spec => []NoEmptySession
<1>1. IInv => NoEmptySession
  BY DEF IInv, Inhabited, NoEmptySession, Players
<1> QED
  BY <1>1, LobbyInvariant, PTL

\* The buffer of the main loop carries no text into another session.
THEOREM TextsStayInside == Spec => []OwnTextsOnly
<1>1. IInv => OwnTextsOnly
  BY DEF IInv, OwnBuffer, OwnTextsOnly
<1> QED
  BY <1>1, LobbyInvariant, PTL
=============================================================================
