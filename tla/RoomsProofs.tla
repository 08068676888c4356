----------------------------- MODULE RoomsProofs -----------------------------
(***************************************************************************)
(* Proof that Lobby implements Rooms.  No two sessions have one code, and  *)
(* a connection is in the session of the code it came with, so which code  *)
(* everybody came with says who is in which room, and a room with somebody *)
(* in it is one session, whose owner is its host.                          *)
(***************************************************************************)
EXTENDS LobbyProofs

\* The codes tell the sessions apart, and tell where everybody is.
Coded ==
    /\ \A s \in Live : code[s] \in Code
    /\ \A s, r \in Live : code[s] = code[r] => s = r
    /\ \A c \in Conn :
            asked[c] = IF sessionMap[c] = NoSession THEN NoCode ELSE code[sessionMap[c]]

RInv == IInv /\ Coded

-----------------------------------------------------------------------------
(* The abstract state *)

\* What the lobby's records mean as rooms.
RoomFacts ==
    /\ asked \in [Conn -> Code \cup {NoCode}]
    /\ [c \in Conn |-> RoomOf(c)] = asked
    /\ Live \subseteq Session
    /\ \A s \in Live : Players(s) = {c \in Conn : asked[c] = code[s]}
    /\ \A k \in Code : (\E c \in Conn : asked[c] = k) =>
            \E s \in Live : code[s] = k /\ Players(s) # {}
LEMMA RoomsAre == RInv => RoomFacts
<1> SUFFICES ASSUME RInv PROVE RoomFacts
  OBVIOUS
<1>1. TypeOK /\ MembersAgree /\ Coded
  BY DEF RInv, IInv
<1>2. Live \subseteq Session
  BY <1>1, LiveAre
<1>3. [c \in Conn |-> RoomOf(c)] = asked
  BY <1>1 DEF TypeOK, Coded, RoomOf
<1>4. \A c \in Conn : asked[c] \in Code => sessionMap[c] \in Live /\ asked[c] = code[sessionMap[c]]
  BY <1>1, NobodyAssumption DEF Coded, MembersAgree
<1>5. \A s \in Live : Players(s) = {c \in Conn : sessionMap[c] = s}
  BY <1>1, <1>2 DEF MembersAgree, Players
<1>6. \A s \in Live, c \in Conn : sessionMap[c] = s <=> asked[c] = code[s]
  BY <1>1, <1>2, <1>4, NobodyAssumption DEF Coded
<1>7. \A s \in Live : Players(s) = {c \in Conn : asked[c] = code[s]}
  BY <1>5, <1>6
<1>8. \A k \in Code : (\E c \in Conn : asked[c] = k) =>
            \E s \in Live : code[s] = k /\ Players(s) # {}
  BY <1>4, <1>7
<1> QED
  BY <1>1, <1>2, <1>3, <1>7, <1>8 DEF TypeOK, RoomFacts

\* The host of a room with somebody in it is the owner of its only session.
HostFacts ==
    \A k \in Code :
        /\ \A s \in Live : code[s] = k /\ Players(s) # {} => HostOf(k) = owner[s]
        /\ (\A c \in Conn : asked[c] # k) => HostOf(k) = NoConn

LEMMA HostIs == RInv => HostFacts
<1> SUFFICES ASSUME RInv, NEW k \in Code
             PROVE  /\ \A s \in Live : code[s] = k /\ Players(s) # {} => HostOf(k) = owner[s]
                    /\ (\A c \in Conn : asked[c] # k) => HostOf(k) = NoConn
  BY DEF HostFacts
<1> DEFINE open == {s \in Live : code[s] = k /\ Players(s) # {}}
<1>1. HostOf(k) = IF open = {} THEN NoConn ELSE owner[CHOOSE s \in open : TRUE]
  BY DEF HostOf
<1>2. \A s, r \in open : s = r
  BY DEF RInv, Coded
<1>3. ASSUME NEW s \in open PROVE HostOf(k) = owner[s]
  <2>1. (CHOOSE r \in open : TRUE) \in open
    BY <1>3
  <2> QED
    BY <1>1, <1>2, <1>3, <2>1
<1>4. ASSUME \A c \in Conn : asked[c] # k PROVE HostOf(k) = NoConn
  <2>1. open = {}
    BY <1>4, RoomsAre DEF RoomFacts
  <2> QED
    BY <1>1, <2>1
<1> QED
  BY <1>3, <1>4

\* The same facts of the state after a step.
LEMMA NextRooms == RInv' => RoomFacts' /\ HostFacts'
BY RoomsAre, HostIs, PTL

\* A room keeps its host when it keeps its session, and somebody in it.
LEMMA HostStays ==
  ASSUME RInv, RInv', NEW k \in Code,
         (\E c \in Conn : asked[c] = k) <=> (\E c \in Conn : asked'[c] = k),
         \A s \in Live : code[s] = k /\ Players(s) # {} =>
            s \in Live' /\ code'[s] = k /\ owner'[s] = owner[s]
  PROVE  HostOf(k)' = HostOf(k)
<1>1. CASE \E c \in Conn : asked[c] = k
  <2>1. PICK s \in Live : code[s] = k /\ Players(s) # {}
    BY <1>1, RoomsAre DEF RoomFacts
  <2>2. HostOf(k) = owner[s]
    BY <2>1, HostIs DEF HostFacts
  <2>3. s \in Live' /\ code'[s] = k /\ owner'[s] = owner[s]
    BY <2>1
  <2>4. Players(s)' = {c \in Conn : asked'[c] = code'[s]}
    BY <2>3, NextRooms DEF RoomFacts
  <2>5. Players(s)' # {}
    BY <1>1, <2>3, <2>4
  <2>6. HostOf(k)' = owner'[s]
    BY <2>3, <2>5, NextRooms DEF HostFacts
  <2> QED
    BY <2>2, <2>3, <2>6
<1>2. CASE \A c \in Conn : asked[c] # k
  <2>1. \A c \in Conn : asked'[c] # k
    BY <1>2
  <2>2. HostOf(k) = NoConn
    BY <1>2, HostIs DEF HostFacts
  <2>3. HostOf(k)' = NoConn
    BY <2>1, NextRooms DEF HostFacts
  <2> QED
    BY <2>2, <2>3
<1> QED
  BY <1>1, <1>2

-----------------------------------------------------------------------------
(* What the steps do to the rooms *)

\* Some or all players of session s go.
Leaves(s, cs) ==
    /\ s \in Live /\ \A c \in cs : sessionMap[c] = s
    /\ sessionMap' = [c \in Conn |-> IF c \in cs THEN NoSession ELSE sessionMap[c]]
    /\ asked' = [c \in Conn |-> IF c \in cs THEN NoCode ELSE asked[c]]
    /\ UNCHANGED <<gameSessions, owner, code>>

\* The sessions without players go.
Drops ==
    /\ Live' = {s \in Live : Players(s) # {}}
    /\ \A s \in Live' : code'[s] = code[s] /\ owner'[s] = owner[s]
    /\ UNCHANGED <<sessionMap, asked>>

\* Nobody comes or goes.
Stays == UNCHANGED <<gameSessions, owner, code, sessionMap, asked>>

\* Every step is of one of five kinds.
StepKinds ==
    \/ \E c \in Conn, k \in Code : CreateSession(c, k)
    \/ \E c \in Conn, k \in Code, n \in Animal : JoinSession(c, k, n)
    \/ \E s \in Session, c \in Conn : Leaves(s, {c})
    \/ \E s \in Session : owner[s] \in Players(s) /\ Leaves(s, Players(s))
    \/ Drops
    \/ Stays

\* Of what is left when DropEmptySessions is done, nothing has changed.
LEMMA DropDrops ==
  ASSUME TypeOK, DropEmptySessions, UNCHANGED sessionMap
  PROVE  Drops
<1>1. Live' = {s \in Live : Players(s) # {}} /\ Live \subseteq Session
  BY DropLeaves, LiveAre
<1>2. UNCHANGED asked
  BY DEF DropEmptySessions
<1>3. ASSUME NEW s \in Live' PROVE code'[s] = code[s] /\ owner'[s] = owner[s]
  <2>1. s \in Session /\ s \notin {r \in Live : Players(r) = {}}
    BY <1>1, <1>3
  <2> QED
    BY <2>1 DEF DropEmptySessions
<1> QED
  BY <1>1, <1>2, <1>3 DEF Drops

LEMMA StepIs ==
  ASSUME IInv, [Next]_vars
  PROVE  StepKinds
<1>1. TypeOK /\ MembersAgree /\ Live \subseteq Session
  BY LiveAre DEF IInv
<1>2. ASSUME NEW c \in Conn, LosePlayer(c) \/ LoseLastPlayer(c) PROVE StepKinds
  <2>1. /\ at = "update" /\ c \in channels /\ Leave(sessionMap[c], {c})
        /\ UNCHANGED <<gameSessions, owner, code>>
    BY <1>2 DEF LosePlayer, LoseLastPlayer
  <2>2. sessionMap[c] \in Live
    BY <1>1, <2>1, NobodyAssumption DEF IInv, MembersAgree, Waits
  <2> QED
    BY <1>1, <2>1, <2>2 DEF StepKinds, Leaves, Leave
<1>3. ASSUME NEW c \in Conn, NEW text \in Texts, HandleQuit(c, text) PROVE StepKinds
  <2>1. /\ Hear(c, text) /\ Leave(Current, {c}) /\ at = "session" /\ c \in todo
    BY <1>3 DEF HandleQuit, Hear
  <2>2. Current \in Live /\ sessionMap[c] = Current
    BY <2>1, HearingIsBusy
  <2> QED
    BY <1>1, <2>1, <2>2 DEF StepKinds, Leaves, Leave, Hear
<1>4. ASSUME NEW c \in Conn, NEW text \in Texts, HandleShutdown(c, text) PROVE StepKinds
  <2>1. /\ Hear(c, text) /\ Leave(Current, Players(Current)) /\ at = "session"
        /\ c \in todo /\ c = owner[Current]
    BY <1>4 DEF HandleShutdown, Hear
  <2>2. Current \in Live /\ players[Current][c] # NoName
    BY <2>1, HearingIsBusy
  <2>3. \A d \in Players(Current) : sessionMap[d] = Current
    BY <1>1, <2>2 DEF MembersAgree, Players
  <2> QED
    BY <1>1, <2>1, <2>2, <2>3 DEF StepKinds, Leaves, Leave, Hear, Players
<1>5. CASE StopWaiting \/ Dissolve
  BY <1>1, <1>5, DropDrops DEF StopWaiting, Dissolve, StepKinds
<1>6. ASSUME NEW t \in Thread, Play(t) \/ GameThread(t) PROVE StepKinds
  BY <1>1, <1>6, GameThreadStands DEF StepKinds, Stays, Bystanders
<1>7. ASSUME NEW c \in Conn, NEW text \in Texts,
             HandleChat(c, text) \/ HandleUsername(c, text)
             \/ HandleStartInVain(c, text) \/ HandleStart(c, text)
      PROVE  StepKinds
  <2>1. Hear(c, text) /\ Repeat(c)
    BY <1>7 DEF HandleChat, HandleUsername, HandleStartInVain, HandleStart
  <2> QED
    BY <2>1 DEF Hear, Repeat, StepKinds, Stays
<1>8. ASSUME BeginPass \/ SkipDetached \/ EnterSession \/ EnterDangling \/ EndPass
             \/ Broadcast \/ (\E c \in Conn : HearNothing(c))
      PROVE  StepKinds
  <2>1. UNCHANGED lobbyVars
    BY <1>8 DEF BeginPass, SkipDetached, EnterSession, EnterDangling, EndPass,
                Broadcast, HearNothing
  <2> QED
    BY <2>1 DEF lobbyVars, sessionVars, StepKinds, Stays
<1>9. ASSUME Crashed \/ UNCHANGED vars PROVE StepKinds
  BY <1>9 DEF Crashed, vars, lobbyVars, sessionVars, StepKinds, Stays
<1>10. CASE Handler
  <2>1. ASSUME NEW c \in Conn, NEW text \in Texts, Arrive(c, text) PROVE StepKinds
    BY <2>1 DEF Arrive, sessionVars, StepKinds, Stays
  <2> QED
    BY <1>2, <1>10, <2>1 DEF Handler, StepKinds
<1>11. CASE MainLoop
  <2>1. ASSUME NEW c \in Conn, NEW text \in Texts, HandleText(c, text) PROVE StepKinds
    BY <1>3, <1>4, <1>7, <2>1 DEF HandleText
  <2> QED
    BY <1>5, <1>8, <1>11, <2>1 DEF MainLoop
<1> QED
  BY <1>6, <1>9, <1>10, <1>11 DEF Next

-----------------------------------------------------------------------------
(* The codes *)

\* The new session and the new player after CreateSession and JoinSession.
LEMMA Opened ==
  ASSUME RInv, NEW c \in Conn, NEW k \in Code, CreateSession(c, k)
  PROVE  /\ asked' = [asked EXCEPT ![c] = k] /\ asked[c] = NoCode
         /\ \A s \in Live : code[s] # k
         /\ \E s \in Session \ Live :
                /\ Live' = Live \cup {s}
                /\ sessionMap' = [sessionMap EXCEPT ![c] = s]
                /\ code' = [code EXCEPT ![s] = k]
                /\ owner' = [owner EXCEPT ![s] = c]
<1>1. TypeOK /\ MembersAgree /\ Coded /\ c \notin channels
  BY DEF RInv, IInv, CreateSession, Register
<1>2. asked[c] = NoCode
  BY <1>1 DEF MembersAgree, Coded
<1>3. PICK s \in Session \ Live :
        /\ gameSessions' = Append(gameSessions, s)
        /\ owner' = [owner EXCEPT ![s] = c]
        /\ code' = [code EXCEPT ![s] = k]
        /\ sessionMap' = [sessionMap EXCEPT ![c] = s]
  BY DEF CreateSession
<1>4. Live' = Live \cup {s}
  <2>1. gameSessions \in Seq(Session) /\ s \in Session
    BY <1>1 DEF TypeOK
  <2>2. /\ Len(Append(gameSessions, s)) = Len(gameSessions) + 1
        /\ \A i \in 1..Len(gameSessions) : Append(gameSessions, s)[i] = gameSessions[i]
        /\ Append(gameSessions, s)[Len(gameSessions) + 1] = s
        /\ Len(gameSessions) \in Nat
    BY ONLY <2>1
  <2> QED
    BY <1>3, <2>2 DEF Live
<1>5. \A r \in Live : code[r] # k
  BY <1>1, LiveAre DEF CreateSession, Found, Live
<1> QED
  BY <1>2, <1>3, <1>4, <1>5 DEF CreateSession

LEMMA Joined ==
  ASSUME RInv, NEW c \in Conn, NEW k \in Code, NEW n \in Animal, JoinSession(c, k, n)
  PROVE  /\ asked' = [asked EXCEPT ![c] = k] /\ asked[c] = NoCode
         /\ \E s \in Live : code[s] = k /\ sessionMap' = [sessionMap EXCEPT ![c] = s]
                            /\ \E d \in Conn : asked[d] = k
         /\ UNCHANGED <<gameSessions, owner, code>>
<1>1. TypeOK /\ MembersAgree /\ Coded /\ c \notin channels /\ at = "update"
  BY DEF RInv, IInv, JoinSession, Register
<1>2. asked[c] = NoCode
  BY <1>1 DEF MembersAgree, Coded
<1>3. PICK s \in Live : code[s] = k /\ sessionMap' = [sessionMap EXCEPT ![c] = s]
  BY <1>1, LiveAre DEF JoinSession, Found
<1>4. \E d \in Players(s) : TRUE
  BY <1>1, <1>3 DEF RInv, IInv, Inhabited, Players
<1>5. \E d \in Conn : asked[d] = k
  BY <1>3, <1>4, RoomsAre DEF RoomFacts
<1> QED
  BY <1>2, <1>3, <1>5 DEF JoinSession

\* The codes go on to tell where everybody is.
LEMMA CodedStays ==
  ASSUME RInv, StepKinds
  PROVE  Coded'
<1>1. TypeOK /\ MembersAgree /\ Coded /\ Live \subseteq Session
  BY LiveAre DEF RInv, IInv
<1>2. ASSUME NEW c \in Conn, NEW k \in Code, CreateSession(c, k) PROVE Coded'
  <2>1. PICK s \in Session \ Live :
            /\ Live' = Live \cup {s}
            /\ sessionMap' = [sessionMap EXCEPT ![c] = s]
            /\ code' = [code EXCEPT ![s] = k]
    BY <1>2, Opened
  <2>2. asked' = [asked EXCEPT ![c] = k] /\ \A r \in Live : code[r] # k
    BY <1>2, Opened
  <2>3. \A r \in Live : code'[r] = code[r]
    BY <1>1, <2>1 DEF TypeOK
  <2>4. code'[s] = k
    BY <1>1, <2>1 DEF TypeOK
  <2>5. /\ \A r \in Live' : code'[r] \in Code
        /\ \A q, r \in Live' : code'[q] = code'[r] => q = r
    BY <1>1, <2>1, <2>2, <2>3, <2>4 DEF Coded
  <2>6. ASSUME NEW d \in Conn
        PROVE  asked'[d] = IF sessionMap'[d] = NoSession THEN NoCode
                           ELSE code'[sessionMap'[d]]
    <3>1. CASE d = c
      BY <1>1, <2>1, <2>2, <2>4, <3>1, NobodyAssumption DEF TypeOK
    <3>2. CASE d # c
      <4>1. asked'[d] = asked[d] /\ sessionMap'[d] = sessionMap[d]
        BY <1>1, <2>1, <2>2, <3>2 DEF TypeOK
      <4>2. sessionMap[d] \in Live \cup {NoSession}
        BY <1>1 DEF MembersAgree
      <4> QED
        BY <1>1, <2>3, <4>1, <4>2 DEF Coded
    <3> QED
      BY <3>1, <3>2
  <2> QED
    BY <2>5, <2>6 DEF Coded
<1>3. ASSUME NEW c \in Conn, NEW k \in Code, NEW n \in Animal, JoinSession(c, k, n)
      PROVE  Coded'
  <2>1. PICK s \in Live : code[s] = k /\ sessionMap' = [sessionMap EXCEPT ![c] = s]
    BY <1>3, Joined
  <2>2. asked' = [asked EXCEPT ![c] = k] /\ UNCHANGED <<gameSessions, owner, code>>
    BY <1>3, Joined
  <2>3. Live' = Live /\ s # NoSession
    BY <1>1, <2>2, NobodyAssumption DEF Live
  <2> QED
    BY <1>1, <2>1, <2>2, <2>3 DEF Coded, TypeOK
<1>4. ASSUME NEW s \in Session, NEW cs, Leaves(s, cs) PROVE Coded'
  <2>1. Live' = Live
    BY <1>4 DEF Leaves, Live
  <2> QED
    BY <1>1, <1>4, <2>1 DEF Leaves, Coded
<1>5. CASE Drops
  <2>1. \A c \in Conn : sessionMap[c] # NoSession => sessionMap[c] \in Live'
    <3>1. \A c \in Conn : sessionMap[c] # NoSession =>
                sessionMap[c] \in Live /\ c \in Players(sessionMap[c])
      BY <1>1 DEF MembersAgree, Players
    <3> QED
      BY <1>5, <3>1 DEF Drops
  <2> QED
    BY <1>1, <1>5, <2>1 DEF Drops, Coded
<1>6. CASE Stays
  BY <1>1, <1>6 DEF Stays, Coded, Live
<1> QED
  BY <1>2, <1>3, <1>4, <1>5, <1>6 DEF StepKinds

LEMMA RInvHolds == Spec => []RInv
<1>1. Init => RInv
  <2> SUFFICES ASSUME Init PROVE RInv
    OBVIOUS
  <2>1. IInv
    BY InitHolds
  <2>2. Live = {}
    BY DEF Init, Live
  <2> QED
    BY <2>1, <2>2 DEF RInv, Init, Coded
<1>2. RInv /\ [Next]_vars => RInv'
  <2> SUFFICES ASSUME RInv, [Next]_vars PROVE RInv'
    OBVIOUS
  <2>1. IInv' /\ StepKinds
    BY StepKeeps, StepIs DEF RInv
  <2>2. Coded'
    BY <2>1, CodedStays
  <2> QED
    BY <2>1, <2>2 DEF RInv
<1> QED
  BY <1>1, <1>2, PTL DEF Spec

-----------------------------------------------------------------------------
(* Every step is one of Rooms, or none *)

\* The state functions in the place of host and of room.
Hosts == [k \in Code |-> HostOf(k)]
RoomMap == [c \in Conn |-> RoomOf(c)]

LEMMA OpenIsStep ==
  ASSUME RInv, RInv', NEW c \in Conn, NEW k \in Code, CreateSession(c, k)
  PROVE  Promise!OpenRoom(c, k)
<1>1. RoomMap = asked /\ RoomMap' = asked' /\ RoomFacts /\ RoomFacts'
  BY RoomsAre, NextRooms DEF RoomFacts, RoomMap
<1>2. PICK s \in Session \ Live :
            /\ Live' = Live \cup {s}
            /\ code' = [code EXCEPT ![s] = k]
            /\ owner' = [owner EXCEPT ![s] = c]
  BY Opened
<1>3. asked' = [asked EXCEPT ![c] = k] /\ asked[c] = NoCode /\ \A r \in Live : code[r] # k
  BY Opened
<1>4. \A d \in Conn : asked[d] # k
  BY <1>1, <1>3 DEF RoomFacts
<1>5. TypeOK /\ Live \subseteq Session
  BY LiveAre DEF RInv, IInv
<1>6. HostOf(k)' = c
  <2>1. s \in Live' /\ code'[s] = k /\ owner'[s] = c
    BY <1>2, <1>5 DEF TypeOK
  <2>2. asked'[c] = code'[s]
    BY <1>1, <1>3, <2>1 DEF RoomFacts
  <2>3. Players(s)' # {}
    BY <1>1, <2>1, <2>2 DEF RoomFacts
  <2> QED
    BY <2>1, <2>3, NextRooms DEF HostFacts
<1>7. ASSUME NEW j \in Code, j # k PROVE HostOf(j)' = HostOf(j)
  <2>1. \A d \in Conn : asked[d] = j <=> asked'[d] = j
    BY <1>1, <1>3, <1>7, NobodyAssumption DEF RoomFacts
  <2>2. \A r \in Live : r \in Live' /\ code'[r] = code[r] /\ owner'[r] = owner[r]
    BY <1>2, <1>5 DEF TypeOK
  <2> QED
    BY <2>1, <2>2, HostStays
<1>8. Hosts' = [Hosts EXCEPT ![k] = c]
  BY <1>6, <1>7 DEF Hosts
<1> QED
  BY <1>1, <1>3, <1>4, <1>8 DEF Promise!OpenRoom, Promise!MembersOf, RoomMap, Hosts

LEMMA JoinIsStep ==
  ASSUME RInv, RInv', NEW c \in Conn, NEW k \in Code, NEW n \in Animal,
         JoinSession(c, k, n)
  PROVE  Promise!JoinRoom(c, k)
<1>1. RoomMap = asked /\ RoomMap' = asked' /\ RoomFacts /\ RoomFacts'
  BY RoomsAre, NextRooms DEF RoomFacts, RoomMap
<1>2. /\ asked' = [asked EXCEPT ![c] = k] /\ asked[c] = NoCode
      /\ \E d \in Conn : asked[d] = k
      /\ UNCHANGED <<gameSessions, owner, code>>
  BY Joined
<1>3. ASSUME NEW j \in Code PROVE HostOf(j)' = HostOf(j)
  <2>1. (\E d \in Conn : asked[d] = j) <=> (\E d \in Conn : asked'[d] = j)
    BY <1>1, <1>2, NobodyAssumption DEF RoomFacts
  <2>2. Live' = Live
    BY <1>2 DEF Live
  <2> QED
    BY <1>2, <2>1, <2>2, HostStays
<1>4. Hosts' = Hosts
  BY <1>3 DEF Hosts
<1> QED
  BY <1>1, <1>2, <1>4 DEF Promise!JoinRoom, Promise!MembersOf, RoomMap, Hosts

\* The host of a room that is left alone, or empty, when the players cs go.
LEMMA HostsAfter ==
  ASSUME RInv, RInv', NEW s \in Session, NEW cs \in SUBSET Conn, Leaves(s, cs),
         cs # {}
  PROVE  /\ code[s] \in Code
         /\ \A c \in cs : asked[c] = code[s]
         /\ Hosts' = IF Players(s) = cs THEN [Hosts EXCEPT ![code[s]] = NoConn] ELSE Hosts
<1>1. RoomFacts /\ RoomFacts' /\ Coded /\ TypeOK
  BY RoomsAre, NextRooms DEF RInv, IInv
<1>2. /\ s \in Live /\ Live' = Live /\ UNCHANGED <<owner, code>>
      /\ asked' = [c \in Conn |-> IF c \in cs THEN NoCode ELSE asked[c]]
  BY DEF Leaves, Live
<1>3. code[s] \in Code /\ code[s] # NoCode
  BY <1>1, <1>2, NobodyAssumption DEF Coded
<1>4. \A c \in cs : asked[c] = code[s]
  BY <1>1, NobodyAssumption DEF Leaves, Coded, RoomFacts
<1>5. Players(s) = {c \in Conn : asked[c] = code[s]}
  BY <1>1, <1>2 DEF RoomFacts
<1>6. ASSUME NEW k \in Code, k # code[s] PROVE HostOf(k)' = HostOf(k)
  <2>1. \A c \in Conn : asked[c] = k <=> asked'[c] = k
    BY <1>2, <1>4, <1>6, NobodyAssumption
  <2> QED
    BY <1>2, <2>1, HostStays
<1>7. CASE Players(s) = cs
  <2>1. \A c \in Conn : asked'[c] # code[s]
    BY <1>2, <1>3, <1>5, <1>7
  <2>2. ASSUME NEW k \in Code, k = code[s] PROVE HostOf(k)' = NoConn
    BY <2>1, <2>2, NextRooms DEF HostFacts
  <2>3. Hosts' = [k \in Code |-> IF k = code[s] THEN NoConn ELSE Hosts[k]]
    BY <1>6, <2>2 DEF Hosts
  <2>4. Hosts' = [Hosts EXCEPT ![code[s]] = NoConn]
    BY <2>3 DEF Hosts
  <2> QED
    BY <1>3, <1>4, <1>7, <2>4
<1>8. CASE Players(s) # cs
  <2>1. PICK d \in Conn : d \notin cs /\ asked[d] = code[s]
    BY <1>4, <1>5, <1>8
  <2>2. ASSUME NEW k \in Code, k = code[s] PROVE HostOf(k)' = HostOf(k)
    <3>1. asked[d] = k /\ asked'[d] = k
      BY <1>2, <2>1, <2>2
    <3> QED
      BY <1>2, <3>1, HostStays
  <2>3. \A k \in Code : HostOf(k)' = HostOf(k)
    BY <1>6, <2>2
  <2> QED
    BY <1>3, <1>4, <1>8, <2>3 DEF Hosts
<1> QED
  BY <1>7, <1>8

LEMMA LeaveIsStep ==
  ASSUME RInv, RInv', NEW s \in Session, NEW c \in Conn, Leaves(s, {c})
  PROVE  Promise!LeaveRoom(c)
<1>1. RoomMap = asked /\ RoomMap' = asked' /\ RoomFacts /\ RoomFacts'
  BY RoomsAre, NextRooms DEF RoomFacts, RoomMap
<1>2. /\ code[s] \in Code /\ asked[c] = code[s]
      /\ Hosts' = IF Players(s) = {c} THEN [Hosts EXCEPT ![code[s]] = NoConn] ELSE Hosts
  BY HostsAfter
<1>3. s \in Live /\ asked' = [asked EXCEPT ![c] = NoCode]
  BY <1>1 DEF Leaves, RoomFacts
<1>4. Players(s) = {d \in Conn : asked[d] = code[s]}
  BY <1>1, <1>3 DEF RoomFacts
<1>5. asked[c] # NoCode
  BY <1>2, NobodyAssumption
<1> QED
  BY <1>1, <1>2, <1>3, <1>4, <1>5
     DEF Promise!LeaveRoom, Promise!MembersOf, RoomMap, Hosts

LEMMA CloseIsStep ==
  ASSUME RInv, RInv', NEW s \in Session, owner[s] \in Players(s), Leaves(s, Players(s))
  PROVE  \E k \in Code : Promise!CloseRoom(k)
<1>1. RoomMap = asked /\ RoomMap' = asked' /\ RoomFacts /\ RoomFacts' /\ HostFacts
  BY RoomsAre, NextRooms, HostIs DEF RoomFacts, RoomMap
<1>2. Players(s) \in SUBSET Conn /\ Players(s) # {}
  BY DEF Players
<1>3. /\ code[s] \in Code
      /\ Hosts' = [Hosts EXCEPT ![code[s]] = NoConn]
  BY <1>2, HostsAfter
<1>4. s \in Live /\ asked' = [c \in Conn |-> IF c \in Players(s) THEN NoCode ELSE asked[c]]
  BY DEF Leaves
<1>5. Players(s) = {c \in Conn : asked[c] = code[s]}
  BY <1>1, <1>4 DEF RoomFacts
<1>6. PICK k \in Code : k = code[s]
  BY <1>3
<1>7. HostOf(k) = owner[s]
  BY <1>1, <1>2, <1>4, <1>6 DEF HostFacts
<1>8. Hosts[k] = owner[s]
  BY <1>7 DEF Hosts
<1>9. asked' = [c \in Conn |-> IF asked[c] = k THEN NoCode ELSE asked[c]]
  BY <1>4, <1>5, <1>6
<1>10. Promise!CloseRoom(k)
  <2>1. Hosts[k] \in {c \in Conn : asked[c] = k}
    BY <1>5, <1>6, <1>8
  <2> QED
    BY <1>1, <1>3, <1>6, <1>9, <2>1
       DEF Promise!CloseRoom, Promise!MembersOf, RoomMap, Hosts
<1> QED
  BY <1>10

LEMMA OthersStutter ==
  ASSUME RInv, RInv', Drops \/ Stays
  PROVE  UNCHANGED Promise!roomVars
<1>1. RoomMap = asked /\ RoomMap' = asked'
  BY RoomsAre, NextRooms DEF RoomFacts, RoomMap
<1>2. asked' = asked
  BY DEF Drops, Stays
<1>3. ASSUME NEW k \in Code PROVE HostOf(k)' = HostOf(k)
  <2>1. \A s \in Live : Players(s) # {} =>
            s \in Live' /\ code'[s] = code[s] /\ owner'[s] = owner[s]
    BY DEF Drops, Stays, Live
  <2> QED
    BY <1>2, <2>1, HostStays
<1>4. Hosts' = Hosts
  BY <1>3 DEF Hosts
<1> QED
  BY <1>1, <1>2, <1>4 DEF Promise!roomVars, RoomMap, Hosts

\* The lobby is a set of rooms: whatever the order in which connections come,
\* are lost, quit, or are sent away, and whatever the game threads do
\* meanwhile, who is in which room and who owns it change as Rooms says only.
THEOREM LobbyKeepsRooms == Spec => KeepsRooms
<1>1. Init => Promise!RoomsInit
  <2> SUFFICES ASSUME Init PROVE Promise!RoomsInit
    OBVIOUS
  <2>1. Live = {}
    BY DEF Init, Live
  <2>2. Hosts = [k \in Code |-> NoConn]
    BY <2>1 DEF Hosts, HostOf
  <2>3. RoomMap = [c \in Conn |-> NoCode]
    BY DEF RoomMap, RoomOf, Init
  <2> QED
    BY <2>2, <2>3 DEF Init, Promise!RoomsInit, RoomMap, Hosts
<1>2. RInv /\ RInv' /\ [Next]_vars => [Promise!RoomsNext]_(Promise!roomVars)
  <2> SUFFICES ASSUME RInv, RInv', [Next]_vars
               PROVE  Promise!RoomsNext \/ UNCHANGED Promise!roomVars
    OBVIOUS
  <2>1. StepKinds
    BY StepIs DEF RInv
  <2> QED
    BY <2>1, OpenIsStep, JoinIsStep, LeaveIsStep, CloseIsStep, OthersStutter
       DEF StepKinds, Promise!RoomsNext
<1> QED
  BY <1>1, <1>2, RInvHolds, PTL DEF Spec, KeepsRooms, Promise!RoomsSpec
=============================================================================
