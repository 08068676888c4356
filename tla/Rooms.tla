-------------------------------- MODULE Rooms --------------------------------
(***************************************************************************)
(* What the lobby of the game server promises of its members, leaving out  *)
(* names, texts and games: an invite code names a room; whoever comes with *)
(* the code of a room that has somebody in it joins it, anybody else opens *)
(* it and owns it; nobody is ever moved to another room; one leaves alone, *)
(* or with everybody else when the owner closes the room.                  *)
(***************************************************************************)
CONSTANTS
    Conn,               \* connections
    Code,               \* invite codes
    NoCode, NoConn      \* "in no room", "owned by nobody"; not in Code, Conn

VARIABLES
    invite,             \* invite[c]: the code c came with, NoCode if it is not here
    room,               \* room[c]: the code of the room of connection c
    host                \* host[k]: the owner of the room with code k

roomVars == <<invite, room, host>>

MembersOf(k) == {c \in Conn : room[c] = k}

RoomsInit ==
    /\ invite = [c \in Conn |-> NoCode]
    /\ room = [c \in Conn |-> NoCode]
    /\ host = [k \in Code |-> NoConn]

\* c comes with the code k of a room that is not there.
OpenRoom(c, k) ==
    /\ room[c] = NoCode
    /\ MembersOf(k) = {}
    /\ invite' = [invite EXCEPT ![c] = k]
    /\ room' = [room EXCEPT ![c] = k]
    /\ host' = [host EXCEPT ![k] = c]

\* c comes with the code k of a room that is there.
JoinRoom(c, k) ==
    /\ room[c] = NoCode
    /\ MembersOf(k) # {}
    /\ invite' = [invite EXCEPT ![c] = k]
    /\ room' = [room EXCEPT ![c] = k]
    /\ UNCHANGED host

\* c leaves; a room nobody is left in has no owner.
LeaveRoom(c) ==
    /\ room[c] # NoCode
    /\ invite' = [invite EXCEPT ![c] = NoCode]
    /\ room' = [room EXCEPT ![c] = NoCode]
    /\ host' = IF MembersOf(room[c]) = {c}
               THEN [host EXCEPT ![room[c]] = NoConn] ELSE host

\* The owner closes the room k, of which it is a member.
CloseRoom(k) ==
    /\ host[k] \in MembersOf(k)
    /\ invite' = [c \in Conn |-> IF room[c] = k THEN NoCode ELSE invite[c]]
    /\ room' = [c \in Conn |-> IF room[c] = k THEN NoCode ELSE room[c]]
    /\ host' = [host EXCEPT ![k] = NoConn]

RoomsNext ==
    \/ \E c \in Conn, k \in Code : OpenRoom(c, k) \/ JoinRoom(c, k)
    \/ \E c \in Conn : LeaveRoom(c)
    \/ \E k \in Code : CloseRoom(k)

RoomsSpec == RoomsInit /\ [][RoomsNext]_roomVars
=============================================================================
