------------------------------- MODULE Players -------------------------------
(***************************************************************************)
(* The people of one game, as its thread meets them through Server::send   *)
(* and Server::receive (lib/networking/src/Server.cpp).                    *)
(*                                                                         *)
(* A game knows its players by name and keeps a copy of the table that     *)
(* gives each name a connection (GameState, translator.h).  A connection   *)
(* is called by that name here.  It is the address of a Channel: when the  *)
(* player has left, somebody new may be given the same one.                *)
(*                                                                         *)
(* A text is a number, a word or nothing; 1 and 2 also stand for the words *)
(* "true" and "false", and n for the name of the n-th candidate.           *)
(***************************************************************************)
EXTENDS Integers, FiniteSets, Sequences

CONSTANTS
    Player,         \* the names in the table
    Newcomer,       \* somebody who connects while the game runs
    Says            \* what people type

Empty == -1
Word == -2
Person == Player \cup {Newcomer}
Text == [by : Person, says : Says]

ASSUME PlayersAssumption ==
    /\ IsFiniteSet(Player) /\ Newcomer \notin Player
    /\ Says \subseteq Nat \cup {Empty, Word}

VARIABLES
    channels,       \* ServerImpl::channels: who is at each connection that is open
    inbox,          \* Channel::readBuffer of each
    mainWaits,      \* the main thread waits for the game, in onDisconnect
    typed,          \* how many texts were typed at each connection, for a bound
    gone            \* history: the players who have left

peopleVars == <<channels, inbox, mainWaits, typed, gone>>

Open == DOMAIN channels

PeopleTypeOK ==
    /\ Open \subseteq Player /\ channels \in [Open -> Person]
    /\ inbox \in [Player -> Seq(Text)]
    /\ mainWaits \in BOOLEAN
    /\ typed \in [Player -> Nat]
    /\ gone \subseteq Player

PeopleInit ==
    /\ channels = [p \in Player |-> p]
    /\ inbox = [p \in Player |-> <<>>]
    /\ mainWaits = FALSE
    /\ typed = [p \in Player |-> 0]
    /\ gone = {}

Type(p, s) ==
    /\ ~mainWaits /\ p \in Open
    /\ inbox' = [inbox EXCEPT ![p] = Append(@, [by |-> channels[p], says |-> s])]
    /\ typed' = [typed EXCEPT ![p] = @ + 1]
    /\ UNCHANGED <<channels, mainWaits, gone>>

\* Server::disconnect, when somebody else is in the session: the channel is
\* erased with what it has read.
Leave(p) ==
    /\ ~mainWaits /\ p \in Open /\ Open # {p}
    /\ channels' = [q \in Open \ {p} |-> channels[q]]
    /\ inbox' = [inbox EXCEPT ![p] = <<>>]
    /\ gone' = gone \cup {p}
    /\ UNCHANGED <<mainWaits, typed>>

\* When the last of the players leaves, onDisconnect waits for the game before
\* the channel is erased, and the main thread does nothing else.
LeaveLast(p) ==
    /\ ~mainWaits /\ p \in Open
    /\ \A q \in Open \ {p} : channels[q] = Newcomer
    /\ channels[p] = p
    /\ mainWaits' = TRUE
    /\ UNCHANGED <<channels, inbox, typed, gone>>

Arrive(p) ==
    /\ ~mainWaits /\ p \notin Open
    /\ \A q \in Open : channels[q] # Newcomer
    /\ channels' = [q \in Open \cup {p} |-> IF q = p THEN Newcomer ELSE channels[q]]
    /\ UNCHANGED <<inbox, mainWaits, typed, gone>>

People ==
    \E p \in Player :
        \/ \E s \in Says : Type(p, s)
        \/ Leave(p) \/ LeaveLast(p) \/ Arrive(p)

\* Server::receive, when there is something; it throws if p is not Open.
Hears(p) == p \in Open /\ inbox[p] # <<>>
Receive(p) ==
    /\ inbox' = [inbox EXCEPT ![p] = Tail(@)]
    /\ UNCHANGED <<channels, mainWaits, typed, gone>>
=============================================================================
