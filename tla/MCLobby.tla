------------------------------- MODULE MCLobby -------------------------------
(***************************************************************************)
(* Small instances of Lobby for TLC.  Three games to choose from: duel is  *)
(* for two players, solo for one, party for one or two.                    *)
(***************************************************************************)
EXTENDS Lobby, TLC

CONSTANTS duel, solo, party

MCMinPlayers == [g \in Game |-> IF g = duel THEN 2 ELSE 1]
MCMaxPlayers == [g \in Game |-> IF g = solo THEN 1 ELSE 2]

\* Connections, codes, sessions and threads are alike.
Symmetry == Permutations(Conn) \cup Permutations(Code) \cup Permutations(Session)
                \cup Permutations(Thread)
=============================================================================
