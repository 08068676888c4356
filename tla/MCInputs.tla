------------------------------- MODULE MCInputs -------------------------------
(***************************************************************************)
(* Configurations for Inputs, one for each kind of step.                   *)
(***************************************************************************)
EXTENDS Inputs, TLC

CONSTANTS p, q

\* 2 is the last of two choices, a candidate, and "false".
MCSays == {Empty, Word, 0, 2}

Param(kind, asked) == [kind |-> kind, asked |-> asked]
Do(kind, rules, lists, offers, timed) ==
    [kind |-> kind, rules |-> rules, lists |-> lists, offers |-> offers, timed |-> timed]

\* Every choice of a parallelfor, then a text from each.
Choose == <<Do("parallelfor", <<1, 1>>, <<<<p>>, <<q>>>>, 2, FALSE),
            Do("foreach", <<2>>, <<<<p, q>>>>, 0, FALSE)>>
\* Two foreach in branches.
Branch == <<Do("inparallel", <<1, 2>>, <<<<p, q>>, <<q>>>>, 2, FALSE)>>
\* A foreach in a timer, and the same rule again.
Timer == <<Do("foreach", <<1>>, <<<<p, q>>>>, 2, TRUE),
           Do("foreach", <<1>>, <<<<q>>>>, 2, FALSE)>>
\* The same vote twice.
Vote == <<Do("vote", <<1>>, <<<<p, q>>>>, 2, FALSE),
          Do("vote", <<1>>, <<<<q>>>>, 2, FALSE)>>

Game(setup, script, n, m) ==
    [setup |-> setup, script |-> script, texts |-> (p :> n) @@ (q :> m)]
MCGames ==
    {Game(<<>>, Choose, 1, 1), Game(<<>>, Branch, 1, 2), Game(<<>>, Timer, 1, 1),
     Game(<<>>, Vote, 1, 2),
     Game(<<Param("boolean", FALSE), Param("integer", TRUE), Param("string", FALSE)>>,
          <<>>, 3, 0),
     Game(<<Param("multiple-choice", TRUE)>>, <<>>, 5, 0),
     Game(<<Param("question-answer", TRUE)>>, <<>>, 3, 0)}
=============================================================================
