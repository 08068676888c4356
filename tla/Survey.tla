-------------------------------- MODULE Survey --------------------------------
(***************************************************************************)
(* What the input rules of a game promise: a question is put to a player   *)
(* before it is answered, and is answered once.  A question is any value;  *)
(* the game may leave it unanswered.                                       *)
(***************************************************************************)
CONSTANTS Questions, Answer

VARIABLES
    put,            \* the questions that have been put to somebody
    answers         \* the answers, a function on those that have one

SurveyInit == put = {} /\ DOMAIN answers = {}

\* One question, or one to several players at once.
Put ==
    /\ put' # put /\ put \subseteq put' /\ put' \ put \subseteq Questions
    /\ UNCHANGED answers

Reply ==
    /\ \E q \in put \ DOMAIN answers :
          /\ DOMAIN answers' = DOMAIN answers \cup {q}
          /\ answers'[q] \in Answer
    /\ \A q \in DOMAIN answers : answers'[q] = answers[q]
    /\ UNCHANGED put

SurveySpec == SurveyInit /\ [][Put \/ Reply]_<<put, answers>>
=============================================================================
