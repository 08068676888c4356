-------------------------------- MODULE Setup --------------------------------
(***************************************************************************)
(* SetupRule::run with its ParameterVisitor (lib/translator/translator.cpp):*)
(* before the rules of a game its owner is asked for the parameters of the *)
(* configuration, one by one.  Every prompt polls for ever; nothing asks   *)
(* the callbacks.                                                          *)
(***************************************************************************)
EXTENDS Players

CONSTANTS
    Owner,          \* the player whose connection is game_owner
    Games           \* the configurations: records with the fields setup, a
                    \* sequence of Parameter; script, see Inputs; and texts, the
                    \* bound: how many texts are typed at each connection

(***************************************************************************)
(* A parameter has a default, which typing nothing keeps, or it is a map   *)
(* with a prompt of its own (asked).  The last two kinds are always asked. *)
(***************************************************************************)
Kinds == {"boolean", "integer", "string", "question-answer", "multiple-choice"}
Parameter == {k \in [kind : Kinds, asked : BOOLEAN] :
                 k.kind \in {"question-answer", "multiple-choice"} => k.asked}
Stages == {"value", "question", "answer", "choice", "correct"}

\* The largest number of type size_t, here 2^16 - 1.  No list is longer, and
\* std::stoul throws at numbers beyond it: such a text is a Word.
MaxSize == 65535

ASSUME SetupAssumption ==
    /\ Owner \in Player
    /\ Says \subseteq 0..MaxSize \cup {Empty, Word}
    /\ \A g \in Games : g.setup \in Seq(Parameter) /\ g.texts \in [Player -> 0..MaxSize]

VARIABLES
    game,           \* the Configuration that is played
    stage,          \* what is awaited of the parameter being asked for
    questions,      \* the questions of this parameter so far: how many choices
                    \* each has and which is correct, 0 and 0 for a plain one
    choices,        \* how many choices the present question has
    parameters      \* ParameterVisitor::parameters: for each parameter the
                    \* value it has been given

setupVars == <<game, stage, questions, choices, parameters>>

Asking == Len(parameters) < Len(game.setup)
Current == game.setup[Len(parameters) + 1]
FirstStage(setup, i) ==
    IF i <= Len(setup) /\ setup[i].kind \in {"question-answer", "multiple-choice"}
    THEN "question" ELSE "value"

\* What becomes of a parameter: where the value is from, what it is, and the
\* questions of a list of questions.
Value == [from : {"default", "typed"}, says : Says \cup {Empty},
          by : Person, questions : Seq([choices : Nat, correct : Nat])]

SetupTypeOK ==
    /\ game \in Games
    /\ stage \in Stages
    /\ questions \in Seq([choices : Nat, correct : Nat])
    /\ choices \in Nat
    /\ parameters \in Seq(Value) /\ Len(parameters) <= Len(game.setup)

SetupInit ==
    /\ game \in Games
    /\ stage = FirstStage(game.setup, 1)
    /\ questions = <<>>
    /\ choices = 0
    /\ parameters = <<>>

\* std::stoi, and comparison with "true" and "false".
Fits(kind, s) ==
    CASE kind = "boolean" -> s \in {1, 2}
      [] kind = "integer" -> s \in Nat
      [] OTHER -> s # Empty

(***************************************************************************)
(* std::stoul(input) - 1u is unsigned: the number 0 becomes the largest    *)
(* one, MaxSize, which no list has as an index.                            *)
(***************************************************************************)
Index(n) == (n + MaxSize) % (MaxSize + 1)

\* Faulty variants of Chosen and of Optional.
ChosenSigned(s, n) == s \in Nat /\ s - 1 < n
OptionalAlways(p) == TRUE

Chosen(s, n) == s \in Nat /\ Index(s) < n
Optional(p) == ~p.asked

-----------------------------------------------------------------------------
Given(v) ==
    /\ parameters' = Append(parameters, v)
    /\ stage' = FirstStage(game.setup, Len(parameters) + 2)
    /\ questions' = <<>>
    /\ choices' = 0
    /\ UNCHANGED game

\* The prompt at a stage has got a text: t is what its loop does with it.
SetupHears(at) == Asking /\ stage = at /\ Hears(Owner) /\ Receive(Owner)
Input == Head(inbox[Owner])
Ignored == UNCHANGED setupVars

\* receiveBoolean, receiveInteger, receiveString and the operators that call
\* them: nothing keeps the default, or is ignored if there is none.
TakeValue ==
    /\ SetupHears("value")
    /\ IF Input.says = Empty
       THEN IF Optional(Current)
            THEN Given([from |-> "default", says |-> Empty, by |-> Input.by,
                        questions |-> <<>>])
            ELSE Ignored
       ELSE IF Fits(Current.kind, Input.says)
            THEN Given([from |-> "typed", says |-> Input.says, by |-> Input.by,
                        questions |-> <<>>])
            ELSE Ignored

\* receiveQuestionAnswer, receiveMultipleChoice.  Nothing ends the list.
TakeQuestion ==
    /\ SetupHears("question")
    /\ IF Input.says = Empty
       THEN Given([from |-> "typed", says |-> Empty, by |-> Input.by,
                   questions |-> questions])
       ELSE /\ stage' = IF Current.kind = "question-answer" THEN "answer" ELSE "choice"
            /\ choices' = 0
            /\ UNCHANGED <<game, questions, parameters>>

EndQuestion(q) ==
    /\ questions' = Append(questions, q)
    /\ stage' = "question"
    /\ UNCHANGED <<game, choices, parameters>>

TakeAnswer ==
    /\ SetupHears("answer")
    /\ IF Input.says = Empty THEN Ignored
       ELSE EndQuestion([choices |-> 0, correct |-> 0])

\* Nothing ends the choices, of which there must be one.
TakeChoice ==
    /\ SetupHears("choice")
    /\ IF Input.says # Empty
       THEN choices' = choices + 1 /\ UNCHANGED <<game, stage, questions, parameters>>
       ELSE IF choices = 0 THEN Ignored
       ELSE stage' = "correct" /\ UNCHANGED <<game, questions, choices, parameters>>

TakeCorrect ==
    /\ SetupHears("correct")
    /\ IF Chosen(Input.says, choices)
       THEN EndQuestion([choices |-> choices, correct |-> Input.says])
       ELSE Ignored

SetupStep == TakeValue \/ TakeQuestion \/ TakeAnswer \/ TakeChoice \/ TakeCorrect

-----------------------------------------------------------------------------
(* Properties *)

\* The rules may rely on the parameters: an integer is a number, a parameter
\* without a default has been given a value, a question of a multiple choice
\* has choices and its correct choice is one of them.
FitsParameter(v, p) ==
    CASE p.kind = "question-answer" -> TRUE
      [] p.kind = "multiple-choice" ->
            \A i \in 1..Len(v.questions) : v.questions[i].correct \in 1..v.questions[i].choices
      [] OTHER -> \/ v.from = "typed" /\ Fits(p.kind, v.says)
                  \/ v.from = "default" /\ ~p.asked
ParametersFit ==
    \A i \in 1..Len(parameters) : FitsParameter(parameters[i], game.setup[i])
=============================================================================
