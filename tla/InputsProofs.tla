----------------------------- MODULE InputsProofs -----------------------------
(***************************************************************************)
(* Proofs about Inputs, for every set of players and every configuration,  *)
(* whatever its steps.                                                     *)
(***************************************************************************)
EXTENDS Inputs, FiniteSetTheorems, TLAPS

\* What waits at a connection was typed by the player of that name, or the
\* player has left.
InboxOwn ==
    \A p \in Player : \A i \in 1..Len(inbox[p]) : inbox[p][i].by = p \/ p \in gone
\* A player who has not left is at the connection of that name.
ChannelsOwn == \A p \in Player : p \in gone \/ (p \in Open /\ channels[p] = p)

\* The connection an input has taken into its local variable is that of the
\* element the answer will be stored for.
HeardIsAsked ==
    /\ DOMAIN element = 1..Cardinality(Player)
    /\ phase = "polling" => player = element[Name(turn)]

PeopleInv == PeopleTypeOK /\ InboxOwn /\ ChannelsOwn
OwnInv == PeopleInv /\ SetupTypeOK /\ HeardIsAsked /\ AnswersAreOwn

-----------------------------------------------------------------------------
(* Sequences *)

LEMMA EmptyIsSeq == ASSUME NEW T PROVE <<>> \in Seq(T)
  OBVIOUS

LEMMA OneMore ==
  ASSUME NEW T, NEW s \in Seq(T), NEW x \in T
  PROVE  /\ Append(s, x) \in Seq(T)
         /\ Len(Append(s, x)) = Len(s) + 1
         /\ Len(s) \in Nat
         /\ \A i \in 1..Len(Append(s, x)) :
                Append(s, x)[i] = x \/ (i \in 1..Len(s) /\ Append(s, x)[i] = s[i])
  OBVIOUS

LEMMA OneLess ==
  ASSUME NEW T, NEW s \in Seq(T), s # <<>>
  PROVE  /\ Tail(s) \in Seq(T) /\ Head(s) \in T
         /\ Head(s) = s[1] /\ 1 \in 1..Len(s)
         /\ \A i \in 1..Len(Tail(s)) : i + 1 \in 1..Len(s) /\ Tail(s)[i] = s[i + 1]
  OBVIOUS

-----------------------------------------------------------------------------
(* The people *)

\* Whatever the people do, nobody else's text gets to the connection of a
\* player who is there.
LEMMA PeopleKeep ==
  ASSUME PeopleInv, People
  PROVE  PeopleInv' /\ gone \subseteq gone'
<1>1. /\ Open \subseteq Player /\ channels \in [Open -> Person]
      /\ inbox \in [Player -> Seq(Text)] /\ mainWaits \in BOOLEAN
      /\ typed \in [Player -> Nat] /\ gone \subseteq Player
  BY DEF PeopleInv, PeopleTypeOK
<1>2. ASSUME NEW p \in Player, NEW s \in Says, Type(p, s) PROVE PeopleInv' /\ gone' = gone
  <2> DEFINE t == [by |-> channels[p], says |-> s]
  <2>1. p \in Open /\ t \in Text /\ inbox[p] \in Seq(Text)
    BY <1>1, <1>2 DEF Type, Text
  <2>2. t.by = p \/ p \in gone
    BY <2>1 DEF PeopleInv, ChannelsOwn
  <2>3. inbox' = [inbox EXCEPT ![p] = Append(inbox[p], t)]
        /\ typed' = [typed EXCEPT ![p] = @ + 1]
        /\ UNCHANGED <<channels, mainWaits, gone>> /\ Open' = Open
    BY <1>2 DEF Type, Open
  <2> HIDE DEF t
  <2>4. Append(inbox[p], t) \in Seq(Text)
    BY <2>1, OneMore
  <2>5. PeopleTypeOK'
    BY <1>1, <2>3, <2>4 DEF PeopleTypeOK
  <2>6. InboxOwn'
    <3>1. \A i \in 1..Len(Append(inbox[p], t)) : Append(inbox[p], t)[i].by = p \/ p \in gone
      BY <2>1, <2>2, OneMore DEF PeopleInv, InboxOwn
    <3> QED
      BY <1>1, <2>3, <3>1 DEF PeopleInv, InboxOwn
  <2>7. ChannelsOwn'
    BY <2>3 DEF PeopleInv, ChannelsOwn
  <2> QED
    BY <2>3, <2>5, <2>6, <2>7 DEF PeopleInv
<1>3. ASSUME NEW p \in Player, Leave(p) PROVE PeopleInv' /\ gone \subseteq gone'
  <2>1. /\ channels' = [q \in Open \ {p} |-> channels[q]]
        /\ inbox' = [inbox EXCEPT ![p] = <<>>] /\ gone' = gone \cup {p}
        /\ UNCHANGED <<mainWaits, typed>> /\ Open' = Open \ {p}
    BY <1>3 DEF Leave, Open
  <2>2. PeopleTypeOK'
    BY <1>1, <2>1, EmptyIsSeq DEF PeopleTypeOK
  <2>3. InboxOwn' /\ ChannelsOwn'
    BY <1>1, <2>1 DEF PeopleInv, InboxOwn, ChannelsOwn
  <2> QED
    BY <2>1, <2>2, <2>3 DEF PeopleInv
<1>4. ASSUME NEW p \in Player, LeaveLast(p) PROVE PeopleInv' /\ gone' = gone
  BY <1>1, <1>4 DEF LeaveLast, PeopleInv, PeopleTypeOK, InboxOwn, ChannelsOwn, Open
<1>5. ASSUME NEW p \in Player, Arrive(p) PROVE PeopleInv' /\ gone' = gone
  <2>1. /\ channels' = [q \in Open \cup {p} |-> IF q = p THEN Newcomer ELSE channels[q]]
        /\ UNCHANGED <<inbox, mainWaits, typed, gone>> /\ Open' = Open \cup {p}
    BY <1>5 DEF Arrive, Open
  <2>2. PeopleTypeOK'
    BY <1>1, <2>1 DEF PeopleTypeOK, Person
  <2>3. InboxOwn' /\ ChannelsOwn'
    BY <1>1, <1>5, <2>1 DEF PeopleInv, InboxOwn, ChannelsOwn, Arrive
  <2> QED
    BY <2>1, <2>2, <2>3 DEF PeopleInv
<1> QED
  BY <1>2, <1>3, <1>4, <1>5 DEF People

\* Server::receive returns a text of the player who is asked.
LEMMA ReceiveKeeps ==
  ASSUME PeopleInv, NEW p, Hears(p), Receive(p)
  PROVE  /\ PeopleInv' /\ gone' = gone
         /\ p \in Player /\ Head(inbox[p]) \in Text
         /\ Head(inbox[p]).by = p \/ p \in gone
<1>1. p \in Player /\ inbox \in [Player -> Seq(Text)] /\ inbox[p] # <<>>
  BY DEF PeopleInv, PeopleTypeOK, Hears
<1>2. inbox[p] \in Seq(Text)
  BY <1>1
<1>3. /\ Tail(inbox[p]) \in Seq(Text) /\ Head(inbox[p]) \in Text
      /\ Head(inbox[p]) = inbox[p][1] /\ 1 \in 1..Len(inbox[p])
      /\ \A i \in 1..Len(Tail(inbox[p])) :
            i + 1 \in 1..Len(inbox[p]) /\ Tail(inbox[p])[i] = inbox[p][i + 1]
  BY <1>1, <1>2, OneLess
<1>4. /\ inbox' = [inbox EXCEPT ![p] = Tail(inbox[p])]
      /\ UNCHANGED <<channels, mainWaits, typed, gone>>
  BY DEF Receive
<1>5. PeopleTypeOK'
  BY <1>1, <1>3, <1>4 DEF PeopleInv, PeopleTypeOK, Open
<1>6. \A i \in 1..Len(Tail(inbox[p])) : Tail(inbox[p])[i].by = p \/ p \in gone
  BY <1>1, <1>3 DEF PeopleInv, InboxOwn
<1>7. InboxOwn'
  BY <1>1, <1>4, <1>6 DEF PeopleInv, InboxOwn
<1>8. ChannelsOwn'
  BY <1>4 DEF PeopleInv, ChannelsOwn, Open
<1>9. Head(inbox[p]).by = p \/ p \in gone
  BY <1>1, <1>3 DEF PeopleInv, InboxOwn
<1> QED
  BY <1>1, <1>3, <1>4, <1>5, <1>7, <1>8, <1>9 DEF PeopleInv

LEMMA PeopleStay ==
  ASSUME PeopleInv, UNCHANGED peopleVars
  PROVE  PeopleInv' /\ gone' = gone
BY DEF PeopleInv, PeopleTypeOK, InboxOwn, ChannelsOwn, Open, peopleVars

-----------------------------------------------------------------------------
(* The setup *)

LEMMA FirstStageTyped ==
  ASSUME NEW setup, NEW i PROVE FirstStage(setup, i) \in {"question", "value"}
BY DEF FirstStage

ParametersOwn ==
    \A i \in 1..Len(parameters) : parameters[i].by = Owner \/ Owner \in gone

\* A parameter gets its value.
LEMMA GivenKeeps ==
  ASSUME SetupTypeOK, ParametersOwn, Asking, gone' = gone, NEW v \in Value,
         v.by = Owner \/ Owner \in gone, Given(v)
  PROVE  SetupTypeOK' /\ ParametersOwn'
<1>1. /\ parameters \in Seq(Value) /\ game \in Games /\ stage \in Stages
      /\ Len(parameters) < Len(game.setup)
  BY DEF SetupTypeOK, Asking
<1>2. game.setup \in Seq(Parameter)
  BY <1>1, SetupAssumption
<1>3. Len(game.setup) \in Nat
  BY ONLY <1>2
<1>4. /\ Append(parameters, v) \in Seq(Value)
      /\ Len(Append(parameters, v)) = Len(parameters) + 1 /\ Len(parameters) \in Nat
      /\ \A i \in 1..Len(Append(parameters, v)) :
            Append(parameters, v)[i] = v
              \/ (i \in 1..Len(parameters) /\ Append(parameters, v)[i] = parameters[i])
  <2> HIDE DEF Value
  <2> QED
    BY <1>1, OneMore
<1>5. /\ parameters' = Append(parameters, v) /\ game' = game
      /\ stage' = FirstStage(game.setup, Len(parameters) + 2)
      /\ questions' = <<>> /\ choices' = 0
  BY DEF Given
<1>6. stage' \in Stages
  BY <1>5, FirstStageTyped DEF Stages
<1>7. questions' \in Seq([choices : Nat, correct : Nat])
  BY <1>5, EmptyIsSeq
<1>8. SetupTypeOK'
  BY <1>1, <1>3, <1>4, <1>5, <1>6, <1>7 DEF SetupTypeOK
<1>9. ParametersOwn'
  BY <1>4, <1>5 DEF ParametersOwn
<1> QED
  BY <1>8, <1>9

LEMMA SetupKeeps ==
  ASSUME PeopleInv, SetupTypeOK, ParametersOwn, SetupStep
  PROVE  PeopleInv' /\ gone' = gone /\ SetupTypeOK' /\ ParametersOwn'
<1>1. Asking /\ Hears(Owner) /\ Receive(Owner)
  BY DEF SetupStep, TakeValue, TakeQuestion, TakeAnswer, TakeChoice, TakeCorrect, SetupHears
<1>2. /\ PeopleInv' /\ gone' = gone
      /\ Input \in Text /\ (Input.by = Owner \/ Owner \in gone)
  BY <1>1, ReceiveKeeps DEF Input
<1>3. Input.says \in Says /\ Input.by \in Person
  BY <1>2 DEF Text
<1>4. /\ game \in Games /\ stage \in Stages /\ choices \in Nat
      /\ questions \in Seq([choices : Nat, correct : Nat])
      /\ parameters \in Seq(Value) /\ Len(parameters) <= Len(game.setup)
  BY DEF SetupTypeOK
<1>5. CASE Ignored
  BY <1>2, <1>5 DEF Ignored, setupVars, SetupTypeOK, ParametersOwn
<1>6. ASSUME NEW from \in {"default", "typed"}, NEW says \in Says \cup {Empty},
             NEW qs \in Seq([choices : Nat, correct : Nat]),
             Given([from |-> from, says |-> says, by |-> Input.by, questions |-> qs])
      PROVE  SetupTypeOK' /\ ParametersOwn'
  <2> DEFINE v == [from |-> from, says |-> says, by |-> Input.by, questions |-> qs]
  <2>1. v \in Value
    BY <1>3 DEF Value
  <2>2. v.by = Owner \/ Owner \in gone
    BY <1>2
  <2>3. Given(v)
    BY <1>6
  <2> HIDE DEF v
  <2> QED
    BY <1>1, <1>2, <2>1, <2>2, <2>3, GivenKeeps
<1>7. ASSUME NEW q \in [choices : Nat, correct : Nat], EndQuestion(q)
      PROVE  SetupTypeOK' /\ ParametersOwn'
  <2>1. Append(questions, q) \in Seq([choices : Nat, correct : Nat])
    BY <1>4, OneMore
  <2> QED
    BY <1>2, <1>4, <1>7, <2>1 DEF EndQuestion, SetupTypeOK, ParametersOwn, Stages
<1>8. CASE TakeValue
  <2>1. <<>> \in Seq([choices : Nat, correct : Nat])
    BY EmptyIsSeq
  <2>2. \/ Ignored
        \/ Given([from |-> "default", says |-> Empty, by |-> Input.by, questions |-> <<>>])
        \/ Given([from |-> "typed", says |-> Input.says, by |-> Input.by,
                  questions |-> <<>>])
    BY <1>8 DEF TakeValue
  <2>3. SetupTypeOK' /\ ParametersOwn'
    BY <1>3, <1>5, <1>6, <2>1, <2>2
  <2> QED
    BY <1>2, <2>3
<1>9. CASE TakeQuestion
  <2>1. CASE Input.says = Empty
    <3>1. Given([from |-> "typed", says |-> Empty, by |-> Input.by,
                 questions |-> questions])
      BY <1>9, <2>1 DEF TakeQuestion
    <3>2. SetupTypeOK' /\ ParametersOwn'
      BY <1>4, <1>6, <3>1
    <3> QED
      BY <1>2, <3>2
  <2>2. CASE Input.says # Empty
    <3>1. /\ stage' \in Stages /\ choices' = 0
          /\ UNCHANGED <<game, questions, parameters>>
      BY <1>9, <2>2 DEF TakeQuestion, Stages
    <3> QED
      BY <1>2, <1>4, <3>1 DEF SetupTypeOK, ParametersOwn
  <2> QED
    BY <2>1, <2>2
<1>10. CASE TakeAnswer
  <2>1. [choices |-> 0, correct |-> 0] \in [choices : Nat, correct : Nat]
    OBVIOUS
  <2>2. Ignored \/ EndQuestion([choices |-> 0, correct |-> 0])
    BY <1>10 DEF TakeAnswer
  <2>3. SetupTypeOK' /\ ParametersOwn'
    BY <1>5, <1>7, <2>1, <2>2
  <2> QED
    BY <1>2, <2>3
<1>11. CASE TakeChoice
  <2>1. \/ Ignored
        \/ choices' = choices + 1 /\ UNCHANGED <<game, stage, questions, parameters>>
        \/ stage' = "correct" /\ UNCHANGED <<game, questions, choices, parameters>>
    BY <1>11 DEF TakeChoice
  <2> QED
    BY <1>2, <1>4, <1>5, <2>1 DEF SetupTypeOK, ParametersOwn, Stages
<1>12. CASE TakeCorrect
  <2>1. CASE Chosen(Input.says, choices)
    <3>1. [choices |-> choices, correct |-> Input.says] \in [choices : Nat, correct : Nat]
      BY <1>4, <2>1 DEF Chosen
    <3>2. EndQuestion([choices |-> choices, correct |-> Input.says])
      BY <1>12, <2>1 DEF TakeCorrect
    <3>3. SetupTypeOK' /\ ParametersOwn'
      BY <1>7, <3>1, <3>2
    <3> QED
      BY <1>2, <3>3
  <2>2. CASE ~Chosen(Input.says, choices)
    BY <1>5, <1>12, <2>2 DEF TakeCorrect
  <2> QED
    BY <2>1, <2>2
<1> QED
  BY <1>8, <1>9, <1>10, <1>11, <1>12 DEF SetupStep

-----------------------------------------------------------------------------
(* The inputs *)

\* What is stored for a question was typed by the one it was put to.
OwnAnswer(q, v) == v.from = "typed" => v.by = q[3] \/ q[3] \in gone

LEMMA OwnIs ==
  AnswersAreOwn <=> ParametersOwn /\ \A q \in DOMAIN answers : OwnAnswer(q, answers[q])
BY DEF AnswersAreOwn, ParametersOwn, OwnAnswer

\* A step that stores nothing, and does not go on to another branch.
LEMMA NothingStored ==
  ASSUME OwnInv, PeopleInv', gone \subseteq gone',
         UNCHANGED <<setupVars, element, player, answers>>,
         phase' # "polling" \/ UNCHANGED <<phase, turn, at>>
  PROVE  OwnInv'
<1>1. SetupTypeOK'
  BY DEF OwnInv, SetupTypeOK, setupVars
<1>2. AnswersAreOwn'
  BY DEF OwnInv, AnswersAreOwn, setupVars
<1>3. HeardIsAsked'
  BY DEF OwnInv, HeardIsAsked, Name, Step, setupVars
<1> QED
  BY <1>1, <1>2, <1>3 DEF OwnInv

\* An answer of its own is stored for q.
LEMMA OneStored ==
  ASSUME OwnInv, PeopleInv', gone' = gone, NEW q, NEW v, OwnAnswer(q, v),
         answers' = [r \in DOMAIN answers \cup {q} |-> IF r = q THEN v ELSE answers[r]],
         UNCHANGED <<setupVars, element, player>>, phase' # "polling"
  PROVE  OwnInv'
<1>1. SetupTypeOK' /\ HeardIsAsked'
  BY DEF OwnInv, SetupTypeOK, setupVars, HeardIsAsked
<1>2. ASSUME NEW r \in DOMAIN answers' PROVE OwnAnswer(r, answers'[r])
  <2>1. DOMAIN answers' = DOMAIN answers \cup {q}
    OBVIOUS
  <2>2. CASE r = q
    BY <2>1, <2>2
  <2>3. CASE r # q
    <3>1. r \in DOMAIN answers /\ answers'[r] = answers[r]
      BY <2>1, <2>3
    <3> QED
      BY <3>1, OwnIs DEF OwnInv
  <2> QED
    BY <2>2, <2>3
<1>3. ParametersOwn'
  BY OwnIs DEF OwnInv, ParametersOwn, setupVars
<1>4. AnswersAreOwn'
  BY <1>2, <1>3 DEF AnswersAreOwn, ParametersOwn, OwnAnswer
<1> QED
  BY <1>1, <1>4 DEF OwnInv

\* There is somebody, so that branch 1 has an element.
LEMMA SomePlayers == Cardinality(Player) \in Nat /\ 1 \in 1..Cardinality(Player)
<1>1. Cardinality(Player) \in Nat
  BY PlayersAssumption, FS_CardinalityType
<1>2. Cardinality(Player) # 0
  BY PlayersAssumption, SetupAssumption, FS_EmptySet
<1> QED
  BY <1>1, <1>2

LEMMA BeginTurnKeeps ==
  ASSUME OwnInv, NEW b \in 1..Cardinality(Player), BeginTurn(b)
  PROVE  OwnInv'
<1>1. /\ element' = [element EXCEPT ![Name(b)] = For(b)]
      /\ player' = For(b) /\ turn' = b /\ at' = at
      /\ UNCHANGED <<peopleVars, setupVars, answers>>
  BY DEF BeginTurn
<1>2. Name(b) \in 1..Cardinality(Player)
  BY SomePlayers DEF Name
<1>3. Name(b)' = Name(b)
  BY <1>1 DEF Name, Step, setupVars
<1>4. HeardIsAsked'
  <2>1. Name(turn)' = Name(b)
    BY <1>1, <1>3 DEF Name
  <2>2. DOMAIN element' = 1..Cardinality(Player) /\ element'[Name(b)] = For(b)
    BY <1>1, <1>2 DEF OwnInv, HeardIsAsked
  <2> QED
    BY <1>1, <2>1, <2>2 DEF HeardIsAsked
<1>5. PeopleInv' /\ gone' = gone
  BY <1>1, PeopleStay DEF OwnInv
<1>6. SetupTypeOK' /\ AnswersAreOwn'
  BY <1>1, <1>5 DEF OwnInv, SetupTypeOK, AnswersAreOwn, setupVars
<1> QED
  BY <1>4, <1>5, <1>6 DEF OwnInv

\* The text is from the connection of the player it is stored for.
LEMMA AcceptKeeps ==
  ASSUME OwnInv, Accept
  PROVE  OwnInv'
<1> DEFINE t == Head(inbox[player])
           q == Question(turn, element[Name(turn)])
           v == [from |-> "typed", says |-> t.says, by |-> t.by, offers |-> Step.offers]
<1>1. phase = "polling" /\ Hears(player) /\ Receive(player) /\ Store(v)
  BY DEF Accept, Running, HeardFrom
<1>2. PeopleInv' /\ gone' = gone /\ (t.by = player \/ player \in gone)
  BY <1>1, ReceiveKeeps DEF OwnInv
<1>3. player = element[Name(turn)]
  BY <1>1 DEF OwnInv, HeardIsAsked
<1>4. q[3] = player
  BY <1>3 DEF Question
<1>5. OwnAnswer(q, v)
  BY <1>2, <1>4 DEF OwnAnswer
<1>6. /\ answers' = [r \in DOMAIN answers \cup {q} |-> IF r = q THEN v ELSE answers[r]]
      /\ UNCHANGED <<setupVars, element, player>> /\ phase' # "polling"
  BY <1>1 DEF Store
<1> HIDE DEF q, v, t
<1> QED
  BY <1>2, <1>5, <1>6, OneStored

LEMMA TimeOutKeeps ==
  ASSUME OwnInv, TimeOut
  PROVE  OwnInv'
<1> DEFINE q == Question(turn, element[Name(turn)])
           v == [from |-> "default", offers |-> Step.offers]
<1>1. Store(v) /\ UNCHANGED peopleVars
  BY DEF TimeOut
<1>2. PeopleInv' /\ gone' = gone
  BY <1>1, PeopleStay DEF OwnInv
<1>3. OwnAnswer(q, v)
  BY DEF OwnAnswer
<1>4. /\ answers' = [r \in DOMAIN answers \cup {q} |-> IF r = q THEN v ELSE answers[r]]
      /\ UNCHANGED <<setupVars, element, player>> /\ phase' # "polling"
  BY <1>1 DEF Store
<1> HIDE DEF q, v
<1> QED
  BY <1>2, <1>3, <1>4, OneStored

LEMMA CountKeeps ==
  ASSUME OwnInv, Count
  PROVE  OwnInv'
<1> DEFINE t == Head(inbox[Polled])
           q == Question(1, Polled)
           v == [from |-> "typed", says |-> t.says, by |-> t.by, offers |-> Step.offers]
<1>1. phase = "voting" /\ Hears(Polled) /\ Receive(Polled)
  BY DEF Count, Polling
<1>2. PeopleInv' /\ gone' = gone /\ (t.by = Polled \/ Polled \in gone)
  BY <1>1, ReceiveKeeps DEF OwnInv
<1>3. q[3] = Polled
  BY DEF Question
<1>4. OwnAnswer(q, v)
  BY <1>2, <1>3 DEF OwnAnswer
<1>5. /\ answers' = [r \in DOMAIN answers \cup {q} |-> IF r = q THEN v ELSE answers[r]]
      /\ UNCHANGED <<setupVars, element, player, phase>>
  BY DEF Count
<1> HIDE DEF q, v, t
<1> QED
  BY <1>1, <1>2, <1>4, <1>5, OneStored

\* The steps that receive a text and throw it away, or receive nothing.
LEMMA OthersKeep ==
  ASSUME OwnInv,
         \/ EndSetup \/ SetupThrows \/ PromptThrows \/ Refuse \/ FindNothing \/ CutOff
         \/ PollThrows \/ TimeOutThrows \/ EndStep \/ Ballot \/ BallotThrows
         \/ Crop \/ List \/ ListThrows \/ Reject \/ VoteThrows \/ EndVote
         \/ (\E k \in Keys : Expire(k)) \/ OtherLooks \/ OtherCrops
  PROVE  OwnInv'
<1>1. PeopleInv
  BY DEF OwnInv
<1>2. ASSUME NEW i, Enter(i) PROVE phase' # "polling"
  BY <1>2 DEF Enter
<1>3. CASE SetupThrows \/ PromptThrows \/ PollThrows \/ TimeOutThrows
           \/ BallotThrows \/ VoteThrows
  <2>1. \E p : Throws(p)
    BY <1>3 DEF SetupThrows, PromptThrows, PollThrows, TimeOutThrows, BallotThrows, VoteThrows
  <2> QED
    BY <1>1, <2>1, PeopleStay, NothingStored DEF Throws, branchVars, resultVars
<1>4. CASE EndSetup \/ EndStep \/ EndVote
  BY <1>1, <1>2, <1>4, PeopleStay, NothingStored DEF EndSetup, EndStep, EndVote, resultVars
<1>5. CASE Refuse
  <2>1. /\ Hears(player) /\ Receive(player)
        /\ UNCHANGED <<setupVars, at, element, player, answers>>
        /\ phase' = "next" \/ UNCHANGED <<phase, turn>>
    BY <1>5 DEF Refuse, HeardFrom, Suspend, resultVars
  <2>2. PeopleInv' /\ gone' = gone
    BY <1>1, <2>1, ReceiveKeeps
  <2> QED
    BY <2>1, <2>2, NothingStored
<1>6. CASE FindNothing
  BY <1>1, <1>6, PeopleStay, NothingStored DEF FindNothing, Suspend, resultVars
<1>7. CASE CutOff
  <2>1. /\ UNCHANGED peopleVars \/ (Hears(player) /\ Receive(player))
        /\ UNCHANGED <<setupVars, element, player, answers>>
        /\ Enter(at + 1)
    BY <1>7 DEF CutOff, Hears, HeardFrom, resultVars
  <2>2. PeopleInv' /\ gone' = gone
    BY <1>1, <2>1, ReceiveKeeps, PeopleStay
  <2> QED
    BY <1>2, <2>1, <2>2, NothingStored
<1>8. CASE Ballot \/ Crop \/ List \/ ListThrows
  <2>1. /\ UNCHANGED <<peopleVars, setupVars, element, player, answers>>
        /\ phase' # "polling"
    BY <1>8 DEF Ballot, AfterLook, Crop, List, ListThrows, branchVars, resultVars
  <2> QED
    BY <1>1, <2>1, PeopleStay, NothingStored
<1>9. CASE Reject
  <2>1. /\ Hears(Polled) /\ Receive(Polled)
        /\ UNCHANGED <<setupVars, phase, at, branchVars, answers>>
    BY <1>9 DEF Reject, resultVars
  <2>2. PeopleInv' /\ gone' = gone
    BY <1>1, <2>1, ReceiveKeeps
  <2> QED
    BY <2>1, <2>2, NothingStored DEF branchVars
<1>10. CASE (\E k \in Keys : Expire(k)) \/ OtherLooks \/ OtherCrops
  <2>1. UNCHANGED <<peopleVars, setupVars, phase, at, turn, element, player, answers>>
    BY <1>10 DEF Expire, OtherLooks, OtherCrops, branchVars, resultVars
  <2> QED
    BY <1>1, <2>1, PeopleStay, NothingStored
<1> QED
  BY <1>3, <1>4, <1>5, <1>6, <1>7, <1>8, <1>9, <1>10

-----------------------------------------------------------------------------
LEMMA OwnInit == Init => OwnInv
<1> SUFFICES ASSUME Init PROVE OwnInv
  OBVIOUS
<1>1. PeopleInit /\ SetupInit /\ phase = "setup" /\ answers = <<>>
      /\ element = [n \in 1..Cardinality(Player) |-> Owner]
  BY DEF Init
<1>2. Open = Player
  BY <1>1 DEF PeopleInit, Open
<1>3. PeopleTypeOK
  <2>1. inbox \in [Player -> Seq(Text)]
    BY <1>1, EmptyIsSeq DEF PeopleInit
  <2> QED
    BY <1>1, <1>2, <2>1 DEF PeopleInit, PeopleTypeOK, Person
<1>4. InboxOwn /\ ChannelsOwn
  BY <1>1, <1>2 DEF PeopleInit, InboxOwn, ChannelsOwn
<1>5. SetupTypeOK
  <2>1. /\ questions = <<>> /\ parameters = <<>> /\ choices = 0 /\ game \in Games
        /\ stage = FirstStage(game.setup, 1)
    BY <1>1 DEF SetupInit
  <2>2. stage \in Stages
    BY <2>1, FirstStageTyped DEF Stages
  <2>3. questions \in Seq([choices : Nat, correct : Nat]) /\ parameters \in Seq(Value)
    BY <2>1, EmptyIsSeq
  <2>4. Len(parameters) <= Len(game.setup)
    <3>1. game.setup \in Seq(Parameter)
      BY <2>1, SetupAssumption
    <3>2. Len(game.setup) \in Nat
      BY ONLY <3>1
    <3> QED
      BY <2>1, <3>2
  <2> QED
    BY <2>1, <2>2, <2>3, <2>4 DEF SetupTypeOK
<1>6. HeardIsAsked
  BY <1>1 DEF HeardIsAsked
<1>7. AnswersAreOwn
  BY <1>1 DEF SetupInit, AnswersAreOwn
<1> QED
  BY <1>3, <1>4, <1>5, <1>6, <1>7 DEF OwnInv, PeopleInv

LEMMA OwnStep == OwnInv /\ [Next]_vars => OwnInv'
<1> SUFFICES ASSUME OwnInv, [Next]_vars PROVE OwnInv'
  OBVIOUS
<1>1. PeopleInv /\ SetupTypeOK /\ ParametersOwn
  BY OwnIs DEF OwnInv
<1>2. CASE SetupTakes
  <2>1. /\ SetupStep /\ phase = "setup" /\ UNCHANGED <<phase, element, answers>>
    BY <1>2 DEF SetupTakes, branchVars, resultVars
  <2>2. PeopleInv' /\ gone' = gone /\ SetupTypeOK' /\ ParametersOwn'
    BY <1>1, <2>1, SetupKeeps
  <2>3. AnswersAreOwn'
    BY <2>1, <2>2 DEF OwnInv, AnswersAreOwn, ParametersOwn
  <2>4. HeardIsAsked'
    BY <2>1 DEF OwnInv, HeardIsAsked
  <2> QED
    BY <2>2, <2>3, <2>4 DEF OwnInv
<1>3. CASE People /\ UNCHANGED <<setupVars, phase, at, branchVars, voteVars, resultVars>>
  <2>1. PeopleInv' /\ gone \subseteq gone'
    BY <1>1, <1>3, PeopleKeep
  <2> QED
    BY <1>3, <2>1, NothingStored DEF branchVars, resultVars
<1>4. CASE UNCHANGED vars
  BY <1>1, <1>4, PeopleStay, NothingStored DEF vars, branchVars, resultVars
<1>5. CASE Thread
  BY <1>2, <1>5, BeginTurnKeeps, AcceptKeeps, TimeOutKeeps, CountKeeps, OthersKeep
     DEF Thread
<1> QED
  BY <1>3, <1>4, <1>5, OthersKeep DEF Next, PollInVain

\* Whoever leaves, comes to the address of another, and types before being
\* asked: the answer stored for a player, in whatever branch, was typed by that
\* player, or the player has left (InputChoiceRule::run, InputTextRule::run,
\* InputVoteRule::run, and the prompts of the setup).
THEOREM AnswersStayOwn == Spec => []AnswersAreOwn
<1>1. OwnInv => AnswersAreOwn
  BY DEF OwnInv
<1> QED
  BY <1>1, OwnInit, OwnStep, PTL DEF Spec

-----------------------------------------------------------------------------
(* That no turn is lost, and how a vote finds its list *)

(***************************************************************************)
(* Somebody a branch goes over is still to come, is suspended, is being    *)
(* asked, or has answered.                                                 *)
(***************************************************************************)
Accounted(b, p) ==
    \/ p \in Range(left[b])
    \/ b \in waiting /\ p = ResumedFor(b)
    \/ phase = "polling" /\ b = turn /\ p = element[Name(b)]
    \/ Question(b, p) \in DOMAIN answers

AtStep == phase \notin {"setup", "ended", "crashed"}
AtVote == phase \in {"ballot", "cropping", "listing", "voting"}

StepInv ==
    /\ at <= Len(game.script)
    /\ left \in [Branches -> Seq(Player)]
    /\ waiting \subseteq DOMAIN element
    /\ phase = "polling" => turn \in DOMAIN element
    /\ AtVote => Step.kind = "vote" /\ waiting = {}
    /\ \A b \in Branches : \A p \in Range(Step.lists[b]) : Accounted(b, p)

AllAnswered(i) ==
    \A b \in DOMAIN game.script[i].lists : \A p \in Range(game.script[i].lists[b]) :
        <<i, game.script[i].rules[b], p>> \in DOMAIN answers
Past == \A i \in 1..(at - 1) : game.script[i].timed \/ AllAnswered(i)

TurnsInv ==
    /\ game \in Games /\ at \in Nat \ {0}
    /\ DOMAIN element = 1..Cardinality(Player)
    /\ phase = "setup" => at = 1
    /\ AtStep => StepInv
    /\ Past

-----------------------------------------------------------------------------
(* The script *)

LEMMA ScriptIs ==
  ASSUME NEW g \in Games
  PROVE  /\ g.script \in Seq(ScriptStep) /\ Len(g.script) \in Nat
         /\ \A i \in 1..Len(g.script) : LET s == g.script[i] IN
               /\ s \in ScriptStep
               /\ s.kind \in StepKinds /\ s.timed \in BOOLEAN
               /\ s.lists \in [DOMAIN s.lists -> Seq(Player)]
               /\ s.kind \in {"foreach", "vote"} => DOMAIN s.lists = {1}
               /\ s.kind = "parallelfor" =>
                     \A b \in DOMAIN s.lists : Range(s.lists[b]) = {s.lists[b][1]}
               /\ s.timed => s.kind = "foreach"
<1>1. g.script \in Seq(ScriptStep)
  BY InputsAssumption
<1>2. Len(g.script) \in Nat /\ \A i \in 1..Len(g.script) : g.script[i] \in ScriptStep
  <2> HIDE DEF ScriptStep
  <2> QED
    BY <1>1
<1>3. ASSUME NEW i \in 1..Len(g.script), NEW s, s = g.script[i]
      PROVE  /\ s \in ScriptStep
             /\ s.kind \in StepKinds /\ s.timed \in BOOLEAN
             /\ s.lists \in [DOMAIN s.lists -> Seq(Player)]
             /\ s.kind \in {"foreach", "vote"} => DOMAIN s.lists = {1}
             /\ s.kind = "parallelfor" =>
                   \A b \in DOMAIN s.lists : Range(s.lists[b]) = {s.lists[b][1]}
             /\ s.timed => s.kind = "foreach"
  <2>1. s \in ScriptStep
    BY <1>2, <1>3
  <2>2. /\ s.kind \in StepKinds /\ s.timed \in BOOLEAN /\ s.lists \in Seq(Seq(Player))
    BY <2>1 DEF ScriptStep
  <2>3. /\ s.kind \in {"foreach", "vote"} => Len(s.lists) = 1
        /\ s.kind = "parallelfor" => \A b \in 1..Len(s.lists) : Len(s.lists[b]) = 1
        /\ s.timed => s.kind = "foreach"
    BY <1>3, InputsAssumption
  <2>4. /\ DOMAIN s.lists = 1..Len(s.lists)
        /\ s.lists \in [1..Len(s.lists) -> Seq(Player)]
    <3> DEFINE T == Seq(Player)
               l == s.lists
    <3>1. l \in Seq(T)
      BY <2>2
    <3> HIDE DEF T, l
    <3>2. DOMAIN l = 1..Len(l) /\ l \in [1..Len(l) -> T]
      BY ONLY <3>1
    <3> QED
      BY <3>2 DEF T, l
  <2>5. ASSUME NEW b \in DOMAIN s.lists, s.kind = "parallelfor"
        PROVE  Range(s.lists[b]) = {s.lists[b][1]}
    <3>1. s.lists[b] \in Seq(Player) /\ Len(s.lists[b]) = 1
      BY <2>3, <2>4, <2>5
    <3>2. DOMAIN s.lists[b] = {1}
      BY ONLY <3>1
    <3> QED
      BY <3>2 DEF Range
  <2>6. 1..1 = {1}
    OBVIOUS
  <2> QED
    BY <2>1, <2>2, <2>3, <2>4, <2>5, <2>6
<1> QED
  BY <1>1, <1>2, <1>3

\* Taking the first of a sequence leaves the others.
LEMMA HeadOrTail ==
  ASSUME NEW s \in Seq(Player), s # <<>>
  PROVE  /\ Tail(s) \in Seq(Player)
         /\ \A p \in Range(s) : p = Head(s) \/ p \in Range(Tail(s))
<1>1. Tail(s) \in Seq(Player)
  OBVIOUS
<1>2. ASSUME NEW i \in DOMAIN s
      PROVE  s[i] = Head(s) \/ \E j \in DOMAIN Tail(s) : s[i] = Tail(s)[j]
  <2>1. CASE i = 1
    BY <2>1
  <2>2. CASE i # 1
    <3>1. i - 1 \in DOMAIN Tail(s) /\ Tail(s)[i - 1] = s[i]
      BY <2>2
    <3> QED
      BY <3>1
  <2> QED
    BY <2>1, <2>2
<1> QED
  BY <1>1, <1>2 DEF Range

LEMMA NobodyIn == Range(<<>>) = {}
BY DEF Range

-----------------------------------------------------------------------------
(* Steps *)

\* A step that does not touch the branches and the answers.
LEMMA NothingMoves ==
  ASSUME TurnsInv, UNCHANGED <<game, phase, at, left, waiting, turn, element, answers>>
  PROVE  TurnsInv'
BY DEF TurnsInv, AtStep, AtVote, StepInv, Branches, Step, Accounted, ResumedFor, Name,
       Question, Past, AllAnswered

LEMMA CrashKeeps ==
  ASSUME TurnsInv, UNCHANGED <<game, at, element, answers>>, phase' = "crashed"
  PROVE  TurnsInv'
BY DEF TurnsInv, AtStep, Past, AllAnswered

\* The branches begin with all their players.
LEMMA EnterKeeps ==
  ASSUME TurnsInv, Enter(at + 1), UNCHANGED <<game, element>>,
         DOMAIN answers \subseteq DOMAIN answers',
         AtStep, Step.timed \/ AllAnswered(at)
  PROVE  TurnsInv'
<1>1. /\ game \in Games /\ at \in Nat \ {0} /\ at' = at + 1
      /\ waiting' = {} /\ phase' \in {"ended", "ballot", "next"}
  BY DEF TurnsInv, Enter
<1>2. Past'
  <2>1. ASSUME NEW i \in 1..at PROVE game.script[i].timed \/ AllAnswered(i)
    <3>1. CASE i = at
      BY <3>1 DEF Step
    <3>2. CASE i # at
      BY <1>1, <3>2 DEF TurnsInv, Past
    <3> QED
      BY <3>1, <3>2
  <2> QED
    BY <1>1, <2>1 DEF Past, AllAnswered
<1>3. AtStep' => StepInv'
  <2> SUFFICES ASSUME AtStep' PROVE StepInv'
    OBVIOUS
  <2>1. Len(game.script) \in Nat
    BY <1>1, ScriptIs
  <2>2. /\ at' <= Len(game.script) /\ at' \in 1..Len(game.script)
        /\ left' = game.script[at'].lists
        /\ phase' = IF game.script[at'].kind = "vote" THEN "ballot" ELSE "next"
    BY <1>1, <2>1 DEF AtStep, Enter
  <2>3. game.script[at'].lists \in [DOMAIN game.script[at'].lists -> Seq(Player)]
    BY <1>1, <2>2, ScriptIs
  <2>4. left' \in [Branches' -> Seq(Player)]
    BY <2>2, <2>3 DEF Branches, Step
  <2>5. \A b \in Branches' : \A p \in Range(Step.lists[b])' : Accounted(b, p)'
    BY <2>2 DEF Branches, Step, Accounted
  <2> QED
    BY <1>1, <2>2, <2>4, <2>5 DEF StepInv, AtVote, Step
<1> QED
  BY <1>1, <1>2, <1>3 DEF TurnsInv

LEMMA EndSetupKeeps ==
  ASSUME TurnsInv, EndSetup
  PROVE  TurnsInv'
<1>1. /\ game \in Games /\ at = 1 /\ at' = 1 /\ game' = game
      /\ UNCHANGED <<element, answers>> /\ Enter(1)
      /\ waiting' = {} /\ phase' \in {"ended", "ballot", "next"}
  BY DEF TurnsInv, EndSetup, Enter, setupVars, resultVars
<1>2. Past'
  BY <1>1 DEF Past
<1>3. AtStep' => StepInv'
  <2> SUFFICES ASSUME AtStep' PROVE StepInv'
    OBVIOUS
  <2>1. Len(game.script) \in Nat
    BY <1>1, ScriptIs
  <2>2. /\ 1 <= Len(game.script) /\ 1 \in 1..Len(game.script)
        /\ left' = game.script[1].lists
        /\ phase' = IF game.script[1].kind = "vote" THEN "ballot" ELSE "next"
    BY <1>1, <2>1 DEF AtStep, Enter
  <2>3. game.script[1].lists \in [DOMAIN game.script[1].lists -> Seq(Player)]
    BY <1>1, <2>2, ScriptIs
  <2>4. left' \in [Branches' -> Seq(Player)]
    BY <1>1, <2>2, <2>3 DEF Branches, Step
  <2>5. \A b \in Branches' : \A p \in Range(Step.lists[b])' : Accounted(b, p)'
    BY <1>1, <2>2 DEF Branches, Step, Accounted
  <2> QED
    BY <1>1, <2>2, <2>4, <2>5 DEF StepInv, AtVote, Step
<1> QED
  BY <1>1, <1>2, <1>3 DEF TurnsInv

\* A branch goes on with its next player, or with the one it was suspended at,
\* and no other branch loses its own.
LEMMA TurnBegins ==
  ASSUME TurnsInv, NEW b \in 1..Cardinality(Player), BeginTurn(b)
  PROVE  TurnsInv'
<1>1. /\ phase = "next" /\ phase' = "polling" /\ turn' = b
      /\ element' = [element EXCEPT ![Name(b)] = For(b)]
      /\ left' = IF b \in waiting THEN left ELSE [left EXCEPT ![b] = Tail(@)]
      /\ waiting' = waiting \ {b}
      /\ b \in Branches /\ (b \in waiting \/ left[b] # <<>>)
      /\ UNCHANGED <<game, at, answers>>
  BY DEF BeginTurn, setupVars, Visited, Unfinished
<1>2. StepInv /\ DOMAIN element = 1..Cardinality(Player) /\ game \in Games
      /\ at \in 1..Len(game.script)
  BY <1>1, ScriptIs DEF TurnsInv, AtStep, StepInv
<1>3. /\ Step.kind \in StepKinds
      /\ Step.kind \in {"foreach", "vote"} => Branches = {1}
      /\ Step.kind = "parallelfor" =>
            \A c \in Branches : Range(Step.lists[c]) = {Step.lists[c][1]}
  BY <1>2, ScriptIs DEF Step, Branches
<1>4. left[b] \in Seq(Player) /\ left \in [Branches -> Seq(Player)]
  BY <1>1, <1>2 DEF StepInv
<1>5. Step' = Step /\ Branches' = Branches
  BY <1>1 DEF Step, Branches
<1>6. left' \in [Branches -> Seq(Player)]
  BY <1>1, <1>4, HeadOrTail
<1>7. DOMAIN element' = DOMAIN element
  BY <1>1
<1>8. Name(b) \in DOMAIN element
  <2>1. Name(b) \in {1, b}
    BY DEF Name
  <2>2. Cardinality(Player) \in Nat
    BY PlayersAssumption, FS_CardinalityType
  <2>3. 1 \in 1..Cardinality(Player)
    BY <2>2
  <2> QED
    BY <1>2, <2>1, <2>3
<1>9. ASSUME NEW c \in Branches, NEW p \in Range(Step.lists[c]) PROVE Accounted(c, p)'
  <2>1. \/ p \in Range(left[c])
        \/ c \in waiting /\ p = ResumedFor(c)
        \/ Question(c, p) \in DOMAIN answers
    BY <1>1, <1>2, <1>9 DEF StepInv, Accounted
  <2>2. CASE Question(c, p) \in DOMAIN answers
    BY <1>1, <1>5, <2>2 DEF Accounted, Question
  <2>3. CASE p \in Range(left[c]) /\ c # b
    <3>1. left'[c] = left[c]
      BY <1>1, <1>4, <2>3
    <3> QED
      BY <2>3, <3>1 DEF Accounted
  <2>4. CASE c \in waiting /\ p = ResumedFor(c) /\ c # b
    <3>1. c \in waiting'
      BY <1>1, <2>4
    <3>2. CASE Step.kind = "parallelfor"
      BY <1>5, <2>4, <3>1, <3>2 DEF Accounted, ResumedFor
    <3>3. CASE Step.kind # "parallelfor"
      <4>1. Step.kind = "inparallel"
        BY <1>1, <1>3, <1>9, <2>4, <3>3 DEF StepKinds
      <4>2. Name(b) = b /\ Name(c) = c /\ Name(c)' = c
        BY <1>5, <4>1 DEF Name
      <4>3. c \in DOMAIN element
        BY <1>2, <2>4 DEF StepInv
      <4>4. element'[c] = element[c]
        BY <1>1, <2>4, <4>2, <4>3
      <4> QED
        BY <1>5, <2>4, <3>1, <3>3, <4>2, <4>4 DEF Accounted, ResumedFor
    <3> QED
      BY <3>2, <3>3
  <2>5. ASSUME c = b, p = For(b) PROVE Accounted(c, p)'
    <3>1. element'[Name(b)] = For(b)
      BY <1>1, <1>8
    <3>2. Name(b)' = Name(b)
      BY <1>5 DEF Name
    <3> QED
      BY <1>1, <2>5, <3>1, <3>2 DEF Accounted
  <2>6. CASE c = b /\ b \in waiting
    <3>1. CASE p = ResumedFor(c)
      BY <2>5, <2>6, <3>1 DEF For
    <3>2. CASE p \in Range(left[c])
      BY <1>1, <2>6, <3>2 DEF Accounted
    <3> QED
      BY <2>1, <2>2, <3>1, <3>2
  <2>7. CASE c = b /\ b \notin waiting /\ p \in Range(left[c])
    <3>1. left[b] # <<>> /\ For(b) = Head(left[b]) /\ left'[b] = Tail(left[b])
      BY <1>1, <1>4, <2>7 DEF For
    <3>2. p = Head(left[b]) \/ p \in Range(Tail(left[b]))
      BY <1>4, <2>7, <3>1, HeadOrTail
    <3>3. CASE p = Head(left[b])
      BY <2>5, <2>7, <3>1, <3>3
    <3>4. CASE p \in Range(Tail(left[b]))
      BY <2>7, <3>1, <3>4 DEF Accounted
    <3> QED
      BY <3>2, <3>3, <3>4
  <2> QED
    BY <2>1, <2>2, <2>3, <2>4, <2>6, <2>7
<1>10. StepInv'
  <2>1. at' <= Len(game.script)'
    BY <1>1, <1>2 DEF StepInv
  <2>2. waiting' \subseteq DOMAIN element' /\ turn' \in DOMAIN element'
    BY <1>1, <1>2, <1>7 DEF StepInv
  <2>3. ~AtVote'
    BY <1>1 DEF AtVote
  <2>4. \A c \in Branches' : \A p \in Range(Step.lists[c])' : Accounted(c, p)'
    BY <1>5, <1>9
  <2> QED
    BY <1>5, <1>6, <2>1, <2>2, <2>3, <2>4 DEF StepInv
<1> QED
  BY <1>1, <1>2, <1>7, <1>10 DEF TurnsInv, Past, AllAnswered

\* The branch whose turn it is keeps the player it has not finished with.
LEMMA SuspendKeeps ==
  ASSUME TurnsInv, phase = "polling", Parallel, Suspend,
         UNCHANGED <<game, at, left, element, answers>>
  PROVE  TurnsInv'
<1>1. waiting' = waiting \cup {turn} /\ phase' = "next"
  BY DEF Suspend
<1>2. StepInv /\ game \in Games /\ at \in 1..Len(game.script)
  BY ScriptIs DEF TurnsInv, AtStep, StepInv
<1>3. Step' = Step /\ Branches' = Branches
  BY DEF Step, Branches
<1>4. Step.kind = "parallelfor" =>
         \A c \in Branches : Range(Step.lists[c]) = {Step.lists[c][1]}
  BY <1>2, ScriptIs DEF Step, Branches
<1>5. ASSUME NEW c \in Branches, NEW p \in Range(Step.lists[c]) PROVE Accounted(c, p)'
  <2>1. Accounted(c, p)
    BY <1>2, <1>5 DEF StepInv
  <2>2. ResumedFor(c)' = ResumedFor(c)
    BY <1>3 DEF ResumedFor, Name
  <2>3. CASE c = turn /\ p = element[Name(c)]
    <3>1. p = ResumedFor(c)
      BY <1>4, <1>5, <2>3 DEF ResumedFor
    <3> QED
      BY <1>1, <2>2, <2>3, <3>1 DEF Accounted
  <2>4. CASE ~(c = turn /\ p = element[Name(c)])
    BY <1>1, <1>3, <2>1, <2>2, <2>4 DEF Accounted, Question
  <2> QED
    BY <2>3, <2>4
<1>6. StepInv'
  <2>1. ~AtVote' /\ phase' # "polling" /\ waiting' \subseteq DOMAIN element'
    BY <1>1, <1>2 DEF AtVote, StepInv
  <2> QED
    BY <1>2, <1>3, <1>5, <2>1 DEF StepInv
<1> QED
  BY <1>1, <1>2, <1>6 DEF TurnsInv, Past, AllAnswered

\* The answer is stored for the player whose turn it is.
LEMMA StoreKeeps ==
  ASSUME TurnsInv, phase = "polling", NEW v, Store(v)
  PROVE  TurnsInv'
<1> DEFINE q == Question(turn, element[Name(turn)])
<1>1. /\ DOMAIN answers' = DOMAIN answers \cup {q} /\ phase' = "next"
      /\ UNCHANGED <<game, at, left, waiting, element>>
  BY DEF Store, setupVars
<1>2. StepInv /\ game \in Games
  BY DEF TurnsInv, AtStep
<1>3. Step' = Step /\ Branches' = Branches
  BY <1>1 DEF Step, Branches
<1>4. ASSUME NEW c \in Branches, NEW p \in Range(Step.lists[c]) PROVE Accounted(c, p)'
  <2>1. Accounted(c, p)
    BY <1>2, <1>4 DEF StepInv
  <2>2. ResumedFor(c)' = ResumedFor(c) /\ Question(c, p)' = Question(c, p)
    BY <1>1, <1>3 DEF ResumedFor, Name, Question
  <2>3. CASE c = turn /\ p = element[Name(c)]
    BY <1>1, <2>2, <2>3 DEF Accounted
  <2>4. CASE ~(c = turn /\ p = element[Name(c)])
    BY <1>1, <2>1, <2>2, <2>4 DEF Accounted
  <2> QED
    BY <2>3, <2>4
<1>5. StepInv'
  <2>1. ~AtVote' /\ phase' # "polling"
    BY <1>1 DEF AtVote
  <2> QED
    BY <1>1, <1>2, <1>3, <1>4, <2>1 DEF StepInv
<1>6. Past'
  <2> HIDE DEF q
  <2> QED
    BY <1>1 DEF TurnsInv, Past, AllAnswered
<1> QED
  BY <1>1, <1>2, <1>5, <1>6 DEF TurnsInv

\* Within input-vote, before the votes.
LEMMA VoteGoesOn ==
  ASSUME TurnsInv, AtVote, AtVote', UNCHANGED <<game, at, left, waiting, element, answers>>
  PROVE  TurnsInv'
<1>1. StepInv /\ phase # "polling" /\ phase' # "polling"
  BY DEF TurnsInv, AtStep, AtVote
<1>2. Step' = Step /\ Branches' = Branches
  BY DEF Step, Branches
<1>3. \A c \in Branches' : \A p \in Range(Step.lists[c])' : Accounted(c, p)'
  BY <1>1, <1>2 DEF StepInv, Accounted, ResumedFor, Name, Question
<1>4. StepInv'
  BY <1>1, <1>2, <1>3 DEF StepInv
<1> QED
  BY <1>4 DEF TurnsInv, AtVote, Past, AllAnswered

LEMMA CountedIsAnswered ==
  ASSUME TurnsInv, Count
  PROVE  TurnsInv'
<1> DEFINE q == Question(1, Polled)
<1>1. /\ DOMAIN answers' = DOMAIN answers \cup {q}
      /\ phase = "voting" /\ left[1] # <<>>
      /\ left' = [left EXCEPT ![1] = Tail(@)]
      /\ UNCHANGED <<game, phase, at, waiting, element>>
  BY DEF Count, Polling, setupVars
<1>2. StepInv /\ game \in Games /\ at \in 1..Len(game.script)
  BY <1>1, ScriptIs DEF TurnsInv, AtStep, StepInv
<1>3. Step.kind = "vote" /\ waiting = {} /\ Branches = {1}
  BY <1>1, <1>2, ScriptIs DEF StepInv, AtVote, Step, Branches
<1>4. left \in [{1} -> Seq(Player)] /\ left[1] \in Seq(Player)
  BY <1>2, <1>3 DEF StepInv
<1>5. left' \in [{1} -> Seq(Player)] /\ left'[1] = Tail(left[1])
  BY <1>1, <1>4, HeadOrTail
<1>6. Step' = Step /\ Branches' = Branches
  BY <1>1 DEF Step, Branches
<1>7. ASSUME NEW p \in Range(Step.lists[1]) PROVE Accounted(1, p)'
  <2>1. p \in Range(left[1]) \/ Question(1, p) \in DOMAIN answers
    BY <1>1, <1>2, <1>3, <1>7 DEF StepInv, Accounted
  <2>2. Question(1, p)' = Question(1, p)
    BY <1>1, <1>6 DEF Question
  <2>3. CASE p = Head(left[1])
    BY <1>1, <2>2, <2>3 DEF Accounted, Polled
  <2>4. CASE p \in Range(Tail(left[1]))
    BY <1>5, <2>4 DEF Accounted
  <2>5. CASE Question(1, p) \in DOMAIN answers
    BY <1>1, <2>2, <2>5 DEF Accounted
  <2> QED
    BY <1>1, <1>4, <2>1, <2>3, <2>4, <2>5, HeadOrTail
<1>8. StepInv'
  <2>1. \A c \in Branches' : \A p \in Range(Step.lists[c])' : Accounted(c, p)'
    BY <1>3, <1>6, <1>7
  <2> QED
    BY <1>1, <1>2, <1>3, <1>5, <1>6, <2>1 DEF StepInv, AtVote
<1>9. Past'
  <2> HIDE DEF q
  <2> QED
    BY <1>1 DEF TurnsInv, Past, AllAnswered
<1> QED
  BY <1>1, <1>2, <1>8, <1>9 DEF TurnsInv

\* A step ends when nobody is left, unless a timer cuts it off.
LEMMA EndsKeep ==
  ASSUME TurnsInv, EndStep \/ EndVote \/ CutOff
  PROVE  TurnsInv'
<1>1. /\ AtStep /\ Enter(at + 1) /\ UNCHANGED <<game, element, answers>>
      /\ phase \in {"next", "voting"} \/ Step.timed
  BY DEF EndStep, EndVote, CutOff, Running, AtStep, setupVars, resultVars
<1>2. StepInv /\ game \in Games /\ at \in 1..Len(game.script)
  BY <1>1, ScriptIs DEF TurnsInv, AtStep, StepInv
<1>3. CASE CutOff
  BY <1>1, <1>3, EnterKeeps DEF CutOff
<1>4. ASSUME phase # "polling", \A b \in Branches : b \notin waiting /\ left[b] = <<>>
      PROVE  AllAnswered(at)
  BY <1>2, <1>4, NobodyIn DEF StepInv, Accounted, AllAnswered, Question, Step, Branches
<1>5. CASE EndStep
  <2>1. AllAnswered(at)
    BY <1>4, <1>5 DEF EndStep, Unfinished
  <2> QED
    BY <1>1, <2>1, EnterKeeps
<1>6. CASE EndVote
  <2>1. phase = "voting" /\ left[1] = <<>>
    BY <1>6 DEF EndVote
  <2>2. Branches = {1} /\ waiting = {}
    BY <1>2, <2>1, ScriptIs DEF StepInv, AtVote, Step, Branches
  <2>3. AllAnswered(at)
    BY <1>4, <2>1, <2>2
  <2> QED
    BY <1>1, <2>3, EnterKeeps
<1> QED
  BY <1>3, <1>5, <1>6

-----------------------------------------------------------------------------
LEMMA TurnsInit == Init => TurnsInv
BY DEF Init, SetupInit, TurnsInv, AtStep, Past

LEMMA GameStays == SetupStep => game' = game
BY DEF SetupStep, TakeValue, TakeQuestion, TakeAnswer, TakeChoice, TakeCorrect,
       Given, EndQuestion, Ignored, setupVars

LEMMA TurnsStep == TurnsInv /\ [Next]_vars => TurnsInv'
<1> SUFFICES ASSUME TurnsInv, [Next]_vars PROVE TurnsInv'
  OBVIOUS
<1>1. CASE SetupTakes \/ Reject \/ (\E k \in Keys : Expire(k)) \/ OtherLooks \/ OtherCrops
           \/ PollInVain \/ UNCHANGED vars
           \/ UNCHANGED <<setupVars, phase, at, branchVars, voteVars, resultVars>>
  <2>1. UNCHANGED <<game, phase, at, left, waiting, turn, element, answers>>
    BY <1>1, GameStays DEF SetupTakes, Reject, Expire, OtherLooks, OtherCrops, PollInVain,
       vars, setupVars, branchVars, resultVars
  <2> QED
    BY <2>1, NothingMoves
<1>2. CASE SetupThrows \/ PromptThrows \/ PollThrows \/ TimeOutThrows \/ BallotThrows
           \/ VoteThrows \/ ListThrows
  <2>1. UNCHANGED <<game, at, element, answers>> /\ phase' = "crashed"
    BY <1>2 DEF SetupThrows, PromptThrows, PollThrows, TimeOutThrows, BallotThrows,
       VoteThrows, ListThrows, Throws, setupVars, branchVars, resultVars
  <2> QED
    BY <2>1, CrashKeeps
<1>3. CASE Refuse \/ FindNothing
  <2>1. /\ phase = "polling"
        /\ UNCHANGED <<game, at, left, element, answers>>
        /\ (Parallel /\ Suspend) \/ UNCHANGED <<phase, waiting, turn>>
    BY <1>3 DEF Refuse, FindNothing, Running, setupVars, resultVars
  <2> QED
    BY <2>1, SuspendKeeps, NothingMoves
<1>4. CASE Accept \/ TimeOut
  BY <1>4, StoreKeeps DEF Accept, TimeOut, Running
<1>5. CASE Ballot \/ Crop \/ List
  <2>1. AtVote /\ AtVote' /\ UNCHANGED <<game, at, left, waiting, element, answers>>
    BY <1>5 DEF Ballot, Crop, List, AtVote, AfterLook, setupVars, branchVars, resultVars
  <2> QED
    BY <2>1, VoteGoesOn
<1>6. CASE Thread
  BY <1>1, <1>2, <1>3, <1>4, <1>5, <1>6, EndSetupKeeps, TurnBegins, CountedIsAnswered,
     EndsKeep DEF Thread
<1> QED
  BY <1>1, <1>6 DEF Next

\* However the turns of the branches alternate, inputs are suspended and clocks
\* run out, the rules go on to the next step only when everybody the step goes
\* over has answered, or a timer around it has cut it off (ForeachRule,
\* ParallelForRule, InParallelRule, InputVoteRule::run).
THEOREM NobodyIsSkipped == Spec => []NobodySkipped
<1>1. TurnsInv => NobodySkipped
  BY DEF TurnsInv, Past, AllAnswered, NobodySkipped
<1> QED
  BY <1>1, TurnsInit, TurnsStep, PTL DEF Spec

-----------------------------------------------------------------------------
(* The name of the list *)

\* While no other session has cut off the name, this game does so once, and
\* only if it has found ".name".
NameInv ==
    other # "done" =>
        /\ cropped \in {0, 1}
        /\ phase = "cropping" => cropped = 0
        /\ phase = "listing" => cropped = 1

\* The list of candidates is found at every vote, unless another session has
\* cut off its name meanwhile (choices.find and choices.erase in
\* InputVoteRule::run).
THEOREM ListIsNamed == Spec => []ListNamed
<1>1. Init => NameInv
  BY DEF Init, NameInv
<1>2. NameInv /\ [Next]_vars => NameInv'
  <2> SUFFICES ASSUME NameInv, [Next]_vars PROVE NameInv'
    OBVIOUS
  <2>1. CASE UNCHANGED voteVars /\ (phase' \notin {"cropping", "listing"} \/ phase' = phase)
    BY <2>1 DEF NameInv, voteVars
  <2>2. CASE Ballot \/ Crop \/ List
    BY <2>2 DEF Ballot, AfterLook, Found, Crop, List, NameInv, voteVars
  <2>3. CASE OtherLooks \/ OtherCrops
    BY <2>3 DEF OtherLooks, OtherCrops, NameInv
  <2>4. CASE EndSetup \/ EndStep \/ EndVote \/ CutOff
    BY <2>1, <2>4 DEF EndSetup, EndStep, EndVote, CutOff, Enter
  <2>5. CASE SetupThrows \/ PromptThrows \/ PollThrows \/ TimeOutThrows \/ BallotThrows
             \/ VoteThrows \/ ListThrows
    BY <2>1, <2>5 DEF SetupThrows, PromptThrows, PollThrows, TimeOutThrows, BallotThrows,
       VoteThrows, ListThrows, Throws
  <2>6. CASE SetupTakes \/ Reject \/ (\E k \in Keys : Expire(k)) \/ PollInVain
             \/ UNCHANGED vars
             \/ UNCHANGED <<setupVars, phase, at, branchVars, voteVars, resultVars>>
    BY <2>1, <2>6 DEF SetupTakes, Reject, Expire, PollInVain, vars
  <2>7. CASE Refuse \/ FindNothing \/ Accept \/ TimeOut
             \/ \E b \in 1..Cardinality(Player) : BeginTurn(b)
    BY <2>1, <2>7 DEF Refuse, FindNothing, Accept, TimeOut, BeginTurn, Suspend, Store
  <2>8. CASE Count
    BY <2>8 DEF Count, Polling, NameInv
  <2>9. CASE Thread
    BY <2>2, <2>4, <2>5, <2>6, <2>7, <2>8, <2>9 DEF Thread
  <2> QED
    BY <2>3, <2>6, <2>9 DEF Next
<1>3. NameInv => ListNamed
  BY DEF NameInv, ListNamed
<1> QED
  BY <1>1, <1>2, <1>3, PTL DEF Spec

-----------------------------------------------------------------------------
(* That answers are among what was offered *)

\* The answer stored for q is one of the choices there were.
Offered(v) == v.from = "typed" /\ v.offers > 0 => v.says \in 1..v.offers

\* In the middle of a question: the parameter is of its kind, and the questions
\* before it are as they should be.
StageFits ==
    Asking =>
        /\ stage = "value" <=> Current.kind \notin {"question-answer", "multiple-choice"}
        /\ stage = "answer" => Current.kind = "question-answer"
        /\ stage \in {"choice", "correct"} => Current.kind = "multiple-choice"
        /\ Current.kind = "multiple-choice" =>
              \A i \in 1..Len(questions) : questions[i].correct \in 1..questions[i].choices

\* Each choice was a text of its own.
FewChoices ==
    /\ choices + Len(inbox[Owner]) <= typed[Owner]
    /\ typed[Owner] <= game.texts[Owner]

OfferInv == StageFits /\ FewChoices /\ AnswersOffered

LEMMA MaxSizeIs == MaxSize = 65535
BY DEF MaxSize

\* A number less one, if that is unsigned: 0 becomes the largest.
LEMMA UnsignedLess ==
  ASSUME NEW s \in Nat, s <= 65535, NEW n \in Nat, n <= 65535, (s + 65535) % 65536 < n
  PROVE  s \in 1..n
<1>1. ASSUME NEW a \in Nat, a < 65536 PROVE a % 65536 = a
  BY ONLY <1>1
<1>2. ASSUME NEW a \in Nat, 65536 <= a, a < 131072 PROVE a % 65536 = a - 65536
  BY ONLY <1>2
<1>3. CASE s = 0
  <2>1. (s + 65535) % 65536 = 65535
    BY <1>1, <1>3
  <2> QED
    BY <2>1
<1>4. CASE s # 0
  <2>1. s + 65535 \in Nat /\ 65536 <= s + 65535 /\ s + 65535 < 131072
    BY <1>4
  <2>2. (s + 65535) % 65536 = s - 1
    BY <1>2, <2>1
  <2> QED
    BY <1>4, <2>2
<1> QED
  BY <1>3, <1>4

\* So 0 is refused, since no list is as long as the largest number.
LEMMA ChosenIs ==
  ASSUME NEW s, s \in Says, NEW n, n \in 0..MaxSize, Chosen(s, n)
  PROVE  s \in 1..n
<1>1. s \in Nat /\ s <= MaxSize /\ n \in Nat /\ n <= MaxSize
  BY SetupAssumption DEF Chosen, Empty, Word
<1>2. (s + MaxSize) % (MaxSize + 1) < n
  BY DEF Chosen, Index
<1>3. s <= 65535 /\ n <= 65535 /\ (s + 65535) % 65536 < n
  <2>1. 65535 + 1 = 65536
    BY ONLY TRUE
  <2> QED
    BY ONLY <1>1, <1>2, <2>1, MaxSizeIs
<1> QED
  BY ONLY <1>1, <1>3, UnsignedLess

LEMMA SetupIs ==
  ASSUME SetupTypeOK
  PROVE  /\ game \in Games /\ game.setup \in Seq(Parameter) /\ Len(game.setup) \in Nat
         /\ \A i \in 1..Len(game.setup) :
               game.setup[i] \in Parameter /\ game.setup[i].kind \in Kinds
         /\ game.texts \in [Player -> 0..MaxSize]
         /\ Len(parameters) \in Nat /\ choices \in Nat
<1>1. game \in Games /\ game.setup \in Seq(Parameter) /\ game.texts \in [Player -> 0..MaxSize]
  BY SetupAssumption DEF SetupTypeOK
<1>2. Len(game.setup) \in Nat /\ \A i \in 1..Len(game.setup) : game.setup[i] \in Parameter
  <2> HIDE DEF Parameter
  <2> QED
    BY <1>1
<1>3. \A p \in Parameter : p.kind \in Kinds
  BY DEF Parameter
<1>4. parameters \in Seq(Value) /\ choices \in Nat
  BY DEF SetupTypeOK
<1>5. Len(parameters) \in Nat
  <2> HIDE DEF Value
  <2> QED
    BY <1>4
<1> QED
  BY <1>1, <1>2, <1>3, <1>4, <1>5

\* A parameter is given a value that fits.
LEMMA GivenFits ==
  ASSUME SetupTypeOK, Asking, ParametersFit, NEW v \in Value, FitsParameter(v, Current),
         Given(v)
  PROVE  ParametersFit' /\ StageFits' /\ choices' = 0
<1>1. /\ parameters' = Append(parameters, v) /\ game' = game
      /\ stage' = FirstStage(game.setup, Len(parameters) + 2)
      /\ questions' = <<>> /\ choices' = 0
  BY DEF Given
<1>2. parameters \in Seq(Value)
  BY DEF SetupTypeOK
<1>3. /\ Len(parameters') = Len(parameters) + 1 /\ Len(parameters) \in Nat
      /\ parameters'[Len(parameters) + 1] = v
      /\ \A i \in 1..Len(parameters) : parameters'[i] = parameters[i]
  <2> HIDE DEF Value
  <2> QED
    BY <1>1, <1>2
<1>4. ParametersFit'
  <2>1. ASSUME NEW i \in 1..Len(parameters')
        PROVE  FitsParameter(parameters'[i], game.setup[i])
    <3>1. CASE i = Len(parameters) + 1
      BY <1>3, <3>1 DEF Current
    <3>2. CASE i # Len(parameters) + 1
      <4>1. i \in 1..Len(parameters) /\ parameters'[i] = parameters[i]
        BY <1>3, <3>2
      <4> QED
        BY <4>1 DEF ParametersFit
    <3> QED
      BY <3>1, <3>2
  <2> QED
    BY <1>1, <2>1 DEF ParametersFit, FitsParameter
<1>5. StageFits'
  <2> SUFFICES ASSUME Asking' PROVE StageFits'
    BY DEF StageFits
  <2>1. Len(parameters) + 2 <= Len(game.setup)
    BY <1>1, <1>3, SetupIs DEF Asking
  <2>2. Current' = game.setup[Len(parameters) + 2]
    BY <1>1, <1>3 DEF Current
  <2>3. stage' = IF Current'.kind \in {"question-answer", "multiple-choice"}
                 THEN "question" ELSE "value"
    BY <1>1, <2>1, <2>2 DEF FirstStage
  <2>4. Len(questions') = 0
    BY <1>1
  <2> QED
    BY <2>3, <2>4 DEF StageFits
<1> QED
  BY <1>1, <1>4, <1>5

\* The list of choices is not too long to be counted.
LEMMA ChoicesCounted ==
  ASSUME PeopleTypeOK, SetupTypeOK, FewChoices
  PROVE  choices \in 0..MaxSize
<1>1. /\ typed \in [Player -> Nat] /\ inbox \in [Player -> Seq(Text)]
  BY DEF PeopleTypeOK
<1>2. Owner \in Player
  BY SetupAssumption
<1>3. inbox[Owner] \in Seq(Text)
  BY <1>1, <1>2
<1>4. Len(inbox[Owner]) \in Nat
  <2> HIDE DEF Text
  <2> QED
    BY <1>3
<1>5. game.texts[Owner] \in 0..MaxSize /\ choices \in Nat /\ typed[Owner] \in Nat
  BY <1>1, <1>2, SetupIs
<1>6. MaxSize \in Nat
  BY DEF MaxSize
<1> HIDE DEF MaxSize
<1> QED
  BY <1>4, <1>5, <1>6 DEF FewChoices

LEMMA ReceivedOne ==
  ASSUME PeopleTypeOK, Hears(Owner), Receive(Owner)
  PROVE  /\ Len(inbox'[Owner]) = Len(inbox[Owner]) - 1 /\ Len(inbox[Owner]) \in Nat
         /\ typed' = typed /\ typed[Owner] \in Nat /\ Input \in Text
<1>1. /\ typed \in [Player -> Nat] /\ inbox \in [Player -> Seq(Text)] /\ inbox[Owner] # <<>>
      /\ Owner \in Player
  BY SetupAssumption DEF PeopleTypeOK, Hears
<1>2. inbox[Owner] \in Seq(Text) /\ inbox'[Owner] = Tail(inbox[Owner]) /\ typed' = typed
  BY <1>1 DEF Receive
<1>3. /\ Len(Tail(inbox[Owner])) = Len(inbox[Owner]) - 1 /\ Len(inbox[Owner]) \in Nat
      /\ Head(inbox[Owner]) \in Text
  <2> HIDE DEF Text
  <2> QED
    BY <1>1, <1>2
<1> QED
  BY <1>1, <1>2, <1>3 DEF Input

\* Whatever the owner types, the prompts of the setup keep to what they offered.
LEMMA SetupOffers ==
  ASSUME PeopleInv, SetupTypeOK, StageFits, FewChoices, ParametersFit, SetupStep
  PROVE  StageFits' /\ FewChoices' /\ ParametersFit'
<1>1. Asking /\ Hears(Owner) /\ Receive(Owner) /\ PeopleTypeOK
  BY DEF SetupStep, TakeValue, TakeQuestion, TakeAnswer, TakeChoice, TakeCorrect, SetupHears,
     PeopleInv
<1>2. /\ Len(inbox'[Owner]) = Len(inbox[Owner]) - 1 /\ Len(inbox[Owner]) \in Nat
      /\ typed' = typed /\ typed[Owner] \in Nat /\ Input \in Text
  BY <1>1, ReceivedOne
<1>3. Input.says \in Says /\ Input.by \in Person
  BY <1>2 DEF Text
<1>4. /\ game \in Games /\ choices \in Nat /\ choices \in 0..MaxSize
      /\ questions \in Seq([choices : Nat, correct : Nat])
      /\ game.texts[Owner] \in Nat /\ Current.kind \in Kinds
  <2>1. Current.kind \in Kinds
    BY <1>1, SetupIs DEF Asking, Current
  <2>2. game.texts[Owner] \in 0..MaxSize
    BY SetupIs, SetupAssumption
  <2>3. choices \in 0..MaxSize
    BY <1>1, ChoicesCounted
  <2>4. game.texts[Owner] \in Nat
    <3>1. MaxSize \in Nat
      BY DEF MaxSize
    <3> HIDE DEF MaxSize
    <3> QED
      BY <2>2, <3>1
  <2> QED
    BY <2>1, <2>3, <2>4 DEF SetupTypeOK
<1>6. ASSUME choices' \in {0, choices, choices + 1}, game' = game PROVE FewChoices'
  BY <1>2, <1>4, <1>6 DEF FewChoices
<1>7. CASE Ignored
  BY <1>6, <1>7 DEF Ignored, setupVars, StageFits, ParametersFit, Asking, Current,
     FitsParameter
<1>8. ASSUME NEW v \in Value, FitsParameter(v, Current), Given(v)
      PROVE  StageFits' /\ FewChoices' /\ ParametersFit'
  <2>1. StageFits' /\ ParametersFit' /\ choices' = 0 /\ game' = game
    BY <1>1, <1>8, GivenFits DEF Given
  <2> QED
    BY <1>6, <2>1
<1>9. CASE TakeValue
  <2>1. Current.kind \notin {"question-answer", "multiple-choice"}
    BY <1>1, <1>9 DEF TakeValue, SetupHears, StageFits
  <2>2. <<>> \in Seq([choices : Nat, correct : Nat])
    BY EmptyIsSeq
  <2>3. CASE Input.says = Empty /\ Optional(Current)
    <3> DEFINE v == [from |-> "default", says |-> Empty, by |-> Input.by, questions |-> <<>>]
    <3>1. v \in Value /\ Given(v)
      BY <1>3, <1>9, <2>2, <2>3 DEF TakeValue, Value
    <3>2. FitsParameter(v, Current)
      BY <2>1, <2>3 DEF FitsParameter, Optional
    <3> HIDE DEF v
    <3> QED
      BY <1>8, <3>1, <3>2
  <2>4. CASE Input.says # Empty /\ Fits(Current.kind, Input.says)
    <3> DEFINE v == [from |-> "typed", says |-> Input.says, by |-> Input.by,
                     questions |-> <<>>]
    <3>1. v \in Value /\ Given(v)
      BY <1>3, <1>9, <2>2, <2>4 DEF TakeValue, Value
    <3>2. FitsParameter(v, Current)
      BY <2>1, <2>4 DEF FitsParameter
    <3> HIDE DEF v
    <3> QED
      BY <1>8, <3>1, <3>2
  <2> QED
    BY <1>7, <1>9, <2>3, <2>4 DEF TakeValue
<1>10. CASE TakeQuestion
  <2>1. Current.kind \in {"question-answer", "multiple-choice"}
    BY <1>1, <1>10 DEF TakeQuestion, SetupHears, StageFits
  <2>2. CASE Input.says = Empty
    <3> DEFINE v == [from |-> "typed", says |-> Empty, by |-> Input.by,
                     questions |-> questions]
    <3>1. v \in Value /\ Given(v)
      BY <1>3, <1>4, <1>10, <2>2 DEF TakeQuestion, Value
    <3>2. FitsParameter(v, Current)
      BY <1>1, <2>1 DEF FitsParameter, StageFits
    <3> HIDE DEF v
    <3> QED
      BY <1>8, <3>1, <3>2
  <2>3. CASE Input.says # Empty
    <3>1. /\ stage' = IF Current.kind = "question-answer" THEN "answer" ELSE "choice"
          /\ choices' = 0 /\ UNCHANGED <<game, questions, parameters>>
      BY <1>10, <2>3 DEF TakeQuestion
    <3>2. Current' = Current /\ Asking' = Asking
      BY <3>1 DEF Current, Asking
    <3> QED
      BY <1>1, <1>6, <2>1, <3>1, <3>2 DEF StageFits, ParametersFit, FitsParameter
  <2> QED
    BY <2>2, <2>3
<1>11. ASSUME NEW q \in [choices : Nat, correct : Nat], EndQuestion(q),
              stage \in {"answer", "correct"},
              stage = "correct" => q.correct \in 1..q.choices
       PROVE  StageFits' /\ FewChoices' /\ ParametersFit'
  <2>1. /\ questions' = Append(questions, q) /\ stage' = "question"
        /\ UNCHANGED <<game, choices, parameters>>
    BY <1>11 DEF EndQuestion
  <2>2. Current' = Current /\ Asking' = Asking
    BY <2>1 DEF Current, Asking
  <2>3. ASSUME Current.kind = "multiple-choice", NEW i \in 1..Len(questions')
        PROVE  questions'[i].correct \in 1..questions'[i].choices
    <3>1. questions'[i] = q \/ (i \in 1..Len(questions) /\ questions'[i] = questions[i])
      BY <1>4, <2>1, OneMore
    <3>2. q.correct \in 1..q.choices
      BY <1>1, <1>11, <2>3 DEF StageFits
    <3> QED
      BY <1>1, <2>3, <3>1, <3>2 DEF StageFits
  <2>4. Current.kind \in {"question-answer", "multiple-choice"}
    BY <1>1, <1>11 DEF StageFits
  <2> QED
    BY <1>6, <2>1, <2>2, <2>3, <2>4 DEF StageFits, ParametersFit, FitsParameter
<1>12. CASE TakeAnswer
  <2>1. [choices |-> 0, correct |-> 0] \in [choices : Nat, correct : Nat]
    OBVIOUS
  <2>2. stage = "answer"
    BY <1>12 DEF TakeAnswer, SetupHears
  <2>3. Ignored \/ EndQuestion([choices |-> 0, correct |-> 0])
    BY <1>12 DEF TakeAnswer
  <2> QED
    BY <1>7, <1>11, <2>1, <2>2, <2>3
<1>13. CASE TakeChoice
  <2>1. stage = "choice" /\ Current.kind = "multiple-choice"
    BY <1>1, <1>13 DEF TakeChoice, SetupHears, StageFits
  <2>2. \/ Ignored
        \/ choices' = choices + 1 /\ UNCHANGED <<game, stage, questions, parameters>>
        \/ stage' = "correct" /\ UNCHANGED <<game, questions, choices, parameters>>
    BY <1>13 DEF TakeChoice
  <2>3. CASE stage' \in {"choice", "correct"} /\ choices' \in {choices, choices + 1}
             /\ UNCHANGED <<game, questions, parameters>>
    <3>1. Current' = Current /\ Asking' = Asking
      BY <2>3 DEF Current, Asking
    <3> QED
      BY <1>1, <1>6, <2>1, <2>3, <3>1 DEF StageFits, ParametersFit, FitsParameter
  <2> QED
    BY <1>7, <2>1, <2>2, <2>3
<1>14. CASE TakeCorrect
  <2>1. stage = "correct"
    BY <1>14 DEF TakeCorrect, SetupHears
  <2>2. CASE Chosen(Input.says, choices)
    <3> DEFINE q == [choices |-> choices, correct |-> Input.says]
    <3>1. q \in [choices : Nat, correct : Nat]
      BY <1>4, <2>2 DEF Chosen
    <3>2. Input.says \in 1..choices
      BY <1>3, <1>4, <2>2, ChosenIs
    <3>3. EndQuestion(q) /\ q.correct \in 1..q.choices
      BY <1>14, <2>2, <3>2 DEF TakeCorrect
    <3> HIDE DEF q
    <3> QED
      BY <1>11, <2>1, <3>1, <3>3
  <2>3. CASE ~Chosen(Input.says, choices)
    BY <1>7, <1>14, <2>3 DEF TakeCorrect
  <2> QED
    BY <2>2, <2>3
<1> QED
  BY <1>9, <1>10, <1>12, <1>13, <1>14 DEF SetupStep

\* Other steps leave the setup alone, and take a text at most.
LEMMA SetupIsLeft ==
  ASSUME PeopleTypeOK, SetupTypeOK, StageFits, FewChoices, ParametersFit,
         UNCHANGED setupVars,
         UNCHANGED peopleVars \/ \E p : Hears(p) /\ Receive(p)
  PROVE  StageFits' /\ FewChoices' /\ ParametersFit'
<1>1. StageFits' /\ ParametersFit'
  BY DEF setupVars, StageFits, ParametersFit, FitsParameter, Asking, Current
<1>2. /\ typed \in [Player -> Nat] /\ inbox \in [Player -> Seq(Text)] /\ Owner \in Player
      /\ game.texts[Owner] \in 0..MaxSize /\ choices \in Nat
  BY SetupAssumption, SetupIs DEF PeopleTypeOK
<1>3. CASE UNCHANGED peopleVars
  BY <1>1, <1>3 DEF peopleVars, setupVars, FewChoices
<1>4. ASSUME NEW p, Hears(p), Receive(p), p = Owner PROVE FewChoices'
  <2>1. /\ Len(inbox'[Owner]) = Len(inbox[Owner]) - 1 /\ Len(inbox[Owner]) \in Nat
        /\ typed' = typed /\ typed[Owner] \in Nat
    BY <1>4, ReceivedOne
  <2> QED
    BY <1>2, <2>1 DEF setupVars, FewChoices
<1>5. ASSUME NEW p, Hears(p), Receive(p), p # Owner PROVE FewChoices'
  <2>1. inbox'[Owner] = inbox[Owner] /\ typed' = typed
    BY <1>2, <1>5 DEF Receive
  <2> QED
    BY <2>1 DEF setupVars, FewChoices
<1> QED
  BY <1>1, <1>3, <1>4, <1>5

\* Every text the owner has not been asked for was typed.
LEMMA PeopleFew ==
  ASSUME PeopleTypeOK, SetupTypeOK, FewChoices, People, UNCHANGED setupVars,
         \A p \in Player : typed'[p] <= game.texts[p]
  PROVE  FewChoices'
<1>1. /\ typed \in [Player -> Nat] /\ inbox \in [Player -> Seq(Text)] /\ Owner \in Player
      /\ choices \in Nat /\ Open \subseteq Player /\ channels \in [Open -> Person]
  BY SetupAssumption, SetupIs DEF PeopleTypeOK
<1>2. inbox[Owner] \in Seq(Text) /\ typed[Owner] \in Nat /\ Len(inbox[Owner]) \in Nat
  <2>1. inbox[Owner] \in Seq(Text) /\ typed[Owner] \in Nat
    BY <1>1
  <2> HIDE DEF Text
  <2> QED
    BY <2>1
<1>3. typed'[Owner] <= game.texts[Owner] /\ choices' = choices /\ game' = game
  BY <1>1 DEF setupVars
<1>4. ASSUME NEW p \in Player, NEW s \in Says, Type(p, s)
      PROVE  choices + Len(inbox'[Owner]) <= typed'[Owner]
  <2> DEFINE t == [by |-> channels[p], says |-> s]
  <2>1. /\ inbox' = [inbox EXCEPT ![p] = Append(@, t)] /\ typed' = [typed EXCEPT ![p] = @ + 1]
        /\ p \in Open
    BY <1>4 DEF Type
  <2>2. t \in Text
    BY <1>1, <2>1 DEF Text
  <2> HIDE DEF t
  <2>3. Len(Append(inbox[Owner], t)) = Len(inbox[Owner]) + 1
    BY <1>2, <2>2, OneMore
  <2>4. CASE p = Owner
    <3>1. inbox'[Owner] = Append(inbox[Owner], t) /\ typed'[Owner] = typed[Owner] + 1
      BY <1>1, <2>1, <2>4
    <3> QED
      BY <1>1, <1>2, <2>3, <3>1 DEF FewChoices
  <2>5. CASE p # Owner
    <3>1. inbox'[Owner] = inbox[Owner] /\ typed'[Owner] = typed[Owner]
      BY <1>1, <2>1, <2>5
    <3> QED
      BY <3>1 DEF FewChoices
  <2> QED
    BY <2>4, <2>5
<1>5. ASSUME NEW p \in Player, Leave(p)
      PROVE  choices + Len(inbox'[Owner]) <= typed'[Owner]
  <2>1. inbox'[Owner] \in {<<>>, inbox[Owner]} /\ typed' = typed
    BY <1>1, <1>5 DEF Leave
  <2>2. Len(<<>>) = 0
    OBVIOUS
  <2>3. CASE inbox'[Owner] = inbox[Owner]
    BY <2>1, <2>3 DEF FewChoices
  <2>4. CASE inbox'[Owner] = <<>>
    <3>1. Len(inbox'[Owner]) = 0
      BY <2>2, <2>4
    <3> QED
      BY <1>1, <1>2, <2>1, <3>1 DEF FewChoices
  <2> QED
    BY <2>1, <2>3, <2>4
<1>6. ASSUME NEW p \in Player, LeaveLast(p) \/ Arrive(p)
      PROVE  choices + Len(inbox'[Owner]) <= typed'[Owner]
  BY <1>6 DEF LeaveLast, Arrive, FewChoices
<1> QED
  BY <1>3, <1>4, <1>5, <1>6 DEF People, FewChoices

AllOffered == \A q \in DOMAIN answers : Offered(answers[q])

LEMMA OffersAre == AnswersOffered <=> ParametersFit /\ AllOffered
BY DEF AnswersOffered, AllOffered, Offered

LEMMA StoredOffered ==
  ASSUME AllOffered, NEW q, NEW v, Offered(v),
         answers' = [r \in DOMAIN answers \cup {q} |-> IF r = q THEN v ELSE answers[r]]
  PROVE  AllOffered'
<1>1. DOMAIN answers' = DOMAIN answers \cup {q}
  OBVIOUS
<1>2. ASSUME NEW r \in DOMAIN answers' PROVE Offered(answers'[r])
  BY <1>1, <1>2 DEF AllOffered
<1> QED
  BY <1>2 DEF AllOffered, Offered

\* The step of the script offers what can be counted.
LEMMA OffersCounted ==
  ASSUME TurnsInv, AtStep
  PROVE  Step.offers \in 0..MaxSize
<1>1. game \in Games /\ at \in 1..Len(game.script)
  BY ScriptIs DEF TurnsInv, StepInv
<1>2. Step \in ScriptStep
  BY <1>1, ScriptIs DEF Step
<1> QED
  BY <1>2 DEF ScriptStep

LEMMA AcceptOffered ==
  ASSUME PeopleInv, TurnsInv, AllOffered, Accept
  PROVE  AllOffered'
<1> DEFINE t == Head(inbox[player])
           q == Question(turn, element[Name(turn)])
           v == [from |-> "typed", says |-> t.says, by |-> t.by, offers |-> Step.offers]
<1>1. phase = "polling" /\ Hears(player) /\ Receive(player) /\ Valid(t.says) /\ Store(v)
  BY DEF Accept, Running, HeardFrom
<1>2. t \in Text
  BY <1>1, ReceiveKeeps
<1>3. t.says \in Says
  BY <1>2 DEF Text
<1>4. Step.offers \in 0..MaxSize
  BY <1>1, OffersCounted DEF AtStep
<1>5. Step.offers = 0 \/ t.says \in 1..Step.offers
  BY <1>1, <1>3, <1>4, ChosenIs DEF Valid
<1>6. Offered(v)
  BY <1>5 DEF Offered
<1>7. answers' = [r \in DOMAIN answers \cup {q} |-> IF r = q THEN v ELSE answers[r]]
  BY <1>1 DEF Store
<1> HIDE DEF q, v, t
<1> QED
  BY <1>6, <1>7, StoredOffered

LEMMA TimeOutOffered ==
  ASSUME AllOffered, TimeOut
  PROVE  AllOffered'
<1> DEFINE q == Question(turn, element[Name(turn)])
           v == [from |-> "default", offers |-> Step.offers]
<1>1. Offered(v)
  BY DEF Offered
<1>2. answers' = [r \in DOMAIN answers \cup {q} |-> IF r = q THEN v ELSE answers[r]]
  BY DEF TimeOut, Store
<1> HIDE DEF q, v
<1> QED
  BY <1>1, <1>2, StoredOffered

LEMMA CountOffered ==
  ASSUME AllOffered, Count
  PROVE  AllOffered'
<1> DEFINE t == Head(inbox[Polled])
           q == Question(1, Polled)
           v == [from |-> "typed", says |-> t.says, by |-> t.by, offers |-> Step.offers]
<1>1. Offered(v)
  BY DEF Count, Candidate, Offered
<1>2. answers' = [r \in DOMAIN answers \cup {q} |-> IF r = q THEN v ELSE answers[r]]
  BY DEF Count
<1> HIDE DEF q, v, t
<1> QED
  BY <1>1, <1>2, StoredOffered

LEMMA OfferInit == Init => OfferInv
<1> SUFFICES ASSUME Init PROVE OfferInv
  OBVIOUS
<1>1. PeopleInit /\ SetupInit /\ answers = <<>>
  BY DEF Init
<1>2. /\ game \in Games /\ stage = FirstStage(game.setup, 1) /\ choices = 0
      /\ questions = <<>> /\ parameters = <<>> /\ Owner \in Player
      /\ Len(questions) = 0 /\ Len(parameters) = 0
  BY <1>1, SetupAssumption DEF SetupInit
<1>3. StageFits
  <2> SUFFICES ASSUME Asking PROVE StageFits
    BY DEF StageFits
  <2>1. game.setup \in Seq(Parameter)
    BY <1>2, SetupAssumption
  <2>2. Len(game.setup) \in Nat
    <3> HIDE DEF Parameter
    <3> QED
      BY <2>1
  <2>3. 1 <= Len(game.setup) /\ Current = game.setup[1]
    BY <1>2, <2>2 DEF Asking, Current
  <2> QED
    BY <1>2, <2>3 DEF FirstStage, StageFits
<1>4. FewChoices
  <2>1. typed[Owner] = 0 /\ inbox[Owner] = <<>> /\ Len(inbox[Owner]) = 0
    BY <1>1, <1>2 DEF PeopleInit
  <2>2. game.texts[Owner] \in 0..MaxSize
    BY <1>2, SetupAssumption
  <2>3. MaxSize \in Nat
    BY DEF MaxSize
  <2> HIDE DEF MaxSize
  <2> QED
    BY <1>2, <2>1, <2>2, <2>3 DEF FewChoices
<1>5. AnswersOffered
  BY <1>1, <1>2 DEF AnswersOffered, ParametersFit
<1> QED
  BY <1>3, <1>4, <1>5 DEF OfferInv

LEMMA OfferStep == OwnInv /\ TurnsInv /\ OfferInv /\ [Next]_vars => OfferInv'
<1> SUFFICES ASSUME OwnInv, TurnsInv, OfferInv, [Next]_vars PROVE OfferInv'
  OBVIOUS
<1>1. /\ PeopleInv /\ PeopleTypeOK /\ SetupTypeOK
      /\ StageFits /\ FewChoices /\ ParametersFit /\ AllOffered
  BY OffersAre DEF OwnInv, PeopleInv, OfferInv
<1>2. SUFFICES StageFits' /\ FewChoices' /\ ParametersFit' /\ AllOffered'
  <2>1. AnswersOffered' <=> ParametersFit' /\ AllOffered'
    BY DEF AnswersOffered, AllOffered, Offered
  <2> QED
    BY <1>2, <2>1 DEF OfferInv
<1>3. CASE SetupTakes
  <2>1. SetupStep /\ answers' = answers
    BY <1>3 DEF SetupTakes, resultVars
  <2> QED
    BY <1>1, <2>1, SetupOffers DEF AllOffered, Offered
<1>4. CASE /\ People /\ \A p \in Player : typed'[p] <= game.texts[p]
           /\ UNCHANGED <<setupVars, answers>>
  <2>1. FewChoices'
    BY <1>1, <1>4, PeopleFew
  <2>2. StageFits' /\ ParametersFit'
    BY <1>1, <1>4 DEF setupVars, StageFits, ParametersFit, FitsParameter, Asking, Current
  <2> QED
    BY <1>1, <1>4, <2>1, <2>2 DEF AllOffered, Offered
<1>5. CASE /\ UNCHANGED setupVars
           /\ UNCHANGED peopleVars \/ \E p : Hears(p) /\ Receive(p)
           /\ UNCHANGED answers \/ Accept \/ TimeOut \/ Count
  <2>1. AllOffered'
    BY <1>1, <1>5, AcceptOffered, TimeOutOffered, CountOffered DEF AllOffered, Offered
  <2> QED
    BY <1>1, <1>5, <2>1, SetupIsLeft
<1>6. CASE EndSetup \/ SetupThrows \/ PromptThrows \/ FindNothing
           \/ PollThrows \/ TimeOutThrows \/ EndStep \/ Ballot \/ BallotThrows
           \/ Crop \/ List \/ ListThrows \/ VoteThrows \/ EndVote
           \/ (\E k \in Keys : Expire(k)) \/ OtherLooks \/ OtherCrops
           \/ (\E b \in 1..Cardinality(Player) : BeginTurn(b))
  <2>1. UNCHANGED <<setupVars, peopleVars, answers>>
    BY <1>6 DEF EndSetup, SetupThrows, PromptThrows, FindNothing, PollThrows,
       TimeOutThrows, EndStep, Ballot, BallotThrows, Crop, List, ListThrows, VoteThrows,
       EndVote, Expire, OtherLooks, OtherCrops, BeginTurn, Throws, resultVars
  <2> QED
    BY <1>5, <2>1
<1>7. CASE Refuse \/ CutOff \/ Reject
  BY <1>5, <1>7 DEF Refuse, CutOff, Reject, Hears, HeardFrom, resultVars
<1>8. CASE Accept
  BY <1>5, <1>8 DEF Accept, Store
<1>9. CASE TimeOut
  BY <1>5, <1>9 DEF TimeOut, Store
<1>10. CASE Count
  BY <1>5, <1>10 DEF Count
<1>11. CASE Thread
  BY <1>3, <1>6, <1>7, <1>8, <1>9, <1>10, <1>11 DEF Thread
<1>12. CASE UNCHANGED vars
  BY <1>5, <1>12 DEF vars, resultVars
<1> QED
  BY <1>4, <1>6, <1>11, <1>12 DEF Next, PollInVain, resultVars

\* Whatever people type, 0 and numbers too large among it: what is stored for a
\* choice, a vote and the correct answer of a question is one of what was
\* offered, and a parameter without a default has got a value that fits
\* (InputChoiceRule::run, InputVoteRule::run, ParameterVisitor).
THEOREM ChoicesAreOffered == Spec => []AnswersOffered
<1>1. OfferInv => AnswersOffered
  BY DEF OfferInv
<1> QED
  BY <1>1, OwnInit, OwnStep, TurnsInit, TurnsStep, OfferInit, OfferStep, PTL DEF Spec

-----------------------------------------------------------------------------
(* That votes are counted *)

\* The answers there are belong to this step or to one before it, and to one
\* before it as long as this one has not come to its questions.
Unanswered == phase \in {"setup", "ballot", "cropping", "listing"}
NewInv ==
    \A q \in DOMAIN answers :
        q[1] \in Nat /\ q[1] <= at /\ (Unanswered => q[1] < at)

\* The candidates get the votes that were given, and each voter that is still
\* to come has given none.
VotesFor(c) == {q \in DOMAIN answers : q[1] = at /\ answers[q].says = c}
VoteInv ==
    AtVote =>
        /\ IsInjective(left[1])
        /\ \A p \in Range(left[1]) : Question(1, p) \notin DOMAIN answers
        /\ phase = "voting" =>
              \A c \in DOMAIN votes :
                  IsFiniteSet(VotesFor(c)) /\ votes[c] = Cardinality(VotesFor(c))

\* No player is twice in the list of voters.
VotersOnce ==
    \A g \in Games : \A i \in 1..Len(g.script) :
        g.script[i].kind = "vote" => IsInjective(g.script[i].lists[1])

LEMMA NewStays ==
  ASSUME NewInv, UNCHANGED <<at, answers>>, Unanswered' => Unanswered
  PROVE  NewInv'
BY DEF NewInv

LEMMA NewEnters ==
  ASSUME NewInv, TurnsInv, Enter(at + 1), answers' = answers
  PROVE  NewInv'
BY DEF NewInv, TurnsInv, Enter

LEMMA NewBegins ==
  ASSUME NewInv, TurnsInv, EndSetup
  PROVE  NewInv'
BY DEF NewInv, TurnsInv, EndSetup, Enter, Unanswered, resultVars

LEMMA NewStored ==
  ASSUME NewInv, TurnsInv, NEW q, q[1] = at, at' = at, ~Unanswered',
         DOMAIN answers' = DOMAIN answers \cup {q}
  PROVE  NewInv'
BY DEF NewInv, TurnsInv

LEMMA NewInit == Init => NewInv
BY DEF Init, NewInv

LEMMA NewStep == TurnsInv /\ NewInv /\ [Next]_vars => NewInv'
<1> SUFFICES ASSUME TurnsInv, NewInv, [Next]_vars PROVE NewInv'
  OBVIOUS
<1>1. CASE \/ SetupTakes \/ Reject \/ (\E k \in Keys : Expire(k)) \/ OtherLooks \/ OtherCrops
           \/ PollInVain \/ UNCHANGED vars
           \/ UNCHANGED <<setupVars, phase, at, branchVars, voteVars, resultVars>>
  <2>1. UNCHANGED <<phase, at, answers>>
    BY <1>1 DEF SetupTakes, Reject, Expire, OtherLooks, OtherCrops, PollInVain, vars,
       resultVars
  <2> QED
    BY <2>1, NewStays DEF Unanswered
<1>2. CASE SetupThrows \/ PromptThrows \/ PollThrows \/ TimeOutThrows \/ BallotThrows
           \/ VoteThrows \/ ListThrows
  <2>1. UNCHANGED <<at, answers>> /\ phase' = "crashed"
    BY <1>2 DEF SetupThrows, PromptThrows, PollThrows, TimeOutThrows, BallotThrows,
       VoteThrows, ListThrows, Throws, resultVars
  <2> QED
    BY <2>1, NewStays DEF Unanswered
<1>3. CASE Refuse \/ FindNothing \/ (\E b \in 1..Cardinality(Player) : BeginTurn(b))
  <2>1. UNCHANGED <<at, answers>> /\ phase' \in {"next", "polling"}
    BY <1>3 DEF Refuse, FindNothing, Suspend, Running, BeginTurn, resultVars
  <2> QED
    BY <2>1, NewStays DEF Unanswered
<1>4. CASE Accept \/ TimeOut
  <2>1. PICK v : Store(v)
    BY <1>4 DEF Accept, TimeOut
  <2> DEFINE q == Question(turn, element[Name(turn)])
  <2>2. /\ DOMAIN answers' = DOMAIN answers \cup {q} /\ at' = at /\ phase' = "next"
        /\ q[1] = at
    BY <2>1 DEF Store, Question
  <2> HIDE DEF q
  <2> QED
    BY <2>2, NewStored DEF Unanswered
<1>5. CASE Count
  <2> DEFINE q == Question(1, Polled)
  <2>1. /\ DOMAIN answers' = DOMAIN answers \cup {q} /\ at' = at /\ phase' = "voting"
        /\ q[1] = at
    BY <1>5 DEF Count, Polling, Question
  <2> HIDE DEF q
  <2> QED
    BY <2>1, NewStored DEF Unanswered
<1>6. CASE Ballot \/ Crop \/ List
  BY <1>6, NewStays DEF Ballot, Crop, List, AfterLook, resultVars, Unanswered
<1>7. CASE CutOff \/ EndStep \/ EndVote
  BY <1>7, NewEnters DEF CutOff, EndStep, EndVote, resultVars
<1>8. CASE Thread
  BY <1>1, <1>2, <1>3, <1>4, <1>5, <1>6, <1>7, <1>8, NewBegins DEF Thread
<1> QED
  BY <1>1, <1>8 DEF Next

-----------------------------------------------------------------------------
LEMMA InjectiveTail ==
  ASSUME NEW s \in Seq(Player), s # <<>>, IsInjective(s)
  PROVE  /\ IsInjective(Tail(s)) /\ Head(s) \notin Range(Tail(s))
         /\ Range(Tail(s)) \subseteq Range(s) /\ Head(s) \in Range(s)
<1>1. /\ Len(s) \in Nat /\ DOMAIN s = 1..Len(s) /\ DOMAIN Tail(s) = 1..(Len(s) - 1)
      /\ \A i \in 1..(Len(s) - 1) : Tail(s)[i] = s[i + 1]
      /\ Head(s) = s[1] /\ 1 \in 1..Len(s)
  OBVIOUS
<1>2. \A i \in 1..(Len(s) - 1) : i + 1 \in 1..Len(s) /\ i + 1 # 1
  BY <1>1
<1>3. Range(Tail(s)) \subseteq Range(s) /\ Head(s) \in Range(s)
  BY <1>1, <1>2 DEF Range
<1>4. Head(s) \notin Range(Tail(s))
  BY <1>1, <1>2 DEF Range, IsInjective
<1>5. ASSUME NEW i \in 1..(Len(s) - 1), NEW j \in 1..(Len(s) - 1), Tail(s)[i] = Tail(s)[j]
      PROVE  i = j
  <2>1. s[i + 1] = s[j + 1]
    BY <1>1, <1>5
  <2>2. i + 1 = j + 1
    BY <1>1, <1>2, <2>1 DEF IsInjective
  <2> QED
    BY <1>1, <2>2
<1>6. IsInjective(Tail(s))
  BY <1>1, <1>5 DEF IsInjective
<1> QED
  BY <1>3, <1>4, <1>6

LEMMA VoteStays ==
  ASSUME VoteInv, UNCHANGED <<game, at, left, answers, votes>>,
         AtVote' => AtVote /\ (phase' = "voting" => phase = "voting")
  PROVE  VoteInv'
<1>1. \A c : VotesFor(c)' = VotesFor(c)
  BY DEF VotesFor
<1>2. \A p : Question(1, p)' = Question(1, p)
  BY DEF Question, Step
<1> QED
  BY <1>1, <1>2 DEF VoteInv

\* The list of candidates is made anew.
LEMMA VoteListed ==
  ASSUME NewInv, VoteInv, TurnsInv, List
  PROVE  VoteInv'
<1>1. /\ phase = "listing" /\ phase' = "voting" /\ UNCHANGED <<game, at, left, answers>>
      /\ votes' = [c \in 1..Step.offers |-> 0]
  BY DEF List, setupVars, branchVars, resultVars
<1>2. \A c : VotesFor(c)' = {}
  BY <1>1 DEF VotesFor, NewInv, Unanswered, TurnsInv
<1>3. IsFiniteSet({}) /\ Cardinality({}) = 0
  BY FS_EmptySet
<1>4. \A c \in DOMAIN votes' :
         IsFiniteSet(VotesFor(c)') /\ votes'[c] = Cardinality(VotesFor(c)')
  BY <1>1, <1>2, <1>3
<1>5. \A p : Question(1, p)' = Question(1, p)
  BY <1>1 DEF Question, Step
<1> QED
  BY <1>1, <1>4, <1>5 DEF VoteInv, AtVote

\* A voter gives a first vote, and is not asked again.
LEMMA VoteCounted ==
  ASSUME NewInv, VoteInv, TurnsInv, Count
  PROVE  VoteInv'
<1> DEFINE t == Head(inbox[Polled])
           q == Question(1, Polled)
           v == [from |-> "typed", says |-> t.says, by |-> t.by, offers |-> Step.offers]
<1>1. /\ phase = "voting" /\ phase' = phase /\ left[1] # <<>>
      /\ votes' = [votes EXCEPT ![t.says] = @ + 1]
      /\ answers' = [r \in DOMAIN answers \cup {q} |-> IF r = q THEN v ELSE answers[r]]
      /\ left' = [left EXCEPT ![1] = Tail(@)] /\ UNCHANGED <<game, at>>
  BY DEF Count, Polling, VotedFor, setupVars
<1>2. q[1] = at /\ v.says = t.says /\ q = Question(1, Head(left[1]))
  BY DEF Question, Polled
<1>3. \A p, r : Question(1, p)' = Question(1, p) /\ (Question(1, p) = Question(1, r) => p = r)
  BY <1>1 DEF Question, Step
<1>4. left[1] \in Seq(Player) /\ left'[1] = Tail(left[1])
  <2>1. StepInv
    BY <1>1 DEF TurnsInv, AtStep
  <2>2. 1 \in Branches
    BY <1>1, <2>1, ScriptIs DEF TurnsInv, StepInv, AtVote, Step, Branches
  <2> QED
    BY <1>1, <2>1, <2>2 DEF StepInv
<1>5. /\ IsInjective(left[1]) /\ \A p \in Range(left[1]) : Question(1, p) \notin DOMAIN answers
      /\ \A c \in DOMAIN votes :
            IsFiniteSet(VotesFor(c)) /\ votes[c] = Cardinality(VotesFor(c))
  BY <1>1 DEF VoteInv, AtVote
<1>6. /\ IsInjective(Tail(left[1])) /\ Head(left[1]) \notin Range(Tail(left[1]))
      /\ Range(Tail(left[1])) \subseteq Range(left[1]) /\ Head(left[1]) \in Range(left[1])
  BY <1>1, <1>4, <1>5, InjectiveTail
<1>7. q \notin DOMAIN answers
  BY <1>2, <1>5, <1>6
<1> HIDE DEF q, v, t
<1>8. DOMAIN answers' = DOMAIN answers \cup {q}
  BY <1>1
<1>9. \A p \in Range(left'[1]) : Question(1, p)' \notin DOMAIN answers'
  BY <1>2, <1>3, <1>4, <1>5, <1>6, <1>8
<1>10. answers'[q] = v /\ \A r \in DOMAIN answers : answers'[r] = answers[r]
  BY <1>1, <1>7
<1>11. ASSUME NEW c \in DOMAIN votes'
       PROVE  IsFiniteSet(VotesFor(c)') /\ votes'[c] = Cardinality(VotesFor(c)')
  <2>1. c \in DOMAIN votes
    BY <1>1, <1>11
  <2>2. q \notin VotesFor(c)
    BY <1>7 DEF VotesFor
  <2>3. CASE c = t.says
    <3>1. VotesFor(c)' = VotesFor(c) \cup {q}
      BY <1>1, <1>2, <1>8, <1>10, <2>3 DEF VotesFor
    <3>2. votes'[c] = votes[c] + 1
      BY <1>1, <2>1, <2>3
    <3> HIDE DEF VotesFor
    <3> QED
      BY <1>5, <2>1, <2>2, <3>1, <3>2, FS_AddElement
  <2>4. CASE c # t.says
    <3>1. VotesFor(c)' = VotesFor(c)
      BY <1>1, <1>2, <1>8, <1>10, <2>4 DEF VotesFor
    <3>2. votes'[c] = votes[c]
      BY <1>1, <2>1, <2>4
    <3> QED
      BY <1>5, <2>1, <3>1, <3>2
  <2> QED
    BY <2>3, <2>4
<1> QED
  BY <1>4, <1>6, <1>9, <1>11 DEF VoteInv

\* A vote begins with all its voters, none of whom has voted in it.
LEMMA VoteEnters ==
  ASSUME VotersOnce, NewInv', TurnsInv', NEW i, Enter(i), game' = game
  PROVE  VoteInv'
<1> SUFFICES ASSUME AtVote' PROVE VoteInv'
  BY DEF VoteInv
<1>1. /\ phase' = "ballot" /\ at' = i /\ left' = game.script[i].lists
      /\ game.script[i].kind = "vote"
  BY DEF Enter, AtVote
<1>2. game \in Games /\ i \in 1..Len(game.script)
  BY <1>1, ScriptIs DEF TurnsInv, StepInv, AtStep
<1>3. IsInjective(left'[1])
  BY <1>1, <1>2 DEF VotersOnce
<1>4. \A p : Question(1, p)'[1] = at'
  BY DEF Question
<1>5. \A q \in DOMAIN answers' : q[1] \in Nat /\ q[1] < at'
  BY <1>1 DEF NewInv, Unanswered
<1>6. at' \in Nat
  BY <1>2 DEF TurnsInv
<1>7. \A p \in Range(left'[1]) : Question(1, p)' \notin DOMAIN answers'
  BY <1>4, <1>5, <1>6
<1> QED
  BY <1>1, <1>3, <1>7 DEF VoteInv

LEMMA VoteStep ==
  ASSUME VotersOnce
  PROVE  TurnsInv /\ TurnsInv' /\ NewInv /\ NewInv' /\ VoteInv /\ [Next]_vars => VoteInv'
<1> SUFFICES ASSUME TurnsInv, TurnsInv', NewInv, NewInv', VoteInv, [Next]_vars
             PROVE  VoteInv'
  OBVIOUS
<1>1. CASE \/ SetupTakes \/ Reject \/ (\E k \in Keys : Expire(k)) \/ OtherLooks \/ OtherCrops
           \/ PollInVain \/ UNCHANGED vars
           \/ UNCHANGED <<setupVars, phase, at, branchVars, voteVars, resultVars>>
  <2>1. UNCHANGED <<game, phase, at, left, answers, votes>>
    BY <1>1, GameStays DEF SetupTakes, Reject, Expire, OtherLooks, OtherCrops, PollInVain,
       vars, setupVars, branchVars, voteVars, resultVars
  <2> QED
    BY <2>1, VoteStays DEF AtVote
<1>2. CASE SetupThrows \/ PromptThrows \/ PollThrows \/ TimeOutThrows \/ BallotThrows
           \/ VoteThrows \/ ListThrows
  <2>1. phase' = "crashed"
    BY <1>2 DEF SetupThrows, PromptThrows, PollThrows, TimeOutThrows, BallotThrows,
       VoteThrows, ListThrows, Throws
  <2> QED
    BY <2>1 DEF VoteInv, AtVote
<1>3. CASE Refuse \/ FindNothing \/ Accept \/ TimeOut
           \/ (\E b \in 1..Cardinality(Player) : BeginTurn(b))
  <2>1. phase' \in {"next", "polling"}
    BY <1>3 DEF Refuse, FindNothing, Suspend, Running, Accept, TimeOut, Store, BeginTurn
  <2> QED
    BY <2>1 DEF VoteInv, AtVote
<1>4. CASE Ballot \/ Crop
  BY <1>4, VoteStays DEF Ballot, Crop, AfterLook, AtVote, setupVars, branchVars, voteVars,
     resultVars
<1>5. CASE CutOff \/ EndStep \/ EndVote \/ EndSetup
  <2>1. game' = game /\ \E i : Enter(i)
    BY <1>5 DEF CutOff, EndStep, EndVote, EndSetup, setupVars
  <2> QED
    BY <2>1, VoteEnters
<1>6. CASE Thread
  BY <1>1, <1>2, <1>3, <1>4, <1>5, <1>6, VoteListed, VoteCounted DEF Thread
<1> QED
  BY <1>1, <1>6 DEF Next

\* However the voters come and go and type: the count of each candidate is the
\* number of votes given for it in this vote, none of another vote with the same
\* rule and none counted twice (InputVoteRule::run).
THEOREM VotesAreCounted ==
    ASSUME VotersOnce
    PROVE  Spec => []VotesAgree
<1>1. Init => VoteInv
  BY DEF Init, VoteInv, AtVote
<1>2. VoteInv => VotesAgree
  BY DEF VoteInv, VotesAgree, VotesFor, AtVote
<1> QED
  BY <1>1, <1>2, TurnsInit, TurnsStep, NewInit, NewStep, VoteStep, PTL DEF Spec

-----------------------------------------------------------------------------
(* That a question is answered once *)

\* No step asks a player with the same rule twice.
EachOnce ==
    \A g \in Games : \A i \in 1..Len(g.script) : LET s == g.script[i] IN
        /\ \A b \in DOMAIN s.lists : IsInjective(s.lists[b])
        /\ \A b, c \in DOMAIN s.lists :
              b # c /\ s.rules[b] = s.rules[c] => Range(s.lists[b]) \cap Range(s.lists[c]) = {}

\* The branches that have come to a player who has not answered yet.
Live == IF phase = "polling" THEN waiting \cup {turn} ELSE waiting
InTurns == phase \in {"next", "polling"}

\* The states of the inputs are those of the live branches.
StatesLive ==
    /\ InTurns => DOMAIN clock = {Key(b) : b \in Live}
    /\ phase \in {"setup", "ballot", "cropping", "listing", "voting", "ended"} =>
          DOMAIN clock = {}

\* The branch that has its turn has its element.
TurnLive ==
    /\ InTurns => waiting \subseteq Branches /\ (waiting # {} => Parallel)
    /\ phase = "polling" =>
          turn \in Branches \ waiting /\ element[Name(turn)] = ResumedFor(turn)

\* A live branch is at a player who has been asked and has not answered; those
\* it has not come to have not answered either.
BranchAsks(b) ==
    /\ IsInjective(left[b]) /\ Range(left[b]) \subseteq Range(Step.lists[b])
    /\ \A p \in Range(left[b]) : Question(b, p) \notin DOMAIN answers
    /\ b \in Live =>
          /\ ResumedFor(b) \in Range(Step.lists[b]) \ Range(left[b])
          /\ Question(b, ResumedFor(b)) \in put \ DOMAIN answers

AskInv ==
    /\ StatesLive /\ TurnLive
    /\ InTurns => \A b \in Branches : BranchAsks(b)
    /\ AtVote => Range(left[1]) \subseteq Range(Voters)
    /\ phase \in {"cropping", "listing", "voting"} =>
          \A p \in Range(left[1]) : Question(1, p) \in put

\* What a step of the script is, in a game in which each is asked once.
LEMMA StepIs ==
  ASSUME EachOnce, TurnsInv, AtStep
  PROVE  /\ game \in Games /\ at \in 1..Len(game.script) /\ Step \in ScriptStep
         /\ Step.kind \in StepKinds /\ Step.rules \in [Branches -> Rule]
         /\ Step.lists \in [Branches -> Seq(Player)]
         /\ \A b \in Branches : IsInjective(Step.lists[b])
         /\ \A b, c \in Branches :
               b # c /\ Step.rules[b] = Step.rules[c] =>
                  Range(Step.lists[b]) \cap Range(Step.lists[c]) = {}
         /\ Step.kind = "inparallel" =>
               \A b, c \in Branches : Step.rules[b] = Step.rules[c] => b = c
         /\ Step.kind = "parallelfor" =>
               \A b \in Branches : Range(Step.lists[b]) = {Step.lists[b][1]}
         /\ Step.kind \in {"foreach", "vote"} => Branches = {1}
         /\ Step.timed => Step.kind = "foreach"
<1>1. game \in Games /\ at \in 1..Len(game.script)
  BY ScriptIs DEF TurnsInv, StepInv
<1>2. /\ Step \in ScriptStep /\ Step.kind \in StepKinds
      /\ Step.lists \in [Branches -> Seq(Player)]
      /\ Step.kind = "parallelfor" =>
            \A b \in Branches : Range(Step.lists[b]) = {Step.lists[b][1]}
      /\ Step.kind \in {"foreach", "vote"} => Branches = {1}
      /\ Step.timed => Step.kind = "foreach"
  BY <1>1, ScriptIs DEF Step, Branches
<1>3. /\ \A b \in Branches : IsInjective(Step.lists[b])
      /\ \A b, c \in Branches :
            b # c /\ Step.rules[b] = Step.rules[c] =>
               Range(Step.lists[b]) \cap Range(Step.lists[c]) = {}
  BY <1>1 DEF EachOnce, Step, Branches
<1>4. Step.rules \in [Branches -> Rule]
  <2>1. Step.rules \in Seq(Rule) /\ Step.lists \in Seq(Seq(Player))
    BY <1>2 DEF ScriptStep
  <2>2. Len(Step.lists) = Len(Step.rules)
    BY <1>1, InputsAssumption DEF Step
  <2>3. Branches = 1..Len(Step.lists)
    <3> DEFINE T == Seq(Player)
               l == Step.lists
    <3>1. l \in Seq(T)
      BY <2>1
    <3> HIDE DEF T, l
    <3>2. DOMAIN l = 1..Len(l)
      BY ONLY <3>1
    <3> QED
      BY <3>2 DEF l, Branches
  <2>4. Step.rules \in [1..Len(Step.rules) -> Rule]
    <3> DEFINE r == Step.rules
    <3>1. r \in Seq(Rule)
      BY <2>1
    <3> HIDE DEF r
    <3>2. r \in [1..Len(r) -> Rule]
      BY ONLY <3>1
    <3> QED
      BY <3>2 DEF r
  <2> QED
    BY <2>2, <2>3, <2>4
<1>5. Step.kind = "inparallel" =>
         \A b, c \in Branches : Step.rules[b] = Step.rules[c] => b = c
  <2> SUFFICES ASSUME Step.kind = "inparallel"
               PROVE  \A b, c \in Branches : Step.rules[b] = Step.rules[c] => b = c
    OBVIOUS
  <2>1. IsInjective(Step.rules)
    BY <1>1, InputsAssumption DEF Step
  <2> QED
    BY <1>4, <2>1 DEF IsInjective
<1> QED
  BY <1>1, <1>2, <1>3, <1>4, <1>5

\* Each branch has a state of its own.
LEMMA KeysDiffer ==
  ASSUME EachOnce, TurnsInv, AtStep, NEW b \in Branches, NEW c \in Branches, Key(b) = Key(c)
  PROVE  b = c
<1>1. CASE Step.kind = "parallelfor"
  BY <1>1 DEF Key
<1>2. CASE Step.kind = "inparallel"
  BY <1>2, StepIs DEF Key
<1>3. CASE Step.kind \in {"foreach", "vote"}
  BY <1>3, StepIs
<1> QED
  BY <1>1, <1>2, <1>3, StepIs DEF StepKinds

\* Each question belongs to one branch.
LEMMA QuestionsDiffer ==
  ASSUME EachOnce, TurnsInv, AtStep, NEW b \in Branches, NEW c \in Branches, b # c,
         NEW p \in Range(Step.lists[b]), NEW r \in Range(Step.lists[c])
  PROVE  Question(b, p) # Question(c, r)
BY StepIs DEF Question

LEMMA QuestionIs ==
  ASSUME EachOnce, TurnsInv, AtStep, NEW b \in Branches, NEW p \in Range(Step.lists[b])
  PROVE  Question(b, p) \in Questions /\ p \in Player
<1>1. Step.rules[b] \in Rule /\ at \in 1..Len(game.script) /\ Step.lists[b] \in Seq(Player)
  BY StepIs
<1>2. p \in Player
  BY <1>1 DEF Range
<1>3. at \in Nat
  BY <1>1
<1> QED
  BY <1>1, <1>2, <1>3 DEF Question, Questions

-----------------------------------------------------------------------------
LEMMA AskStays ==
  ASSUME AskInv, UNCHANGED <<game, phase, at, left, waiting, turn, element, put, answers>>,
         DOMAIN clock' = DOMAIN clock
  PROVE  AskInv'
<1>1. Step' = Step /\ Branches' = Branches /\ Live' = Live /\ InTurns' = InTurns
      /\ Parallel' = Parallel
  BY DEF Step, Branches, Live, InTurns, Parallel
<1>2. \A b : Key(b)' = Key(b) /\ ResumedFor(b)' = ResumedFor(b) /\ Name(b)' = Name(b)
             /\ \A p : Question(b, p)' = Question(b, p)
  BY <1>1 DEF Key, ResumedFor, Name, Question
<1>3. StatesLive'
  BY <1>1, <1>2 DEF AskInv, StatesLive
<1>4. TurnLive'
  BY <1>1, <1>2 DEF AskInv, TurnLive
<1>5. \A b \in Branches : BranchAsks(b) => BranchAsks(b)'
  BY <1>1, <1>2 DEF BranchAsks
<1>6. Voters' = Voters /\ (AtVote' <=> AtVote)
  BY <1>1 DEF Voters, AtVote
<1>7. (\A b \in Branches : BranchAsks(b)) => \A b \in Branches' : BranchAsks(b)'
  BY <1>1, <1>5
<1> QED
  BY <1>1, <1>2, <1>3, <1>4, <1>6, <1>7 DEF AskInv

LEMMA AskCrashes ==
  ASSUME phase' = "crashed"
  PROVE  AskInv'
BY DEF AskInv, StatesLive, TurnLive, InTurns, AtVote

\* A step begins with nobody asked.
LEMMA AskEnters ==
  ASSUME EachOnce, TurnsInv', NEW i, Enter(i), game' = game, DOMAIN clock' = {},
         \A q \in DOMAIN answers' : q[1] # at'
  PROVE  AskInv'
<1>1. at' = i /\ waiting' = {} /\ phase' \in {"next", "ballot", "ended"} /\ Live' = {}
  BY DEF Enter, Live
<1>2. StatesLive' /\ TurnLive'
  BY <1>1 DEF StatesLive, TurnLive, InTurns
<1>3. CASE phase' = "ended"
  BY <1>2, <1>3 DEF AskInv, InTurns, AtVote
<1>4. CASE phase' # "ended"
  <2>1. left' = game.script[i].lists /\ Step' = game.script[i] /\ game \in Games
        /\ i \in 1..Len(game.script)
    BY <1>1, <1>4, ScriptIs DEF Enter, Step, TurnsInv, StepInv, AtStep
  <2>2. \A b, p : Question(b, p)'[1] = at'
    BY DEF Question
  <2>3. ASSUME NEW b \in Branches' PROVE BranchAsks(b)'
    <3>1. left'[b] = Step'.lists[b] /\ IsInjective(left'[b])
      BY <2>1, <2>3 DEF EachOnce, Branches
    <3> QED
      BY <1>1, <2>2, <3>1 DEF BranchAsks
  <2>4. AtVote' => Range(left[1])' \subseteq Range(Voters)'
    BY <2>1 DEF Voters
  <2> QED
    BY <1>1, <1>2, <2>3, <2>4 DEF AskInv
<1> QED
  BY <1>3, <1>4

\* An input is suspended.
LEMMA AskSuspends ==
  ASSUME AskInv, phase = "polling", Parallel, Suspend,
         UNCHANGED <<game, at, left, element, clock, put, answers>>
  PROVE  AskInv'
<1>1. waiting' = waiting \cup {turn} /\ phase' = "next" /\ Live' = Live
      /\ InTurns /\ InTurns'
  BY DEF Suspend, Live, InTurns
<1>2. Step' = Step /\ Branches' = Branches /\ Parallel'
  BY DEF Step, Branches, Parallel
<1>3. \A b : Key(b)' = Key(b) /\ ResumedFor(b)' = ResumedFor(b)
             /\ \A p : Question(b, p)' = Question(b, p)
  BY <1>2 DEF Key, ResumedFor, Name, Question
<1>4. StatesLive'
  BY <1>1, <1>3 DEF AskInv, StatesLive
<1>5. TurnLive'
  BY <1>1, <1>2 DEF AskInv, TurnLive
<1>6. \A b \in Branches : BranchAsks(b) => BranchAsks(b)'
  BY <1>1, <1>2, <1>3 DEF BranchAsks
<1> QED
  BY <1>1, <1>2, <1>4, <1>5, <1>6 DEF AskInv, AtVote

\* The branch b goes on: with the player it was suspended at, whom nobody else
\* is about, or with its next one.
LEMMA AskBegins ==
  ASSUME EachOnce, TurnsInv, AskInv, NEW b \in 1..Cardinality(Player), BeginTurn(b)
  PROVE  AskInv'
<1>1. /\ phase = "next" /\ phase' = "polling" /\ turn' = b
      /\ element' = [element EXCEPT ![Name(b)] = For(b)]
      /\ left' = IF b \in waiting THEN left ELSE [left EXCEPT ![b] = Tail(@)]
      /\ waiting' = waiting \ {b}
      /\ b \in Branches /\ (b \in waiting \/ left[b] # <<>>)
      /\ UNCHANGED <<game, at, answers>>
      /\ AtStep /\ InTurns /\ InTurns' /\ ~AtVote'
  BY DEF BeginTurn, setupVars, Visited, Unfinished, AtStep, InTurns, AtVote
<1>2. /\ IF Unput(b)
         THEN /\ DOMAIN clock' = DOMAIN clock \cup {Key(b)}
              /\ put' = put \cup {Question(b, For(b))}
         ELSE UNCHANGED <<clock, put>>
  BY DEF BeginTurn
<1>3. Step' = Step /\ Branches' = Branches /\ (Parallel' <=> Parallel)
  BY <1>1 DEF Step, Branches, Parallel
<1>4. \A c : Key(c)' = Key(c) /\ Name(c)' = Name(c)
             /\ \A p : Question(c, p)' = Question(c, p)
  BY <1>1, <1>3 DEF Key, Name, Question
<1>5. Live = waiting /\ Live' = waiting \cup {b} /\ waiting \subseteq Branches
  BY <1>1 DEF Live, AskInv, TurnLive
<1>6. Unput(b) <=> b \notin waiting
  BY <1>1, <1>5, KeysDiffer DEF AskInv, StatesLive, Unput
<1>7. /\ left \in [Branches -> Seq(Player)] /\ left[b] \in Seq(Player)
      /\ Name(b) \in DOMAIN element
  <2>1. DOMAIN element = 1..Cardinality(Player) /\ StepInv
    BY <1>1 DEF TurnsInv
  <2>2. Name(b) \in 1..Cardinality(Player)
    BY SomePlayers DEF Name
  <2> QED
    BY <1>1, <2>1, <2>2 DEF StepInv
<1>8. BranchAsks(b)
  BY <1>1 DEF AskInv
<1>9. /\ For(b) \in Range(Step.lists[b]) \ Range(left'[b])
      /\ Question(b, For(b)) \in put' \ DOMAIN answers
      /\ IsInjective(left'[b]) /\ Range(left'[b]) \subseteq Range(left[b])
  <2>1. CASE b \in waiting
    BY <1>1, <1>2, <1>5, <1>6, <1>8, <2>1 DEF BranchAsks, For
  <2>2. CASE b \notin waiting
    <3>1. left'[b] = Tail(left[b]) /\ For(b) = Head(left[b]) /\ left[b] # <<>>
      BY <1>1, <1>7, <2>2 DEF For
    <3>2. /\ IsInjective(Tail(left[b])) /\ Head(left[b]) \notin Range(Tail(left[b]))
          /\ Range(Tail(left[b])) \subseteq Range(left[b]) /\ Head(left[b]) \in Range(left[b])
      BY <1>7, <1>8, <3>1, InjectiveTail DEF BranchAsks
    <3> QED
      BY <1>2, <1>6, <1>8, <2>2, <3>1, <3>2 DEF BranchAsks
  <2> QED
    BY <2>1, <2>2
<1>10. put \subseteq put'
  BY <1>2
<1>11. ResumedFor(b)' = For(b) /\ element'[Name(b)] = For(b)
  <2>1. element'[Name(b)] = For(b)
    BY <1>1, <1>7
  <2>2. CASE Step.kind = "parallelfor"
    <3>1. ResumedFor(b)' = Step.lists[b][1]
      BY <1>3, <2>2 DEF ResumedFor
    <3>2. Range(Step.lists[b]) = {Step.lists[b][1]}
      BY <1>1, <2>2, StepIs
    <3> QED
      BY <1>9, <2>1, <3>1, <3>2
  <2>3. CASE Step.kind # "parallelfor"
    BY <1>3, <1>4, <2>1, <2>3 DEF ResumedFor
  <2> QED
    BY <2>1, <2>2, <2>3
<1>12. ASSUME NEW c \in Branches, c # b PROVE BranchAsks(c)'
  <2>1. BranchAsks(c)
    BY <1>1 DEF AskInv
  <2>2. left'[c] = left[c] /\ (c \in Live' <=> c \in Live)
    BY <1>1, <1>5, <1>7, <1>12
  <2>3. c \in Live => ResumedFor(c)' = ResumedFor(c)
    <3>1. CASE Step.kind = "parallelfor"
      BY <1>3, <3>1 DEF ResumedFor
    <3>2. CASE Step.kind = "inparallel"
      <4>1. element'[Name(c)] = element[Name(c)]
        BY <1>1, <1>12, <3>2 DEF Name
      <4> QED
        BY <1>3, <1>4, <3>2, <4>1 DEF ResumedFor
    <3>3. CASE Step.kind \notin {"parallelfor", "inparallel"}
      BY <1>1, <1>5, <3>3 DEF AskInv, TurnLive, Parallel
    <3> QED
      BY <3>1, <3>2, <3>3
  <2> QED
    BY <1>1, <1>3, <1>4, <1>10, <2>1, <2>2, <2>3 DEF BranchAsks
<1>13. BranchAsks(b)'
  <2>1. /\ IsInjective(left'[b]) /\ Range(left'[b]) \subseteq Range(Step.lists[b])
        /\ \A p \in Range(left'[b]) : Question(b, p) \notin DOMAIN answers
    BY <1>8, <1>9 DEF BranchAsks
  <2> QED
    BY <1>1, <1>3, <1>4, <1>9, <1>11, <2>1 DEF BranchAsks
<1>14. StatesLive'
  <2>1. DOMAIN clock = {Key(c) : c \in waiting}
    BY <1>1, <1>5 DEF AskInv, StatesLive
  <2>2. DOMAIN clock' = {Key(c) : c \in waiting \cup {b}}
    <3>1. CASE b \in waiting
      <4>1. waiting \cup {b} = waiting
        BY <3>1
      <4> QED
        BY <1>2, <1>6, <2>1, <3>1, <4>1
    <3>2. CASE b \notin waiting
      BY <1>2, <1>6, <2>1, <3>2
    <3> QED
      BY <3>1, <3>2
  <2> QED
    BY <1>1, <1>4, <1>5, <2>2 DEF StatesLive
<1>15. TurnLive'
  BY <1>1, <1>3, <1>4, <1>11 DEF AskInv, TurnLive
<1> QED
  BY <1>1, <1>3, <1>12, <1>13, <1>14, <1>15 DEF AskInv

\* The branch that has its turn has an answer.
LEMMA AskStores ==
  ASSUME EachOnce, TurnsInv, AskInv, phase = "polling", NEW v, Store(v), put' = put
  PROVE  /\ AskInv'
         /\ Question(turn, element[Name(turn)]) \in put \ DOMAIN answers
<1> DEFINE q == Question(turn, element[Name(turn)])
<1>1. /\ DOMAIN answers' = DOMAIN answers \cup {q}
      /\ DOMAIN clock' = DOMAIN clock \ {Key(turn)}
      /\ phase' = "next"
      /\ UNCHANGED <<game, at, left, waiting, element, put>>
      /\ AtStep /\ InTurns /\ InTurns' /\ ~AtVote'
  BY DEF Store, Delete, setupVars, AtStep, InTurns, AtVote
<1>2. Step' = Step /\ Branches' = Branches /\ (Parallel' <=> Parallel)
  BY <1>1 DEF Step, Branches, Parallel
<1>3. \A b : Key(b)' = Key(b) /\ ResumedFor(b)' = ResumedFor(b)
             /\ \A p : Question(b, p)' = Question(b, p)
  BY <1>1, <1>2 DEF Key, ResumedFor, Name, Question
<1>4. /\ turn \in Branches \ waiting /\ waiting \subseteq Branches
      /\ Live = waiting \cup {turn} /\ Live' = waiting
      /\ q = Question(turn, ResumedFor(turn))
  BY <1>1 DEF AskInv, TurnLive, Live
<1>5. BranchAsks(turn) /\ turn \in Live
  BY <1>1, <1>4 DEF AskInv
<1>6. q \in put \ DOMAIN answers
  BY <1>4, <1>5 DEF BranchAsks
<1>7. /\ ResumedFor(turn) \in Range(Step.lists[turn]) \ Range(left[turn])
      /\ Range(left[turn]) \subseteq Range(Step.lists[turn])
  BY <1>5 DEF BranchAsks
<1>8. ASSUME NEW b \in Branches PROVE BranchAsks(b)'
  <2>1. BranchAsks(b)
    BY <1>1 DEF AskInv
  <2>2. CASE b # turn
    <3>1. \A p \in Range(Step.lists[b]) : Question(b, p) # q
      BY <1>1, <1>4, <1>7, <2>2, QuestionsDiffer
    <3>2. b \in Live' <=> b \in Live
      BY <1>4, <2>2
    <3> HIDE DEF q
    <3> QED
      BY <1>1, <1>2, <1>3, <2>1, <3>1, <3>2 DEF BranchAsks
  <2>3. CASE b = turn
    <3>1. \A p, r : Question(b, p) = Question(b, r) => p = r
      BY DEF Question
    <3>2. \A p \in Range(left[b]) : Question(b, p) # q
      BY <1>4, <1>7, <2>3, <3>1
    <3>3. b \notin Live'
      BY <1>4, <2>3
    <3> HIDE DEF q
    <3> QED
      BY <1>1, <1>2, <1>3, <2>1, <3>2, <3>3 DEF BranchAsks
  <2> QED
    BY <2>2, <2>3
<1>9. StatesLive'
  <2>1. DOMAIN clock = {Key(b) : b \in waiting \cup {turn}}
    BY <1>1, <1>4 DEF AskInv, StatesLive
  <2>2. \A b \in waiting : Key(b) # Key(turn)
    BY <1>1, <1>4, KeysDiffer
  <2>3. DOMAIN clock' = {Key(b) : b \in waiting}
    BY <1>1, <2>1, <2>2
  <2> QED
    BY <1>1, <1>3, <1>4, <2>3 DEF StatesLive
<1>10. TurnLive'
  BY <1>1, <1>2 DEF AskInv, TurnLive
<1>11. AskInv'
  BY <1>1, <1>2, <1>8, <1>9, <1>10 DEF AskInv
<1> QED
  BY <1>6, <1>11

\* The voters are asked, all at once.
LEMMA AskVoters ==
  ASSUME AskInv, Ballot
  PROVE  AskInv'
<1>1. /\ phase = "ballot" /\ phase' \in {"cropping", "listing"}
      /\ put' = put \cup {Question(1, p) : p \in Range(Voters)}
      /\ UNCHANGED <<game, at, left, clock>>
  BY DEF Ballot, AfterLook, setupVars, branchVars
<1>2. Step' = Step /\ Range(left[1]) \subseteq Range(Voters)
  BY <1>1 DEF Step, AskInv, AtVote
<1>3. StatesLive' /\ TurnLive'
  BY <1>1 DEF AskInv, StatesLive, TurnLive, InTurns
<1>4. \A p \in Range(left[1]) : Question(1, p)' \in put'
  BY <1>1, <1>2 DEF Question
<1> QED
  BY <1>1, <1>2, <1>3, <1>4 DEF AskInv, InTurns, Voters

LEMMA AskVoteGoesOn ==
  ASSUME AskInv, phase \in {"cropping", "listing", "voting"},
         phase' \in {"cropping", "listing", "voting"},
         UNCHANGED <<game, at, clock, put>>, Range(left'[1]) \subseteq Range(left[1])
  PROVE  AskInv'
<1>1. Step' = Step /\ Voters' = Voters
  BY DEF Step, Voters
<1>2. \A p : Question(1, p)' = Question(1, p)
  BY <1>1 DEF Question
<1>3. StatesLive' /\ TurnLive'
  BY DEF AskInv, StatesLive, TurnLive, InTurns
<1>4. Range(left[1]) \subseteq Range(Voters) /\ \A p \in Range(left[1]) : Question(1, p) \in put
  BY DEF AskInv, AtVote
<1> QED
  BY <1>1, <1>2, <1>3, <1>4 DEF AskInv, InTurns

\* A voter is asked before voting, and votes once.
LEMMA AskCounts ==
  ASSUME TurnsInv, VoteInv, AskInv, Count
  PROVE  AskInv' /\ Question(1, Polled) \in put \ DOMAIN answers
<1>1. /\ phase = "voting" /\ phase' = phase /\ left[1] # <<>>
      /\ left' = [left EXCEPT ![1] = Tail(@)] /\ UNCHANGED <<game, at, clock, put>>
  BY DEF Count, Polling, setupVars
<1>2. left[1] \in Seq(Player) /\ left'[1] = Tail(left[1])
  <2>1. StepInv
    BY <1>1 DEF TurnsInv, AtStep
  <2>2. 1 \in Branches
    BY <1>1, <2>1, ScriptIs DEF TurnsInv, StepInv, AtVote, Step, Branches
  <2> QED
    BY <1>1, <2>1, <2>2 DEF StepInv
<1>3. IsInjective(left[1]) /\ \A p \in Range(left[1]) : Question(1, p) \notin DOMAIN answers
  BY <1>1 DEF VoteInv, AtVote
<1>4. Range(Tail(left[1])) \subseteq Range(left[1]) /\ Polled \in Range(left[1])
  BY <1>1, <1>2, <1>3, InjectiveTail DEF Polled
<1>5. Question(1, Polled) \in put \ DOMAIN answers
  BY <1>1, <1>3, <1>4 DEF AskInv
<1>6. AskInv'
  BY <1>1, <1>2, <1>4, AskVoteGoesOn
<1> QED
  BY <1>5, <1>6

LEMMA AskStep ==
  ASSUME EachOnce
  PROVE  TurnsInv /\ TurnsInv' /\ NewInv /\ VoteInv /\ AskInv /\ [Next]_vars => AskInv'
<1> SUFFICES ASSUME TurnsInv, TurnsInv', NewInv, VoteInv, AskInv, [Next]_vars PROVE AskInv'
  OBVIOUS
<1>1. CASE \/ SetupTakes \/ Reject \/ (\E k \in Keys : Expire(k)) \/ OtherLooks \/ OtherCrops
           \/ PollInVain \/ UNCHANGED vars
           \/ UNCHANGED <<setupVars, phase, at, branchVars, voteVars, resultVars>>
  <2>1. UNCHANGED <<game, phase, at, left, waiting, turn, element, put, answers>>
    BY <1>1, GameStays DEF SetupTakes, Reject, Expire, OtherLooks, OtherCrops, PollInVain,
       vars, setupVars, branchVars, resultVars
  <2>2. DOMAIN clock' = DOMAIN clock
    BY <1>1 DEF SetupTakes, Reject, Expire, OtherLooks, OtherCrops, PollInVain,
       vars, branchVars
  <2> QED
    BY <2>1, <2>2, AskStays
<1>2. CASE SetupThrows \/ PromptThrows \/ PollThrows \/ TimeOutThrows \/ BallotThrows
           \/ VoteThrows \/ ListThrows
  <2>1. phase' = "crashed"
    BY <1>2 DEF SetupThrows, PromptThrows, PollThrows, TimeOutThrows, BallotThrows,
       VoteThrows, ListThrows, Throws
  <2> QED
    BY <2>1, AskCrashes
<1>3. CASE Refuse \/ FindNothing
  <2>1. /\ phase = "polling"
        /\ UNCHANGED <<game, at, left, element, clock, put, answers>>
        /\ (Parallel /\ Suspend) \/ UNCHANGED <<phase, waiting, turn>>
    BY <1>3 DEF Refuse, FindNothing, Running, setupVars, resultVars
  <2> QED
    BY <2>1, AskSuspends, AskStays
<1>4. CASE Accept \/ TimeOut
  <2>1. PICK v : Store(v)
    BY <1>4 DEF Accept, TimeOut
  <2>2. phase = "polling" /\ put' = put
    BY <1>4, <2>1 DEF Accept, TimeOut, Running, Store
  <2> QED
    BY <2>1, <2>2, AskStores
<1>5. CASE Crop \/ List
  BY <1>5, AskVoteGoesOn DEF Crop, List, setupVars, branchVars, resultVars
<1>6. CASE EndStep \/ EndVote \/ CutOff
  <2>1. /\ Enter(at + 1) /\ game' = game /\ answers' = answers
    BY <1>6 DEF EndStep, EndVote, CutOff, setupVars, resultVars
  <2>2. \A r \in DOMAIN answers' : r[1] # at'
    BY <2>1 DEF NewInv, TurnsInv, Enter
  <2>3. DOMAIN clock' = {}
    <3>1. CASE EndStep
      <4>1. phase = "next" /\ waiting = {} /\ clock' = clock
        BY <3>1 DEF EndStep, Unfinished, AskInv, TurnLive, InTurns
      <4> QED
        BY <4>1 DEF AskInv, StatesLive, InTurns, Live
    <3>2. CASE EndVote
      BY <3>2 DEF EndVote, AskInv, StatesLive
    <3>3. CASE CutOff
      <4>1. phase = "polling" /\ Step.timed /\ DOMAIN clock' = DOMAIN clock \ {Key(turn)}
        BY <3>3 DEF CutOff, Running, Delete
      <4>2. waiting = {}
        BY <4>1, StepIs DEF AskInv, TurnLive, InTurns, Parallel, AtStep
      <4>3. DOMAIN clock = {Key(turn)}
        BY <4>1, <4>2 DEF AskInv, StatesLive, InTurns, Live
      <4> QED
        BY <4>1, <4>3
    <3> QED
      BY <1>6, <3>1, <3>2, <3>3
  <2> QED
    BY <2>1, <2>2, <2>3, AskEnters
<1>7. CASE EndSetup
  <2>1. /\ Enter(1) /\ game' = game /\ answers' = answers /\ clock' = clock
        /\ phase = "setup"
    BY <1>7 DEF EndSetup, setupVars, resultVars
  <2>2. \A r \in DOMAIN answers' : r[1] # at'
    BY <2>1 DEF NewInv, TurnsInv, Enter, Unanswered
  <2>3. DOMAIN clock' = {}
    BY <2>1 DEF AskInv, StatesLive
  <2> QED
    BY <2>1, <2>2, <2>3, AskEnters
<1>8. CASE Thread
  BY <1>1, <1>2, <1>3, <1>4, <1>5, <1>6, <1>7, <1>8, AskBegins, AskVoters, AskCounts
     DEF Thread
<1> QED
  BY <1>1, <1>8 DEF Next

-----------------------------------------------------------------------------
(* The refinement *)

\* A text that was typed, or a default, is an answer.
LEMMA AnswersTyped ==
  ASSUME PeopleInv, TurnsInv, AtStep, NEW p, Hears(p), Receive(p)
  PROVE  /\ [from |-> "typed", says |-> Head(inbox[p]).says, by |-> Head(inbox[p]).by,
             offers |-> Step.offers] \in Answer
         /\ [from |-> "default", offers |-> Step.offers] \in Answer
<1>1. Head(inbox[p]) \in Text
  BY ReceiveKeeps
<1>2. Head(inbox[p]).says \in Says /\ Head(inbox[p]).by \in Person
  BY <1>1 DEF Text
<1>3. Step.offers \in Nat
  <2>1. MaxSize \in Nat
    BY DEF MaxSize
  <2> HIDE DEF MaxSize
  <2> QED
    BY <2>1, OffersCounted
<1> QED
  BY <1>2, <1>3 DEF Answer

LEMMA RepliesOnce ==
  ASSUME NEW q \in put \ DOMAIN answers, NEW v \in Answer, put' = put,
         answers' = [r \in DOMAIN answers \cup {q} |-> IF r = q THEN v ELSE answers[r]]
  PROVE  Asked!Reply
<1>1. DOMAIN answers' = DOMAIN answers \cup {q} /\ answers'[q] = v
      /\ \A r \in DOMAIN answers : answers'[r] = answers[r]
  OBVIOUS
<1> QED
  BY <1>1 DEF Asked!Reply

LEMMA PutsQuestions ==
  ASSUME NEW S \in SUBSET Questions, put' = put \cup S, answers' = answers
  PROVE  Asked!Put \/ UNCHANGED <<put, answers>>
BY DEF Asked!Put

LEMMA SurveyTaken ==
  ASSUME EachOnce, PeopleInv, TurnsInv, VoteInv, AskInv, [Next]_vars
  PROVE  Asked!Put \/ Asked!Reply \/ UNCHANGED <<put, answers>>
<1>1. CASE \E b \in 1..Cardinality(Player) : BeginTurn(b)
  <2>1. PICK b \in 1..Cardinality(Player) : BeginTurn(b)
    BY <1>1
  <2>2. /\ b \in Branches /\ (b \in waiting \/ left[b] # <<>>) /\ answers' = answers
        /\ put' = put \cup {Question(b, For(b))} \/ put' = put
        /\ phase = "next" /\ AtStep /\ InTurns
    BY <2>1 DEF BeginTurn, Visited, Unfinished, AtStep, InTurns
  <2>3. BranchAsks(b) /\ left[b] \in Seq(Player)
    BY <2>2 DEF AskInv, TurnsInv, StepInv
  <2>4. For(b) \in Range(Step.lists[b])
    <3>1. CASE b \in waiting
      BY <2>2, <2>3, <3>1 DEF BranchAsks, Live, For
    <3>2. CASE b \notin waiting
      <4>1. For(b) \in Range(left[b])
        BY <2>2, <2>3, <3>2, InjectiveTail DEF BranchAsks, For
      <4> QED
        BY <2>3, <4>1 DEF BranchAsks
    <3> QED
      BY <3>1, <3>2
  <2>5. Question(b, For(b)) \in Questions
    BY <2>2, <2>4, QuestionIs
  <2> QED
    BY <2>2, <2>5, PutsQuestions
<1>2. CASE Ballot
  <2>1. /\ put' = put \cup {Question(1, p) : p \in Range(Voters)} /\ answers' = answers
        /\ phase = "ballot" /\ AtStep /\ AtVote
    BY <1>2 DEF Ballot, AtStep, AtVote
  <2>2. Branches = {1}
    BY <2>1, StepIs DEF TurnsInv, StepInv
  <2>3. {Question(1, p) : p \in Range(Voters)} \in SUBSET Questions
    BY <2>1, <2>2, QuestionIs DEF Voters
  <2> QED
    BY <2>1, <2>3, PutsQuestions
<1>3. CASE Accept
  <2> DEFINE v == [from |-> "typed", says |-> Head(inbox[player]).says,
                   by |-> Head(inbox[player]).by, offers |-> Step.offers]
             q == Question(turn, element[Name(turn)])
  <2>1. phase = "polling" /\ Hears(player) /\ Receive(player) /\ Store(v) /\ put' = put
    BY <1>3 DEF Accept, Running, HeardFrom, Store
  <2>2. v \in Answer
    BY <2>1, AnswersTyped DEF AtStep
  <2>3. q \in put \ DOMAIN answers
    BY <2>1, AskStores
  <2>4. answers' = [r \in DOMAIN answers \cup {q} |-> IF r = q THEN v ELSE answers[r]]
    BY <2>1 DEF Store
  <2> HIDE DEF q, v
  <2> QED
    BY <2>1, <2>2, <2>3, <2>4, RepliesOnce
<1>4. CASE TimeOut
  <2> DEFINE v == [from |-> "default", offers |-> Step.offers]
             q == Question(turn, element[Name(turn)])
  <2>1. phase = "polling" /\ Store(v) /\ put' = put
    BY <1>4 DEF TimeOut, Store
  <2>2. v \in Answer
    <3>1. MaxSize \in Nat
      BY DEF MaxSize
    <3>2. Step.offers \in 0..MaxSize
      BY <2>1, OffersCounted DEF AtStep
    <3> HIDE DEF MaxSize
    <3> QED
      BY <3>1, <3>2 DEF Answer
  <2>3. q \in put \ DOMAIN answers
    BY <2>1, AskStores
  <2>4. answers' = [r \in DOMAIN answers \cup {q} |-> IF r = q THEN v ELSE answers[r]]
    BY <2>1 DEF Store
  <2> HIDE DEF q, v
  <2> QED
    BY <2>1, <2>2, <2>3, <2>4, RepliesOnce
<1>5. CASE Count
  <2> DEFINE v == [from |-> "typed", says |-> Head(inbox[Polled]).says,
                   by |-> Head(inbox[Polled]).by, offers |-> Step.offers]
             q == Question(1, Polled)
  <2>1. phase = "voting" /\ Hears(Polled) /\ Receive(Polled) /\ put' = put
    BY <1>5 DEF Count, Polling
  <2>2. v \in Answer
    BY <2>1, AnswersTyped DEF AtStep
  <2>3. q \in put \ DOMAIN answers
    BY <1>5, AskCounts
  <2>4. answers' = [r \in DOMAIN answers \cup {q} |-> IF r = q THEN v ELSE answers[r]]
    BY <1>5 DEF Count
  <2> HIDE DEF q, v
  <2> QED
    BY <2>1, <2>2, <2>3, <2>4, RepliesOnce
<1>6. CASE \/ SetupTakes \/ EndSetup \/ SetupThrows \/ PromptThrows \/ Refuse \/ FindNothing
           \/ CutOff \/ PollThrows \/ TimeOutThrows \/ EndStep \/ BallotThrows
           \/ Crop \/ List \/ ListThrows \/ Reject \/ VoteThrows \/ EndVote
  BY <1>6 DEF SetupTakes, EndSetup, SetupThrows, PromptThrows, Refuse, FindNothing, CutOff,
     PollThrows, TimeOutThrows, EndStep, BallotThrows, Crop, List, ListThrows, Reject,
     VoteThrows, EndVote, Throws, resultVars
<1>7. CASE \/ (\E k \in Keys : Expire(k)) \/ OtherLooks \/ OtherCrops
           \/ PollInVain \/ UNCHANGED vars
           \/ UNCHANGED <<setupVars, phase, at, branchVars, voteVars, resultVars>>
  BY <1>7 DEF Expire, OtherLooks, OtherCrops, PollInVain, vars, resultVars
<1>8. CASE Thread
  BY <1>1, <1>2, <1>3, <1>4, <1>5, <1>6, <1>8 DEF Thread
<1> QED
  BY <1>7, <1>8 DEF Next

\* Inputs implements Survey: however branches take turns, are suspended and
\* resumed, and whatever came before in the same rule, each question is put
\* before it is answered and answered once (the InputRulesState of
\* InputChoiceRule and InputTextRule is made and deleted once for each).
THEOREM EachAskedOnce ==
    ASSUME EachOnce
    PROVE  Spec => AskedOnce
<1>1. VotersOnce
  <2> SUFFICES ASSUME NEW g \in Games, NEW i \in 1..Len(g.script), g.script[i].kind = "vote"
               PROVE  IsInjective(g.script[i].lists[1])
    BY DEF VotersOnce
  <2>1. DOMAIN g.script[i].lists = {1}
    BY ScriptIs
  <2> QED
    BY <2>1 DEF EachOnce
<1>2. Init => VoteInv
  BY DEF Init, VoteInv, AtVote
<1>3. Init => AskInv
  BY DEF Init, AskInv, StatesLive, TurnLive, InTurns, AtVote
<1>4. Init => Asked!SurveyInit
  BY DEF Init, Asked!SurveyInit
<1>5. OwnInv => PeopleInv
  BY DEF OwnInv
<1>6. PeopleInv /\ TurnsInv /\ VoteInv /\ AskInv /\ [Next]_vars
         => [Asked!Put \/ Asked!Reply]_<<put, answers>>
  BY SurveyTaken
<1> QED
  BY <1>1, <1>2, <1>3, <1>4, <1>5, <1>6, OwnInit, OwnStep, TurnsInit, TurnsStep, NewInit,
     NewStep, VoteStep, AskStep, PTL
     DEF Spec, AskedOnce, Asked!SurveySpec
=============================================================================
