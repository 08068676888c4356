-------------------------------- MODULE Inputs --------------------------------
(***************************************************************************)
(* The rules of a game that ask its players (lib/translator/translator.cpp *)
(* 951-1285, with what parallelfor, inparallel and foreach do around       *)
(* them): after the setup, input-choice and input-text, for one player     *)
(* after another or for several in turns, and input-vote.                  *)
(*                                                                         *)
(* The game thread is one actor; the people and the clock are others.      *)
(***************************************************************************)
EXTENDS Setup, Functions

(***************************************************************************)
(* A step of the rules.  lists[b] are the players that branch b goes over, *)
(* asking each with the input rule rules[b].  foreach has one branch, and  *)
(* is inside a timer if timed; parallelfor has a branch for each element,  *)
(* all with the same rule; the branches of inparallel are foreach rules    *)
(* with elements of their own.  vote is input-vote.  offers is how many    *)
(* choices there are; 0 is for input-text.                                 *)
(***************************************************************************)
StepKinds == {"foreach", "parallelfor", "inparallel", "vote"}
Rule == 1..2
ScriptStep == [kind : StepKinds, rules : Seq(Rule), lists : Seq(Seq(Player)),
               offers : 0..MaxSize, timed : BOOLEAN]

ASSUME InputsAssumption ==
    \A g \in Games :
        /\ g.script \in Seq(ScriptStep)
        /\ \A i \in 1..Len(g.script) : LET s == g.script[i] IN
              /\ Len(s.lists) = Len(s.rules)
              /\ s.kind \in {"foreach", "vote"} => Len(s.lists) = 1
              /\ s.kind = "parallelfor" => \A b \in 1..Len(s.lists) : Len(s.lists[b]) = 1
              /\ s.timed => s.kind = "foreach"
              /\ s.kind = "inparallel" => IsInjective(s.rules)

VARIABLES
    phase,          \* where the game thread is, see Phases
    at,             \* the step of the script
    left,           \* left[b]: the players branch b has not come to
    waiting,        \* the branches whose input is suspended
    round,          \* the branches this pass over the branches has still to visit
    turn,           \* the branch that is run, 0 for none
    element,        \* toplevel[element_name], for each element name
    player,         \* local variable of an input: player_connection
    clock,          \* GameState::rule_states: the timer of each InputRulesState
    votes,          \* the counts in the list of votes
    cropped,        \* how often InputVoteRule::choices was cut off, to take the
                    \* ".name" from its end
    other,          \* where the other session is in its own vote
    put,            \* history: the questions put to a player
    answers         \* the answers stored in the variables, for each question

branchVars == <<left, waiting, round, turn, element, player, clock>>
voteVars == <<votes, cropped, other>>
resultVars == <<put, answers>>
vars == <<peopleVars, setupVars, phase, at, branchVars, voteVars, resultVars>>

(***************************************************************************)
(* next: between two calls; polling: in the loop of an input; ballot,      *)
(* cropping, listing, voting: in input-vote, before it looks at choices,   *)
(* before it erases, before it uses the list, in its loop.                 *)
(***************************************************************************)
Phases == {"setup", "next", "polling", "ballot", "cropping", "listing",
           "voting", "ended", "crashed"}

Step == game.script[at]
Branches == DOMAIN Step.lists
Parallel == Step.kind \in {"parallelfor", "inparallel"}

\* Branches of inparallel have an element each, those of parallelfor share one.
Name(b) == IF Step.kind = "inparallel" THEN b ELSE 1
\* GameState::getState: parallelfor sets the parallel world number.
Key(b) == <<Step.rules[b], IF Step.kind = "parallelfor" THEN b ELSE 0>>
Keys == Rule \X (0..Cardinality(Player))

Question(b, p) == <<at, Step.rules[b], p>>
Questions == Nat \X Rule \X Player
Answer == [from : {"default", "typed"}, says : Says, by : Person, offers : Nat]
          \cup [from : {"default"}, offers : Nat]

TypeOK ==
    /\ PeopleTypeOK /\ SetupTypeOK
    /\ phase \in Phases
    /\ at \in 1..(Len(game.script) + 1)
    /\ phase \notin {"setup", "ended", "crashed"} => at <= Len(game.script)
    /\ phase \notin {"setup", "ended", "crashed"} =>
          /\ left \in [Branches -> Seq(Player)]
          /\ waiting \subseteq Branches /\ round \subseteq Branches
          /\ turn \in Branches \cup {0}
    /\ element \in [1..Cardinality(Player) -> Player] /\ player \in Player
    /\ DOMAIN clock \subseteq Keys /\ \A k \in DOMAIN clock : clock[k] \in {"running", "out"}
    /\ votes \in Seq(Nat)
    /\ cropped \in 0..2 /\ other \in {"away", "cropping", "done"}
    /\ put \subseteq Questions
    /\ DOMAIN answers \subseteq Questions /\ \A q \in DOMAIN answers : answers[q] \in Answer

\* The next step, or the end of the rules.
Enter(i) ==
    /\ at' = i
    /\ waiting' = {} /\ round' = {} /\ turn' = 0
    /\ IF i > Len(game.script)
       THEN phase' = "ended" /\ left' = <<>>
       ELSE /\ left' = game.script[i].lists
            /\ phase' = IF game.script[i].kind = "vote" THEN "ballot" ELSE "next"

Init ==
    /\ PeopleInit /\ SetupInit
    /\ phase = "setup" /\ at = 1
    /\ left = <<>> /\ waiting = {} /\ round = {} /\ turn = 0
    /\ element = [n \in 1..Cardinality(Player) |-> Owner] /\ player = Owner
    /\ clock = <<>>
    /\ votes = <<>> /\ cropped = 0 /\ other = "away"
    /\ put = {} /\ answers = <<>>

\* Server::send and receive throw: the connection is not registered.
Throws(p) ==
    /\ p \notin Open
    /\ phase' = "crashed"
    /\ UNCHANGED <<peopleVars, setupVars, at, branchVars, voteVars, resultVars>>

EndSetup ==
    /\ phase = "setup" /\ ~Asking
    /\ Enter(1)
    /\ UNCHANGED <<peopleVars, setupVars, element, player, clock, voteVars, resultVars>>

SetupThrows == phase = "setup" /\ Asking /\ Throws(Owner)

-----------------------------------------------------------------------------
(* Faulty variants of the definitions below, one plausible slip each.      *)

PutAgain(b) == TRUE                     \* the prompt is sent at each turn
ElementLeft(b) == element[Name(b)]      \* parallelfor leaves the element alone
StateKept(k) == UNCHANGED clock         \* the state of an input is not deleted
HeardFromOwner == Owner                 \* polls game_owner, as the setup does
PollsAgain == UNCHANGED <<waiting, turn>> /\ phase' = phase  \* no callbacks asked
CountsFirst(s) == 1                     \* every vote is for the first candidate
AlwaysCrops == "cropping"               \* does not look for ".name"

-----------------------------------------------------------------------------
(* Turns, input-choice and input-text *)

Unfinished == {b \in Branches : b \in waiting \/ left[b] # <<>>}
Visited == IF round \cap Unfinished = {} THEN Unfinished ELSE round \cap Unfinished

\* Who an input that is resumed is for: parallelfor puts the element of the
\* branch back first.
ResumedFor(b) ==
    IF Step.kind = "parallelfor" THEN Step.lists[b][1] ELSE element[Name(b)]
For(b) == IF b \in waiting THEN ResumedFor(b) ELSE Head(left[b])
Unput(b) == Key(b) \notin DOMAIN clock

\* A branch is run, up to the loop of its input.  The state is made, and the
\* prompt sent, the first time.
BeginTurn(b) ==
    /\ phase = "next" /\ b \in Visited
    /\ Unput(b) => For(b) \in Open
    /\ element' = [element EXCEPT ![Name(b)] = For(b)]
    /\ player' = For(b)
    /\ left' = IF b \in waiting THEN left ELSE [left EXCEPT ![b] = Tail(@)]
    /\ waiting' = waiting \ {b}
    /\ round' = Visited \ {b}
    /\ turn' = b
    /\ phase' = "polling"
    /\ IF Unput(b)
       THEN /\ clock' = [k \in DOMAIN clock \cup {Key(b)} |->
                            IF k = Key(b) THEN "running" ELSE clock[k]]
            /\ put' = put \cup {Question(b, For(b))}
       ELSE UNCHANGED <<clock, put>>
    /\ UNCHANGED <<peopleVars, setupVars, at, voteVars, answers>>

PromptThrows ==
    phase = "next" /\ \E b \in Visited : Unput(b) /\ Throws(For(b))

Delete(k) == clock' = [j \in DOMAIN clock \ {k} |-> clock[j]]
Running == phase = "polling" /\ clock[Key(turn)] = "running"
HeardFrom == player

\* An input asks the callbacks: a parallel rule suspends it.
Suspend == waiting' = waiting \cup {turn} /\ turn' = 0 /\ phase' = "next"

\* A text that is no valid answer is thrown away.
Valid(s) == Step.offers = 0 \/ Chosen(s, Step.offers)
Refuse ==
    /\ Running /\ Hears(HeardFrom)
    /\ ~Valid(Head(inbox[HeardFrom]).says)
    /\ Receive(HeardFrom)
    /\ IF Parallel THEN Suspend ELSE UNCHANGED <<waiting, turn, phase>>
    /\ UNCHANGED <<setupVars, at, left, round, element, player, clock, voteVars, resultVars>>

FindNothing ==
    /\ Running /\ Parallel
    /\ HeardFrom \in Open /\ inbox[HeardFrom] = <<>>
    /\ Suspend
    /\ UNCHANGED <<peopleVars, setupVars, at, left, round, element, player, clock,
                   voteVars, resultVars>>

\* The timer around a foreach has expired when its input asks the callbacks;
\* the input and the foreach drop their states.
CutOff ==
    /\ Running /\ Step.timed
    /\ HeardFrom \in Open
    /\ \/ inbox[HeardFrom] = <<>> /\ UNCHANGED peopleVars
       \/ /\ inbox[HeardFrom] # <<>> /\ ~Valid(Head(inbox[HeardFrom]).says)
          /\ Receive(HeardFrom)
    /\ Delete(Key(turn))
    /\ Enter(at + 1)
    /\ UNCHANGED <<setupVars, element, player, voteVars, resultVars>>

PollThrows == Running /\ Throws(HeardFrom)

\* The result is stored for the element as it is now, and the state deleted.
Store(v) ==
    /\ answers' = [q \in DOMAIN answers \cup {Question(turn, element[Name(turn)])} |->
                      IF q = Question(turn, element[Name(turn)]) THEN v ELSE answers[q]]
    /\ Delete(Key(turn))
    /\ turn' = 0 /\ phase' = "next"
    /\ UNCHANGED <<setupVars, at, left, waiting, round, element, player, voteVars, put>>

Accept ==
    /\ Running /\ Hears(HeardFrom)
    /\ LET t == Head(inbox[HeardFrom]) IN
          /\ Valid(t.says)
          /\ Store([from |-> "typed", says |-> t.says, by |-> t.by, offers |-> Step.offers])
    /\ Receive(HeardFrom)

\* Without an answer the result is the first choice, or an empty text.
TimeOut ==
    /\ phase = "polling" /\ clock[Key(turn)] = "out"
    /\ player \in Open
    /\ Store([from |-> "default", offers |-> Step.offers])
    /\ UNCHANGED peopleVars

TimeOutThrows == phase = "polling" /\ clock[Key(turn)] = "out" /\ Throws(player)

EndStep ==
    /\ phase = "next" /\ Unfinished = {}
    /\ Enter(at + 1)
    /\ UNCHANGED <<peopleVars, setupVars, element, player, clock, voteVars, resultVars>>

Expire(k) ==
    /\ k \in DOMAIN clock /\ clock[k] = "running"
    /\ clock' = [clock EXCEPT ![k] = "out"]
    /\ UNCHANGED <<peopleVars, setupVars, phase, at, left, waiting, round, turn, element,
                   player, voteVars, resultVars>>

-----------------------------------------------------------------------------
(* input-vote *)

Voters == Step.lists[1]
Found == cropped = 0            \* choices.find(".name")

\* Every voter is sent the prompt; then the name of the list is looked at.
AfterLook == IF Found THEN "cropping" ELSE "listing"
Ballot ==
    /\ phase = "ballot"
    /\ Range(Voters) \subseteq Open
    /\ put' = put \cup {Question(1, p) : p \in Range(Voters)}
    /\ phase' = AfterLook
    /\ UNCHANGED <<peopleVars, setupVars, at, branchVars, voteVars, answers>>

BallotThrows == phase = "ballot" /\ \E p \in Range(Voters) : Throws(p)

\* choices.erase cuts off the last five characters, whatever they are.
Crop ==
    /\ phase = "cropping"
    /\ cropped' = cropped + 1
    /\ phase' = "listing"
    /\ UNCHANGED <<peopleVars, setupVars, at, branchVars, votes, other, resultVars>>

\* The candidates are those of the list of this name, with no votes yet.
List ==
    /\ phase = "listing" /\ cropped = 1
    /\ votes' = [c \in 1..Step.offers |-> 0]
    /\ phase' = "voting"
    /\ UNCHANGED <<peopleVars, setupVars, at, branchVars, cropped, other, resultVars>>

\* The variables have no list of this name.
ListThrows ==
    /\ phase = "listing" /\ cropped # 1
    /\ phase' = "crashed"
    /\ UNCHANGED <<peopleVars, setupVars, at, branchVars, voteVars, resultVars>>

Polled == Head(left[1])
Polling == phase = "voting" /\ left[1] # <<>>

\* A text that names no candidate is thrown away; there is no time limit.
Candidate(s) == s \in 1..Step.offers
VotedFor(s) == s
Reject ==
    /\ Polling /\ Hears(Polled)
    /\ ~Candidate(Head(inbox[Polled]).says)
    /\ Receive(Polled)
    /\ UNCHANGED <<setupVars, phase, at, branchVars, voteVars, resultVars>>

Count ==
    /\ Polling /\ Hears(Polled)
    /\ LET t == Head(inbox[Polled]) IN
          /\ Candidate(t.says)
          /\ votes' = [votes EXCEPT ![VotedFor(t.says)] = @ + 1]
          /\ answers' = [q \in DOMAIN answers \cup {Question(1, Polled)} |->
                IF q = Question(1, Polled)
                THEN [from |-> "typed", says |-> t.says, by |-> t.by, offers |-> Step.offers]
                ELSE answers[q]]
    /\ Receive(Polled)
    /\ left' = [left EXCEPT ![1] = Tail(@)]
    /\ UNCHANGED <<setupVars, phase, at, waiting, round, turn, element, player, clock,
                   cropped, other, put>>

VoteThrows == Polling /\ Throws(Polled)

EndVote ==
    /\ phase = "voting" /\ left[1] = <<>>
    /\ Enter(at + 1)
    /\ UNCHANGED <<peopleVars, setupVars, element, player, clock, voteVars, resultVars>>

\* Another session plays the same Configuration and is at the same vote:
\* choices is a member of the rule, not of the state of a game.
OtherLooks ==
    /\ other = "away" /\ Found
    /\ \E i \in 1..Len(game.script) : game.script[i].kind = "vote"
    /\ other' = "cropping"
    /\ UNCHANGED <<peopleVars, setupVars, phase, at, branchVars, votes, cropped, resultVars>>
OtherCrops ==
    /\ other = "cropping"
    /\ cropped' = cropped + 1 /\ other' = "done"
    /\ UNCHANGED <<peopleVars, setupVars, phase, at, branchVars, votes, resultVars>>

-----------------------------------------------------------------------------
Over == phase \in {"ended", "crashed"}

\* A loop that polls without end, and finds nothing; or the game is over.
PollInVain ==
    /\ \/ Over
       \/ phase = "setup" /\ Asking /\ Owner \in Open /\ ~Hears(Owner)
       \/ Running /\ ~Parallel /\ HeardFrom \in Open /\ ~Hears(HeardFrom)
       \/ Polling /\ Polled \in Open /\ ~Hears(Polled)
    /\ UNCHANGED vars

SetupTakes ==
    /\ phase = "setup"
    /\ SetupStep
    /\ UNCHANGED <<phase, at, branchVars, voteVars, resultVars>>

Thread ==
    \/ SetupTakes \/ EndSetup \/ SetupThrows
    \/ (\E b \in 1..Cardinality(Player) : BeginTurn(b)) \/ PromptThrows
    \/ Accept \/ Refuse \/ FindNothing \/ CutOff \/ PollThrows
    \/ TimeOut \/ TimeOutThrows \/ EndStep
    \/ Ballot \/ BallotThrows \/ Crop \/ List \/ ListThrows
    \/ Count \/ Reject \/ VoteThrows \/ EndVote

Next ==
    \/ Thread
    \/ PollInVain
    \/ /\ ~Over /\ People
       /\ \A p \in Player : typed'[p] <= game.texts[p]
       /\ UNCHANGED <<setupVars, phase, at, branchVars, voteVars, resultVars>>
    \/ ~Over /\ \E k \in Keys : Expire(k)
    \/ ~Over /\ (OtherLooks \/ OtherCrops)

Spec == Init /\ [][Next]_vars

\* The game thread is scheduled.  Nothing is assumed of the people; that time
\* passes is a premise of the property that needs it.
FairSpec == Spec /\ WF_vars(Thread)

-----------------------------------------------------------------------------
(* Properties *)

\* A question is put before it is answered, and is answered once, however the
\* turns of the players alternate and whatever came before in the same rule.
Asked == INSTANCE Survey
AskedOnce == Asked!SurveySpec

\* What is stored for a player, and as a parameter for the owner, was typed by
\* that player, unless the player has left: then somebody new may be at the
\* same address.
AnswersAreOwn ==
    /\ \A q \in DOMAIN answers :
          answers[q].from = "typed" => answers[q].by = q[3] \/ q[3] \in gone
    /\ \A i \in 1..Len(parameters) : parameters[i].by = Owner \/ Owner \in gone

\* The answer to an input-choice, a vote and the question of a multiple choice
\* in the setup is one of what was offered.
AnswersOffered ==
    /\ ParametersFit
    /\ \A q \in DOMAIN answers :
          answers[q].from = "typed" /\ answers[q].offers > 0 =>
              answers[q].says \in 1..answers[q].offers

\* The rules go on to the next step when everybody has answered, or a timer
\* around the step has cut it off.
NobodySkipped ==
    phase \notin {"setup", "crashed"} =>
        \A i \in 1..(at - 1) : game.script[i].timed \/
            LET s == game.script[i] IN
            \A b \in DOMAIN s.lists : \A p \in Range(s.lists[b]) :
                <<i, s.rules[b], p>> \in DOMAIN answers

\* The counts are those of the votes given in this vote.
VotesAgree ==
    phase = "voting" =>
        \A c \in DOMAIN votes : votes[c] =
            Cardinality({q \in DOMAIN answers : q[1] = at /\ answers[q].says = c})

\* The name of the list of candidates is one, the first time and later, unless
\* another session has cut it off meanwhile.
ListNamed == phase = "listing" /\ other # "done" => cropped = 1

\* In a parallel step the text of one player is taken though the others say
\* nothing, and no clock runs out.
AskedFirst(p) ==
    phase \in {"next", "polling"} /\ Parallel /\ \E b \in Branches :
        Step.lists[b][1] = p /\ <<at, Step.rules[b], p>> \notin DOMAIN answers
TextsAreTaken ==
    \A p \in Player :
        (phase = "polling" /\ AskedFirst(p) /\ Hears(p))
            ~> (Over \/ inbox[p] = <<>> \/ ~AskedFirst(p))

\* A step without votes ends, by answers or time limits, though nobody says
\* anything or the main thread has stopped.
StepsEnd ==
    WF_vars(\E k \in Keys : Expire(k)) =>
        \A i \in 1..2 : (at = i /\ phase \in {"next", "polling"}) ~> (at # i \/ Over)
=============================================================================
