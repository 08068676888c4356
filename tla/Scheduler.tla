------------------------------ MODULE Scheduler ------------------------------
(***************************************************************************)
(* How the rules of one game are run (lib/translator/translator.cpp): a    *)
(* tree of rules, walked by the recursive calls of Rule::run in one game   *)
(* thread.  A parallel rule gives its branches turns; a branch gives its   *)
(* turn up by returning from all its calls ("the rule should stop") after  *)
(* each has left its rule and its position in the GameState, from which it *)
(* is resumed at its next turn.  A timer cuts off the rules in it in the   *)
(* same way, without leaving anything.                                     *)
(*                                                                         *)
(* What a rule does to the variables of the game is left out: conditions   *)
(* and cases are choices, a list has a size.                               *)
(***************************************************************************)
EXTENDS Naturals, FiniteSets, SequencesExt

CONSTANTS
    Rule,           \* the rules of the configuration
    Kind,           \* Kind[r], see Kinds
    Body,           \* Body[r]: the rules of a list or an inparallel, the
                    \* subrules of the cases, the one list of another rule
    Size,           \* Size[r]: how many elements foreach, parallelfor go over
    Roots,          \* lists, of which one is the list of rules of the game
    MaxWorld        \* the largest parallel world number

(***************************************************************************)
(* step is any rule that does its work at once; input is input-choice or   *)
(* input-text; cases is when or switch; atmost, exact and track are the    *)
(* modes of a timer.                                                       *)
(***************************************************************************)
Kinds == {"step", "input", "list", "foreach", "loop", "cases", "inparallel",
          "parallelfor", "atmost", "exact", "track"}
Parallel == {"inparallel", "parallelfor"}
Timers == {"atmost", "exact", "track"}
World == 0..MaxWorld

ASSUME RulesAssumption ==
    /\ Kind \in [Rule -> Kinds] /\ Body \in [Rule -> Seq(Rule)]
    /\ Size \in [Rule -> Nat] /\ Roots \subseteq Rule /\ MaxWorld \in Nat
    /\ \A r \in Roots : Kind[r] = "list"
    /\ \A p, q \in Rule : \A i \in 1..Len(Body[p]) : \A j \in 1..Len(Body[q]) :
          Body[p][i] = Body[q][j] => p = q /\ i = j
    /\ \A r \in Rule :
          /\ Kind[r] \in {"foreach", "loop", "parallelfor"} \cup Timers => Body[r] # <<>>
          /\ Kind[r] = "parallelfor" => Body[Body[r][1]] # <<>>

\* The rules inside r.
Inside[r \in Rule] ==
    {r} \cup UNION {Inside[Body[r][i]] : i \in 1..Len(Body[r])}

(***************************************************************************)
(* The rules are read from a document, so they are trees: what is inside   *)
(* a rule is that rule, and otherwise inside one of its subrules or a      *)
(* subrule of what is inside; and no rule is inside itself.                *)
(***************************************************************************)
ASSUME TreeAssumption ==
    \A r \in Rule :
        /\ Inside[r] \subseteq Rule
        /\ Inside[r] = {r} \cup UNION {Inside[Body[r][i]] : i \in 1..Len(Body[r])}
        /\ \A q \in Inside[r] : Inside[q] \subseteq Inside[r]
        /\ \A q \in Inside[r] \ {r} :
              \E p \in Inside[r] : \E i \in 1..Len(Body[p]) : q = Body[p][i]
        /\ \A i \in 1..Len(Body[r]) : r \notin Inside[Body[r][i]]

VARIABLES
    stack,          \* the calls of run under way, innermost last, see Frame
    callbacks,      \* GameState::callbacks
    world,          \* GameState::parallel_world_number
    ruleStates,     \* GameState::rule_states: for each key that has a state,
                    \* where the iterator of the list or foreach is, or 1
    clock,          \* clock[k]: the timer of a TimerRuleState; not reset when
                    \* the state is deleted, which nothing but late can tell
    lastRun,        \* lastRun[k]: ParallelRulesState::last_run
    crashed,        \* a state was used that is not there
    late            \* history: late[k] is how many steps were made inside the
                    \* timer after it had expired, up to 2

vars == <<stack, callbacks, world, ruleStates, clock, lastRun, crashed, late>>
timeVars == <<clock, late>>

(***************************************************************************)
(* A call of rule.run: enter, before or in the loop of the rule; check, at *)
(* its call of checkCallbacks; timed, with the rules of a timer under way; *)
(* pad, when an exact timer waits; round and turn, in the loops of a       *)
(* parallel rule.  home is the world number at the time of the call; todo, *)
(* round (the worlds this pass has still to visit) and turn (the world it  *)
(* is at) are local variables of the parallel rules.                       *)
(***************************************************************************)
Frame(r, w) == [rule |-> r, at |-> "enter", home |-> w, todo |-> <<>>, round |-> {},
                turn |-> 0]

Keys == Rule \X World
TimerKeys == {r \in Rule : Kind[r] \in Timers} \X World
ParallelKeys == {r \in Rule : Kind[r] \in Parallel} \X World

\* How many times a list or foreach calls a rule; where it is.
Count(r) == IF Kind[r] = "list" THEN Len(Body[r]) ELSE Size[r]
Position(k) == IF k \in DOMAIN ruleStates THEN ruleStates[k] ELSE 1

TypeOK ==
    /\ \A i \in 1..Len(stack) :
          /\ stack[i].rule \in Rule
          /\ stack[i].at \in {"enter", "check", "timed", "pad", "round", "turn"}
          /\ stack[i].home \in World /\ stack[i].turn \in World
          /\ DOMAIN stack[i].todo \subseteq World
          /\ stack[i].round \subseteq DOMAIN stack[i].todo
          /\ \A w \in DOMAIN stack[i].todo : stack[i].todo[w] \in Seq(Rule)
    /\ callbacks \in Seq(Rule)
    /\ world \in World
    /\ DOMAIN ruleStates \subseteq Keys
    /\ \A k \in DOMAIN ruleStates : ruleStates[k] \in 1..(Count(k[1]) + 1)
    /\ clock \in [TimerKeys -> {"off", "running", "expired"}]
    /\ lastRun \in [ParallelKeys -> Seq(Rule)]
    /\ crashed \in BOOLEAN
    /\ late \in [TimerKeys -> 0..2]

Init ==
    /\ \E r \in Roots : stack = <<Frame(r, 0)>>
    /\ callbacks = <<>>
    /\ world = 0
    /\ ruleStates = <<>>
    /\ clock = [k \in TimerKeys |-> "off"]
    /\ lastRun = [k \in ParallelKeys |-> <<>>]
    /\ crashed = FALSE
    /\ late = [k \in TimerKeys |-> 0]

Top == Last(stack)
Running(kinds, place) ==
    ~crashed /\ stack # <<>> /\ Kind[Top.rule] \in kinds /\ Top.at = place

\* The key of rule r now (getState), and the key of the state which the call
\* on top holds a reference to.
Key(r) == <<r, world>>
Held == <<Top.rule, Top.home>>

\* The innermost call goes on at another place, calls r, or returns.
GoTo(place) == stack' = [stack EXCEPT ![Len(stack)].at = place]
Call(place, r) ==
    stack' = Append([stack EXCEPT ![Len(stack)].at = place], Frame(r, world))
Return == stack' = Front(stack)

\* getState of the call on top makes a state if there is none; deleteState.
Create == ruleStates' = [k \in DOMAIN ruleStates \cup {Held} |-> Position(k)]
Delete(k) == ruleStates' = [j \in DOMAIN ruleStates \ {k} |-> ruleStates[j]]

\* The callback is in the vector once, so std::remove finds one.
Deregister(r) ==
    callbacks' = RemoveAt(callbacks, CHOOSE i \in 1..Len(callbacks) : callbacks[i] = r)

-----------------------------------------------------------------------------
(* checkCallbacks: the innermost callback that stops the rule, or 0 *)

\* Faulty variants of AskedKey and Stops, see below: a parallelfor asks in the
\* world of the branch; the condition is turned round.
AskedKeyHere(c) == Key(c)
StopsTooSoon(c) ==
    \/ Kind[c] \in Parallel
    \/ Kind[c] \in {"atmost", "exact"} /\ clock[Key(c)] = "running"

AskedKey(c) == IF Kind[c] = "parallelfor" THEN <<c, 0>> ELSE Key(c)
Stops(c) ==
    \/ Kind[c] \in Parallel
    \/ Kind[c] \in {"atmost", "exact"} /\ clock[Key(c)] = "expired"
Stopper ==
    Max({0} \cup {i \in 1..Len(callbacks) : Stops(callbacks[i])})

\* One of the callbacks that are asked has no state: a null pointer is used.
NoStateThere ==
    \E i \in 1..Len(callbacks) :
        /\ i >= Stopper
        /\ Kind[callbacks[i]] # "track"
        /\ AskedKey(callbacks[i]) \notin DOMAIN ruleStates

\* The timers around a rule, with the world they are in.
InWorlds(t) == \E p \in Rule : Kind[p] = "parallelfor" /\ t \in Inside[p]
TimersAround(r) ==
    {<<t, IF InWorlds(t) THEN world ELSE 0>> :
        t \in {t \in Rule : Kind[t] \in {"atmost", "exact"} /\ r \in Inside[t]}}

-----------------------------------------------------------------------------
(***************************************************************************)
(* Faulty variants of the definitions below, one plausible slip each.      *)
(* Nothing uses them: put in the place of what they vary, they show that   *)
(* the properties at the end of the module can fail.                       *)
(***************************************************************************)
AfterPollAlone == "enter"               \* an input does not ask the callbacks
DropNothing == UNCHANGED ruleStates     \* the state of a rule cut off stays
RestAll(rules) == rules                 \* the rule that is run stays unfinished
ResumedOutermost(rules) == rules        \* the last one is resumed first

-----------------------------------------------------------------------------
(* Rules that go over a list: RuleList and ForEachRule *)

Child(r, i) == IF Kind[r] = "list" THEN Body[r][i] ELSE Body[r][1]

Iterate ==
    /\ Running({"list", "foreach"}, "enter")
    /\ Position(Held) <= Count(Top.rule)
    /\ Create
    /\ Call("check", Child(Top.rule, Position(Held)))
    /\ UNCHANGED <<callbacks, world, timeVars, lastRun, crashed>>

EndIterate ==
    /\ Running({"list", "foreach"}, "enter")
    /\ Position(Held) > Count(Top.rule)
    /\ Delete(Key(Top.rule))
    /\ Return
    /\ UNCHANGED <<callbacks, world, timeVars, lastRun, crashed>>

-----------------------------------------------------------------------------
(* Other rules without a list *)

\* Any condition of the loop; the loop has no state.
LoopAgain ==
    /\ Running({"loop"}, "enter")
    /\ Call("check", Body[Top.rule][1])
    /\ UNCHANGED <<callbacks, world, ruleStates, timeVars, lastRun, crashed>>

LoopEnd ==
    /\ Running({"loop"}, "enter")
    /\ Return
    /\ UNCHANGED <<callbacks, world, ruleStates, timeVars, lastRun, crashed>>

\* Cases::run returns as soon as the case it has chosen does.
ChooseCase ==
    /\ Running({"cases"}, "enter")
    /\ \/ Return
       \/ \E i \in 1..Len(Body[Top.rule]) :
             stack' = Append(Front(stack), Frame(Body[Top.rule][i], world))
    /\ UNCHANGED <<callbacks, world, ruleStates, timeVars, lastRun, crashed>>

Perform ==
    /\ Running({"step"}, "enter")
    /\ Return
    /\ late' = [k \in TimerKeys |->
                    IF k \in TimersAround(Top.rule) /\ clock[k] = "expired" /\ late[k] < 2
                    THEN late[k] + 1 ELSE late[k]]
    /\ UNCHANGED <<callbacks, world, ruleStates, clock, lastRun, crashed>>

\* An input looks for an answer in vain, and asks the callbacks.
AfterPoll == "check"
Poll ==
    /\ Running({"input"}, "enter")
    /\ Create
    /\ GoTo(AfterPoll)
    /\ UNCHANGED <<callbacks, world, timeVars, lastRun, crashed>>

\* It finds a valid answer, or its own time is over.
InputEnds ==
    /\ Running({"input"}, "enter")
    /\ Delete(Key(Top.rule))
    /\ Return
    /\ UNCHANGED <<callbacks, world, timeVars, lastRun, crashed>>

-----------------------------------------------------------------------------
(* The call of checkCallbacks by a list, a foreach, a loop, an input or an *)
(* exact timer that waits                                                  *)

Checkers == {"list", "foreach", "loop", "input", "exact"}
StepOn == IF Kind[Top.rule] \in {"list", "foreach"}
          THEN ruleStates' = [ruleStates EXCEPT ![Held] = @ + 1]
          ELSE UNCHANGED ruleStates

\* A loop has no state to drop.
DropState ==
    IF Kind[Top.rule] = "loop" THEN UNCHANGED ruleStates ELSE Delete(Key(Top.rule))

\* Nothing stops the rule.
CheckPasses ==
    /\ Running(Checkers, "check")
    /\ Stopper = 0 /\ ~NoStateThere
    /\ StepOn
    /\ GoTo(IF Kind[Top.rule] = "exact" THEN "pad" ELSE "enter")
    /\ UNCHANGED <<callbacks, world, timeVars, lastRun, crashed>>

\* A parallel rule stops it and will resume it.
Suspend ==
    /\ Running(Checkers, "check")
    /\ Stopper # 0 /\ ~NoStateThere
    /\ Kind[callbacks[Stopper]] \in Parallel
    /\ lastRun' = [lastRun EXCEPT ![AskedKey(callbacks[Stopper])] = Append(@, Top.rule)]
    /\ StepOn
    /\ Return
    /\ UNCHANGED <<callbacks, world, timeVars, crashed>>

\* A timer that has expired stops it for good.
CutOff ==
    /\ Running(Checkers, "check")
    /\ Stopper # 0 /\ ~NoStateThere
    /\ Kind[callbacks[Stopper]] \in Timers
    /\ DropState
    /\ Return
    /\ UNCHANGED <<callbacks, world, timeVars, lastRun, crashed>>

CheckCrashes ==
    /\ Running(Checkers, "check")
    /\ NoStateThere
    /\ crashed' = TRUE
    /\ UNCHANGED <<stack, callbacks, world, ruleStates, timeVars, lastRun>>

-----------------------------------------------------------------------------
(* Timers *)

\* An exact timer that has a state keeps it, the others start afresh.
StartTimer ==
    LET kept == Kind[Top.rule] = "exact" /\ Held \in DOMAIN ruleStates IN
    /\ Running(Timers, "enter")
    /\ Create
    /\ clock' = IF kept THEN clock ELSE [clock EXCEPT ![Held] = "running"]
    /\ late' = IF kept THEN late ELSE [late EXCEPT ![Held] = 0]
    /\ callbacks' = Append(callbacks, Top.rule)
    /\ Call("timed", Body[Top.rule][1])
    /\ UNCHANGED <<world, lastRun, crashed>>

EndTimer ==
    /\ Running({"atmost", "track"}, "timed")
    /\ Deregister(Top.rule)
    /\ Delete(Key(Top.rule))
    /\ Return
    /\ UNCHANGED <<world, timeVars, lastRun, crashed>>

\* The exact timer fills the rest of its time.
StartPadding ==
    /\ Running({"exact"}, "timed")
    /\ Deregister(Top.rule)
    /\ GoTo("pad")
    /\ UNCHANGED <<world, ruleStates, timeVars, lastRun, crashed>>

Pad ==
    /\ Running({"exact"}, "pad")
    /\ clock[Held] # "expired"
    /\ GoTo("check")
    /\ UNCHANGED <<callbacks, world, ruleStates, timeVars, lastRun, crashed>>

EndPadding ==
    /\ Running({"exact"}, "pad")
    /\ clock[Held] = "expired"
    /\ Delete(Key(Top.rule))
    /\ Return
    /\ UNCHANGED <<callbacks, world, timeVars, lastRun, crashed>>

\* Time passes, whatever the thread does.
Expire(k) ==
    /\ ~crashed /\ stack # <<>>
    /\ clock[k] = "running"
    /\ clock' = [clock EXCEPT ![k] = "expired"]
    /\ UNCHANGED <<stack, callbacks, world, ruleStates, lastRun, crashed, late>>

-----------------------------------------------------------------------------
(* Parallel rules *)

\* The branches, by number: each rule of an inparallel; the first rule of a
\* parallelfor, for each element.
Branches(p) ==
    IF Kind[p] = "inparallel"
    THEN [w \in 0..(Len(Body[p]) - 1) |-> <<Body[p][w + 1]>>]
    ELSE [w \in 0..(Size[p] - 1) |-> <<Body[Body[p][1]][1]>>]

Fork ==
    /\ Running(Parallel, "enter")
    /\ Create
    /\ callbacks' = Append(callbacks, Top.rule)
    /\ stack' = [stack EXCEPT ![Len(stack)].at = "round",
                              ![Len(stack)].todo = Branches(Top.rule)]
    /\ UNCHANGED <<world, timeVars, lastRun, crashed>>

\* pop_back of the unfinished rules; the suspended ones in the order in which
\* they are put there.
Rest(rules) == Front(rules)
Resumed(rules) == Reverse(rules)

\* The pass over todo, an unordered map, comes to branch w: its innermost
\* unfinished rule is run.
TakeTurn(w) ==
    LET f == Top
        rules == f.todo[w]
        n == IF Kind[f.rule] = "parallelfor" THEN w ELSE world IN
    /\ Running(Parallel, "round")
    /\ w \in IF f.round = {} THEN DOMAIN f.todo ELSE f.round
    /\ world' = n
    /\ stack' = Append([stack EXCEPT
                    ![Len(stack)] =
                        [f EXCEPT !.at = "turn", !.turn = w, !.todo[w] = Rest(rules),
                                  !.round = (IF @ = {} THEN DOMAIN f.todo ELSE @) \ {w}]],
                    Frame(Last(rules), n))
    /\ UNCHANGED <<callbacks, ruleStates, timeVars, lastRun, crashed>>

\* The branch has returned: what it suspended is to be resumed, the innermost
\* rule first.
EndTurn ==
    LET f == Top
        rules == f.todo[f.turn] \o Resumed(lastRun[Held])
        left == IF rules = <<>> THEN DOMAIN f.todo \ {f.turn} ELSE DOMAIN f.todo IN
    /\ Running(Parallel, "turn")
    /\ stack' = [stack EXCEPT ![Len(stack)] =
                    [f EXCEPT !.at = "round", !.turn = 0,
                              !.todo = [w \in left |-> IF w = f.turn THEN rules ELSE @[w]]]]
    /\ lastRun' = [lastRun EXCEPT ![Held] = <<>>]
    /\ UNCHANGED <<callbacks, world, ruleStates, timeVars, crashed>>

Join ==
    LET n == IF Kind[Top.rule] = "parallelfor" THEN 0 ELSE world IN
    /\ Running(Parallel, "round")
    /\ DOMAIN Top.todo = {}
    /\ world' = n
    /\ Deregister(Top.rule)
    /\ Delete(<<Top.rule, n>>)
    /\ Return
    /\ UNCHANGED <<timeVars, lastRun, crashed>>

\* The game is over, or the process is gone.
Done == (crashed \/ stack = <<>>) /\ UNCHANGED vars

-----------------------------------------------------------------------------
Run ==
    \/ Iterate \/ EndIterate \/ LoopAgain \/ ChooseCase \/ Perform \/ Poll
    \/ CheckPasses \/ Suspend \/ CutOff \/ CheckCrashes
    \/ StartTimer \/ EndTimer \/ StartPadding \/ Pad \/ EndPadding
    \/ Fork \/ (\E w \in World : TakeTurn(w)) \/ EndTurn \/ Join

Next ==
    \/ Run
    \/ LoopEnd
    \/ InputEnds
    \/ \E k \in TimerKeys : Expire(k)
    \/ Done

Spec == Init /\ [][Next]_vars

(***************************************************************************)
(* Fairness.  The game thread is scheduled.  Nothing is assumed of the     *)
(* answers and the conditions of the game, nor of the time: those are      *)
(* premises of the properties that need them.                              *)
(***************************************************************************)
FairSpec == Spec /\ WF_vars(Run)

-----------------------------------------------------------------------------
(* Properties *)

\* The strand of each branch, put together again from what is in the calls of
\* run, in the todo of the parallel rule and in the states.  A list whose rule
\* is under way is already to go on with the next one.
Item(r, n) == [rule |-> r, pos |-> n]
ItemOf(f) ==
    Item(f.rule,
         CASE Kind[f.rule] \in {"list", "foreach"} ->
                    Position(<<f.rule, f.home>>) + (IF f.at = "check" THEN 1 ELSE 0)
           [] Kind[f.rule] \in Parallel \cup Timers -> IF f.at = "enter" THEN 1 ELSE 2
           [] OTHER -> 1)
Suspended(rules, n) ==
    [i \in 1..Len(rules) |-> Item(rules[i], Position(<<rules[i], n>>))]

\* The calls after the i-th, up to the next parallel rule.
CallsAfter(i) ==
    LET forks == {j \in (i + 1)..Len(stack) : Kind[stack[j].rule] \in Parallel}
        end == IF forks = {} THEN Len(stack) ELSE Min(forks) IN
    [j \in 1..(end - i) |-> ItemOf(stack[i + j])]

Branch(i, w) ==
    LET f == stack[i]
        n == IF Kind[f.rule] = "parallelfor" THEN w ELSE f.home IN
    Suspended(f.todo[w], n)
        \o IF f.at = "turn" /\ f.turn = w
           THEN CallsAfter(i) \o Suspended(Reverse(lastRun[<<f.rule, f.home>>]), n)
           ELSE <<>>

StackOf ==
    LET forks == {i \in 1..Len(stack) : Kind[stack[i].rule] \in Parallel}
        branches == UNION {{<<i, w>> : w \in DOMAIN stack[i].todo} : i \in forks}
        alive == {b \in branches : Branch(b[1], b[2]) # <<>>}
        root == IF stack = <<>> THEN {} ELSE {<<stack[1].rule, 0>>} IN
    [s \in root \cup {<<stack[b[1]].rule, b[2]>> : b \in alive} |->
        IF s \in root THEN CallsAfter(0)
        ELSE Branch(CHOOSE i \in forks : stack[i].rule = s[1], s[2])]

\* Giving turns, suspending and resuming look as if every branch ran by
\* itself: no rule is skipped, done twice, done out of order or done with the
\* position of another branch, and the parallel rule waits for all of them.
Interleaving == INSTANCE Strands WITH strands <- StackOf
Interleaves == Interleaving!StrandsSpec

\* When the game ends it leaves no state and no callback behind, however its
\* rules were cut off or resumed; a state left in the middle of a list would
\* make its next run begin there.
NothingLeft ==
    stack = <<>> /\ ~crashed => DOMAIN ruleStates = {} /\ callbacks = <<>> /\ world = 0

\* "force all subrules to shut down": once a timer has expired, at most the
\* one rule it had come to is still done inside it.
TimersStop == \A k \in TimerKeys : late[k] <= 1

\* A state is asked for that is not there only in a game with one parallelfor
\* inside another: each rule looks for its state in the world it has put it in,
\* whatever the world of the branch that asks.
Nested(q) ==
    Kind[q] = "parallelfor" /\ \E p \in Rule : Kind[p] = "parallelfor" /\ p # q /\ q \in Inside[p]
StatesThere == crashed => \E q \in Inside[stack[1].rule] : Nested(q)

\* A branch that has no input and no loop comes to its end, though the others
\* wait for an answer for ever.
Waiting(r) == \E q \in Inside[r] : Kind[q] \in {"input", "loop", "exact"}
FreeBranches ==
    {b \in {p \in Rule : Kind[p] = "inparallel"} \X World :
        b[2] < Len(Body[b[1]]) /\ ~Waiting(Body[b[1]][b[2] + 1])}
UnderWay(b) ==
    \E i \in 1..Len(stack) : stack[i].rule = b[1] /\ b[2] \in DOMAIN stack[i].todo
BranchesMoveOn == \A b \in FreeBranches : UnderWay(b) ~> ~UnderWay(b)

\* The game ends, if the inputs and the loops do and time passes.
Ends ==
    (SF_vars(LoopEnd) /\ SF_vars(InputEnds) /\ \A k \in TimerKeys : WF_vars(Expire(k)))
        => <>(stack = <<>> \/ crashed)
=============================================================================
