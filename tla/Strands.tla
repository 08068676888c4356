------------------------------- MODULE Strands -------------------------------
(***************************************************************************)
(* What the rules of a game promise, with the parallel rules as if every   *)
(* branch had a thread of its own: a strand is a stack of rules, each with *)
(* the position of what it does next; strands run in any order, a parallel *)
(* rule forks one for each of its branches and goes on when they have all  *)
(* ended; a timer may cut off what is inside it.  There is nothing here to *)
(* suspend, to resume or to keep apart.                                    *)
(***************************************************************************)
EXTENDS Naturals, SequencesExt, TLC

CONSTANTS
    Rule, Kind, Body, Size, Roots   \* as in Scheduler

VARIABLE
    strands         \* strands[<<r, n>>]: the stack of branch n of rule r,
                    \* innermost last, or that of the root r

Forks == {"inparallel", "parallelfor"}
Limits == {"atmost", "exact"}

Item(r) == [rule |-> r, pos |-> 1]

StrandsInit == \E r \in Roots : strands = (<<r, 0>> :> <<Item(r)>>)

Innermost(s) == Last(strands[s])
KindOf(s) == Kind[Innermost(s).rule]

\* The strand s goes on with another stack; without one it is gone.
Continue(s, items) ==
    strands' = IF items = <<>> THEN [t \in DOMAIN strands \ {s} |-> strands[t]]
               ELSE [strands EXCEPT ![s] = items]
Pop(s) == Continue(s, Front(strands[s]))
Push(s, pos, r) ==
    Continue(s, Append([strands[s] EXCEPT ![Len(strands[s])].pos = pos], Item(r)))

\* A list does its rules in order, a foreach its list once for each element.
Enter(s) ==
    LET f == Innermost(s) IN
    \/ /\ KindOf(s) = "list" /\ f.pos <= Len(Body[f.rule])
       /\ Push(s, f.pos + 1, Body[f.rule][f.pos])
    \/ /\ KindOf(s) = "foreach" /\ f.pos <= Size[f.rule]
       /\ Push(s, f.pos + 1, Body[f.rule][1])
    \/ /\ KindOf(s) = "loop"
       /\ Push(s, f.pos, Body[f.rule][1])
    \/ /\ KindOf(s) \in Limits \cup {"track"} /\ f.pos = 1
       /\ Push(s, 2, Body[f.rule][1])
    \/ /\ KindOf(s) = "cases"
       /\ \E i \in 1..Len(Body[f.rule]) :
             Continue(s, Append(Front(strands[s]), Item(Body[f.rule][i])))

Branches(p) ==
    IF Kind[p] = "inparallel"
    THEN [n \in 0..(Len(Body[p]) - 1) |-> <<Item(Body[p][n + 1])>>]
    ELSE [n \in 0..(Size[p] - 1) |-> <<Item(Body[Body[p][1]][1])>>]

BranchesOf(p) == {s \in DOMAIN strands : s[1] = p}

\* A strand for every branch; one whose rule has no branches just goes on.
Fork(s) ==
    LET p == Innermost(s).rule
        branches == Branches(p) IN
    /\ KindOf(s) \in Forks /\ Innermost(s).pos = 1 /\ BranchesOf(p) = {}
    /\ strands' =
        [t \in DOMAIN strands \cup {<<p, n>> : n \in DOMAIN branches} |->
            IF t = s THEN [strands[s] EXCEPT ![Len(strands[s])].pos = 2]
            ELSE IF t \in DOMAIN strands THEN strands[t] ELSE branches[t[2]]]

\* The innermost rule has come to its end.
Leave(s) ==
    LET f == Innermost(s) IN
    /\ \/ KindOf(s) = "list" /\ f.pos > Len(Body[f.rule])
       \/ KindOf(s) = "foreach" /\ f.pos > Size[f.rule]
       \/ KindOf(s) \in {"step", "input", "loop", "cases"}
       \/ KindOf(s) \in Limits \cup {"track"} /\ f.pos = 2
       \/ KindOf(s) \in Forks /\ f.pos = 2 /\ BranchesOf(f.rule) = {}
    /\ Pop(s)

\* A rule inside a timer is cut off, unless it has branches under way.
Cut(s) ==
    /\ \E i \in 1..(Len(strands[s]) - 1) : Kind[strands[s][i].rule] \in Limits
    /\ BranchesOf(Innermost(s).rule) = {}
    /\ Pop(s)

StrandsNext == \E s \in DOMAIN strands : Enter(s) \/ Fork(s) \/ Leave(s) \/ Cut(s)

StrandsSpec == StrandsInit /\ [][StrandsNext]_strands
=============================================================================
