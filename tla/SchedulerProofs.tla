---------------------------- MODULE SchedulerProofs ----------------------------
(***************************************************************************)
(* Proofs about Scheduler, for every tree of rules: as long as no          *)
(* parallelfor is inside another one, no state is missed and none is left, *)
(* however branches are suspended and resumed and whatever timers cut off; *)
(* and a timer with no parallel rule inside or around it stops its rules.  *)
(***************************************************************************)
EXTENDS Scheduler, SequenceTheorems, WellFoundedInduction, TLAPS

Within(q, p) == q \in Inside[p] /\ q # p
InParallelFor(q) == \E p \in Rule : Kind[p] = "parallelfor" /\ Within(q, p)

Forks(f) == Kind[f.rule] \in Parallel
Registered(f) ==
    \/ Kind[f.rule] \in Timers /\ f.at = "timed"
    \/ Forks(f) /\ f.at \in {"round", "turn"}

\* The world of what a call calls, and of its branch w.
HomeIn(f) == IF Kind[f.rule] = "parallelfor" THEN f.turn ELSE f.home
WorldOf(f, w) == IF Kind[f.rule] = "parallelfor" THEN w ELSE f.home
Place(f) == <<f.rule, f.home>>

-----------------------------------------------------------------------------
(* The calls *)

Todos == UNION {[D -> Seq(Rule)] : D \in SUBSET Nat}
Calls == [rule : Rule, at : {"enter", "check", "timed", "pad", "round", "turn"},
          home : World, todo : Todos, round : SUBSET Nat, turn : World]

\* A call of a rule of game r, by itself.
CallOK(f, r) ==
    /\ f.rule \in Inside[r]
    /\ f.at = "timed" => Kind[f.rule] \in Timers
    /\ f.at \in {"round", "turn"} => Forks(f)
    /\ f.at \notin {"round", "turn"} => DOMAIN f.todo = {}
    /\ f.home = 0 \/ InParallelFor(f.rule)
    /\ f.round \subseteq DOMAIN f.todo
    /\ f.at = "turn" => f.turn \in DOMAIN f.todo \ f.round
    /\ \A w \in DOMAIN f.todo :
          /\ (f.at = "turn" /\ f.turn = w) \/ f.todo[w] # <<>>
          /\ \A m \in 1..Len(f.todo[w]) : Within(f.todo[w][m], f.rule)

\* s are calls of game r, each inside the one before it; what is between two
\* parallel rules is in the world of the branch.
Nest(s, r) ==
    /\ s \in Seq(Calls)
    /\ s # <<>> => s[1].rule = r /\ s[1].home = 0
    /\ \A a \in 1..Len(s) : CallOK(s[a], r)
    /\ \A a, b \in 1..Len(s) : a < b =>
          /\ Within(s[b].rule, s[a].rule)
          /\ s[a].at # "enter"
          /\ Forks(s[a]) => s[a].at = "turn"
          /\ (\A c \in 1..Len(s) : a < c /\ c < b => ~Forks(s[c])) =>
                s[b].home = HomeIn(s[a])

WorldOK(s, w) ==
    IF s = <<>> THEN w = 0
    ELSE LET f == s[Len(s)] IN
         (Kind[f.rule] = "parallelfor" /\ f.at # "enter") \/ w = f.home

\* The callbacks are the calls that are registered, in their order.
Listed(s, c) ==
    /\ c \in Seq(Rule)
    /\ \A j \in 1..Len(c) : \E a \in 1..Len(s) : Registered(s[a]) /\ s[a].rule = c[j]
    /\ \A a \in 1..Len(s) : Registered(s[a]) => \E j \in 1..Len(c) : s[a].rule = c[j]
    /\ \A j, k \in 1..Len(c) : \A a, b \in 1..Len(s) :
          Registered(s[a]) /\ s[a].rule = c[j] /\ Registered(s[b]) /\ s[b].rule = c[k]
            => (a < b <=> j < k)

-----------------------------------------------------------------------------
(* What is suspended, and the states *)

\* Only for a branch that is run something is suspended, and it is inside.
SuspendedOK(s, l) ==
    /\ l \in [ParallelKeys -> Seq(Rule)]
    /\ \A k \in ParallelKeys : l[k] # <<>> =>
          \E a \in 1..Len(s) : s[a].at = "turn" /\ k = Place(s[a])
    /\ \A a \in 1..Len(s) : s[a].at = "turn" =>
          \A m \in 1..Len(l[Place(s[a])]) : Within(l[Place(s[a])][m], s[a].rule)

\* Somebody will delete the state k: a call under way, or one that is to be
\* resumed.
OwnedBy(f, l, k) ==
    \/ k = Place(f)
    \/ \E w \in DOMAIN f.todo : \E m \in 1..Len(f.todo[w]) :
          k = <<f.todo[w][m], WorldOf(f, w)>>
    \/ f.at = "turn" /\ \E m \in 1..Len(l[Place(f)]) :
          k = <<l[Place(f)][m], HomeIn(f)>>
Owned(s, l, k) == \E a \in 1..Len(s) : OwnedBy(s[a], l, k)

StatesOwned(s, l, states) ==
    /\ states \in [DOMAIN states -> Nat \ {0}]
    /\ \A k \in DOMAIN states :
          Kind[k[1]] \notin {"step", "loop", "cases"} /\ Owned(s, l, k)

\* A call that is registered has its state.
StatesHeld(s, states) ==
    \A a \in 1..Len(s) : Registered(s[a]) => Place(s[a]) \in DOMAIN states

Inv(r) ==
    /\ Nest(stack, r)
    /\ WorldOK(stack, world) /\ world \in World
    /\ Listed(stack, callbacks)
    /\ SuspendedOK(stack, lastRun)
    /\ StatesOwned(stack, lastRun, ruleStates)
    /\ StatesHeld(stack, ruleStates)
    /\ ~crashed

\* No parallelfor of the game r is inside another.
Calm(r) == \A q \in Inside[r] : ~Nested(q)

\* The first call is the one of the rules of the game r.
RootCalls(r) == [rule : {r}, at : {"enter", "check", "timed", "pad", "round", "turn"},
                 home : {0}, todo : {<<>>}, round : {{}}, turn : {0}]
First(s, r) == (\E T : s \in Seq(T)) /\ (s # <<>> => s[1] \in RootCalls(r))

\* One game is played, and if it is calm nothing is amiss.
GameInv == \E r \in Roots :
    /\ First(stack, r)
    /\ stack = <<>> => ~crashed
    /\ Calm(r) => Inv(r)

-----------------------------------------------------------------------------
(* Sequences *)

LEMMA NoItems == DOMAIN <<>> = {}
  OBVIOUS

LEMMA EmptyIff ==
  ASSUME NEW T, NEW s \in Seq(T)
  PROVE  s = <<>> <=> Len(s) = 0
  OBVIOUS

LEMMA LastChanged ==
  ASSUME NEW T, NEW s \in Seq(T), s # <<>>, NEW g \in T
  PROVE  LET t == [s EXCEPT ![Len(s)] = g] IN
         /\ t \in Seq(T) /\ Len(t) = Len(s) /\ Len(s) \in Nat \ {0} /\ t # <<>>
         /\ t[Len(s)] = g
         /\ \A i \in 1..Len(s) : i # Len(s) => t[i] = s[i]
  OBVIOUS

LEMMA OneMore ==
  ASSUME NEW T, NEW s \in Seq(T), NEW x \in T
  PROVE  /\ Append(s, x) \in Seq(T) /\ Append(s, x) # <<>>
         /\ Len(Append(s, x)) = Len(s) + 1 /\ Len(s) \in Nat
         /\ Append(s, x)[Len(s) + 1] = x
         /\ \A i \in 1..Len(s) : Append(s, x)[i] = s[i]
  OBVIOUS

LEMMA OneLess ==
  ASSUME NEW T, NEW s \in Seq(T), s # <<>>
  PROVE  /\ Front(s) \in Seq(T)
         /\ Len(Front(s)) = Len(s) - 1 /\ Len(s) \in Nat \ {0}
         /\ \A i \in 1..(Len(s) - 1) : Front(s)[i] = s[i]
         /\ Front(s) = <<>> <=> Len(s) = 1
         /\ Last(s) = s[Len(s)] /\ s[Len(s)] \in T
<1>1. Len(s) \in Nat \ {0} /\ s[Len(s)] \in T
  OBVIOUS
<1>2. /\ Front(s) \in Seq(T) /\ Len(Front(s)) = Len(s) - 1
      /\ \A i \in 1..(Len(s) - 1) : Front(s)[i] = s[i]
  <2> DEFINE n == Len(s) - 1
             u == SubSeq(s, 1, n)
  <2>1. n \in Int /\ 1 \in Int /\ \A i \in 1..n : s[i] \in T
    BY <1>1
  <2> HIDE DEF n
  <2>2. u \in Seq(T) /\ Len(u) = (IF 1 <= n THEN n - 1 + 1 ELSE 0)
        /\ \A i \in 1..(n - 1 + 1) : u[i] = s[1 + i - 1]
    BY <2>1, SubSeqProperties
  <2> USE DEF n
  <2>3. u = Front(s)
    BY DEF Front
  <2> HIDE DEF u
  <2>4. n \in Nat
    BY <1>1
  <2> HIDE DEF n
  <2>5. Len(u) = n
    BY <2>2, <2>4
  <2>6. \A i \in 1..n : i \in 1..(n - 1 + 1) /\ 1 + i - 1 = i
    BY ONLY <2>4
  <2>7. \A i \in 1..n : u[i] = s[i]
    BY <2>2, <2>6
  <2> USE DEF n
  <2> QED
    BY <2>2, <2>3, <2>5, <2>7
<1>3. Front(s) = <<>> <=> Len(Front(s)) = 0
  <2> DEFINE u == Front(s)
  <2>1. u \in Seq(T)
    BY <1>2
  <2> HIDE DEF u
  <2>2. u = <<>> <=> Len(u) = 0
    BY <2>1, EmptyIff
  <2> QED
    BY <2>2 DEF u
<1> QED
  BY <1>1, <1>2, <1>3 DEF Last

LEMMA LastRemoved ==
  ASSUME NEW T, NEW s \in Seq(T), s # <<>>
  PROVE  RemoveAt(s, Len(s)) = Front(s)
  BY DEF Front, RemoveAt

LEMMA Turned ==
  ASSUME NEW T, NEW s \in Seq(T)
  PROVE  /\ Reverse(s) \in Seq(T) /\ Len(Reverse(s)) = Len(s)
         /\ \A i \in 1..Len(s) : (Len(s) - i) + 1 \in 1..Len(s)
                                 /\ Reverse(s)[(Len(s) - i) + 1] = s[i]
         /\ \A i \in 1..Len(s) : (Len(s) - i) + 1 \in 1..Len(s)
                                 /\ Reverse(s)[i] = s[(Len(s) - i) + 1]
  BY DEF Reverse

LEMMA Joined ==
  ASSUME NEW T, NEW s \in Seq(T), NEW t \in Seq(T)
  PROVE  /\ s \o t \in Seq(T)
         /\ \A i \in 1..Len(s \o t) :
               \/ i \in 1..Len(s) /\ (s \o t)[i] = s[i]
               \/ i - Len(s) \in 1..Len(t) /\ (s \o t)[i] = t[i - Len(s)]
         /\ \A i \in 1..Len(s) : i \in 1..Len(s \o t) /\ (s \o t)[i] = s[i]
         /\ \A i \in 1..Len(t) : Len(s) + i \in 1..Len(s \o t)
                                 /\ (s \o t)[Len(s) + i] = t[i]
         /\ s \o t = <<>> => s = <<>> /\ t = <<>>
<1>1. /\ Len(s) \in Nat /\ Len(t) \in Nat /\ s \o t \in Seq(T)
      /\ Len(s \o t) = Len(s) + Len(t)
  OBVIOUS
<1>2. \A i \in 1..Len(s \o t) :
         (s \o t)[i] = IF i <= Len(s) THEN s[i] ELSE t[i - Len(s)]
  OBVIOUS
<1>3. s \o t = <<>> => s = <<>> /\ t = <<>>
  OBVIOUS
<1> QED
  BY <1>1, <1>2, <1>3

\* The largest of some positions.
LEMMA Largest ==
  ASSUME NEW n \in Nat, NEW S, S \subseteq 0..n, S # {}
  PROVE  Max(S) \in S /\ \A x \in S : x <= Max(S)
<1> DEFINE R == OpToRel(<, Nat)
           T == {n - x : x \in S}
<1>1. T \subseteq Nat /\ T # {}
  <2>1. \A x \in S : x \in 0..n /\ n - x \in Nat
    BY ONLY n \in Nat, S \subseteq 0..n
  <2>2. PICK x \in S : TRUE
    OBVIOUS
  <2>3. n - x \in T
    OBVIOUS
  <2> QED
    BY <2>1, <2>3
<1>2. PICK m \in T : \A y \in T : ~(<<y, m>> \in R)
  <2>1. IsWellFoundedOn(R, Nat)
    BY NatLessThanWellFounded
  <2> HIDE DEF R, T
  <2> QED
    BY <1>1, <2>1, WFMin
<1>3. \A y \in T : ~(y < m)
  BY <1>1, <1>2 DEF OpToRel
<1>4. PICK x \in S : m = n - x
  OBVIOUS
<1>5. \A y \in S : x >= y
  <2> SUFFICES ASSUME NEW y \in S PROVE x >= y
    OBVIOUS
  <2>1. n - y \in T
    OBVIOUS
  <2>2. ~(n - y < n - x)
    BY <1>3, <1>4, <2>1
  <2>3. x \in Int /\ y \in Int
    BY ONLY S \subseteq 0..n, x \in S, y \in S, n \in Nat
  <2> HIDE DEF R, T
  <2> QED
    BY <2>2, <2>3
<1> HIDE DEF R, T
<1>6. \E z \in S : \A y \in S : z >= y
  BY <1>5
<1>7. Max(S) \in S /\ \A y \in S : Max(S) >= y
  BY <1>6 DEF Max
<1> QED
  BY <1>7

-----------------------------------------------------------------------------
(* The tree of rules *)

LEMMA Inner ==
  ASSUME NEW p \in Rule, NEW q \in Inside[p]
  PROVE  q \in Rule /\ p \in Inside[p] /\ Inside[q] \subseteq Inside[p]
  BY TreeAssumption

LEMMA ChildWithin ==
  ASSUME NEW p \in Rule, NEW i \in 1..Len(Body[p])
  PROVE  Body[p][i] \in Rule /\ Body[p][i] \in Inside[p] /\ Within(Body[p][i], p)
<1>1. Body[p] \in Seq(Rule)
  BY RulesAssumption
<1>2. Body[p][i] \in Rule
  BY <1>1
<1>3. Body[p][i] \in Inside[Body[p][i]] /\ p \notin Inside[Body[p][i]]
  BY <1>2, TreeAssumption
<1>4. Body[p][i] \in Inside[p]
  BY <1>3, TreeAssumption
<1> QED
  BY <1>2, <1>3, <1>4 DEF Within

LEMMA NotBoth ==
  ASSUME NEW p \in Rule, NEW q \in Inside[p], p \in Inside[q]
  PROVE  p = q
<1> SUFFICES ASSUME p # q PROVE FALSE
  OBVIOUS
<1>1. PICK i \in 1..Len(Body[p]) : q \in Inside[Body[p][i]]
  BY TreeAssumption
<1>2. Body[p][i] \in Rule
  BY ChildWithin
<1>3. Inside[q] \subseteq Inside[Body[p][i]]
  BY <1>1, <1>2, Inner
<1> QED
  BY <1>3, TreeAssumption

LEMMA WithinTrans ==
  ASSUME NEW p \in Rule, NEW q, NEW r, Within(q, p), Within(r, q)
  PROVE  Within(r, p) /\ r \in Rule /\ q \in Rule
<1>1. q \in Rule /\ Inside[q] \subseteq Inside[p] /\ q \in Inside[p]
  BY Inner DEF Within
<1>2. r \in Inside[p] /\ r \in Rule
  BY <1>1, Inner DEF Within
<1>3. r # p
  BY <1>1, NotBoth DEF Within
<1> QED
  BY <1>1, <1>2, <1>3 DEF Within

-----------------------------------------------------------------------------
(* What a step does to the calls *)

Popped(s, t) ==
    /\ s \in Seq(Calls) /\ t \in Seq(Calls) /\ Len(s) \in Nat \ {0}
    /\ Len(t) = Len(s) - 1
    /\ \A a \in 1..Len(t) : t[a] = s[a]

Changed(s, t, g) ==
    /\ s \in Seq(Calls) /\ t \in Seq(Calls) /\ Len(s) \in Nat \ {0}
    /\ Len(t) = Len(s)
    /\ \A a \in 1..Len(s) : t[a] = IF a = Len(s) THEN g ELSE s[a]

Pushed(s, t, g) ==
    /\ s \in Seq(Calls) /\ t \in Seq(Calls) /\ Len(s) \in Nat \ {0}
    /\ Len(t) = Len(s) + 1
    /\ \A a \in 1..Len(t) : t[a] = IF a = Len(t) THEN g ELSE s[a]

LEMMA FrontPops ==
  ASSUME NEW s \in Seq(Calls), s # <<>>
  PROVE  Popped(s, Front(s))
  BY OneLess DEF Popped

LEMMA ExceptChanges ==
  ASSUME NEW s \in Seq(Calls), s # <<>>, NEW g \in Calls
  PROVE  Changed(s, [s EXCEPT ![Len(s)] = g], g)
  BY LastChanged DEF Changed

LEMMA AppendPushes ==
  ASSUME NEW s \in Seq(Calls), s # <<>>, NEW g \in Calls
  PROVE  Pushed(s, Append(s, g), g)
<1>1. Len(s) \in Nat \ {0}
  OBVIOUS
<1> QED
  BY <1>1, OneMore DEF Pushed

LEMMA NestPopped ==
  ASSUME NEW r, NEW s, NEW t, Nest(s, r), Popped(s, t)
  PROVE  Nest(t, r)
<1>1. \A a \in 1..Len(t) : a \in 1..Len(s)
  BY DEF Popped
<1>2. t # <<>> => 1 \in 1..Len(t) /\ s # <<>>
  BY DEF Popped
<1>3. t \in Seq(Calls) /\ \A a \in 1..Len(t) : t[a] = s[a]
  BY DEF Popped
<1>4. t # <<>> => t[1].rule = r /\ t[1].home = 0
  BY <1>2, <1>3 DEF Nest
<1>5. \A a \in 1..Len(t) : CallOK(t[a], r)
  BY <1>1, <1>3 DEF Nest
<1>6. ASSUME NEW a \in 1..Len(t), NEW b \in 1..Len(t), a < b
      PROVE  /\ Within(t[b].rule, t[a].rule)
             /\ t[a].at # "enter"
             /\ Forks(t[a]) => t[a].at = "turn"
             /\ (\A c \in 1..Len(t) : a < c /\ c < b => ~Forks(t[c])) =>
                   t[b].home = HomeIn(t[a])
  <2>1. /\ Within(s[b].rule, s[a].rule)
        /\ s[a].at # "enter"
        /\ Forks(s[a]) => s[a].at = "turn"
        /\ (\A c \in 1..Len(s) : a < c /\ c < b => ~Forks(s[c])) =>
              s[b].home = HomeIn(s[a])
    BY <1>1, <1>6 DEF Nest
  <2>2. \A c \in 1..Len(s) : a < c /\ c < b => c \in 1..Len(t)
    BY <1>6 DEF Popped
  <2> QED
    BY <1>3, <2>1, <2>2
<1> QED
  BY <1>3, <1>4, <1>5, <1>6 DEF Nest

LEMMA NestChanged ==
  ASSUME NEW r, NEW s, NEW t, NEW g, Nest(s, r), Changed(s, t, g), CallOK(g, r),
         g.rule = s[Len(s)].rule, g.home = s[Len(s)].home
  PROVE  Nest(t, r)
<1>1. 1 \in 1..Len(s) /\ s # <<>> /\ Len(s) \in 1..Len(s)
  BY DEF Changed
<1>2. \A a \in 1..Len(s) : t[a].rule = s[a].rule /\ t[a].home = s[a].home
  BY DEF Changed
<1>3. \A a, b \in 1..Len(s) : a < b => t[a] = s[a]
  BY DEF Changed
<1>4. \A a \in 1..Len(s) : Forks(t[a]) <=> Forks(s[a])
  BY <1>2 DEF Forks
<1>5. \A a \in 1..Len(t) : CallOK(t[a], r)
  BY DEF Nest, Changed
<1>6. \A a, b \in 1..Len(s) : a < b => t[a] = s[a] /\ t[b].rule = s[b].rule
                                      /\ t[b].home = s[b].home
  BY <1>2, <1>3
<1>7. Len(t) = Len(s) /\ t \in Seq(Calls)
  BY DEF Changed
<1>8. t # <<>> => t[1].rule = r /\ t[1].home = 0
  BY <1>1, <1>2 DEF Nest
<1>9. ASSUME NEW a \in 1..Len(t), NEW b \in 1..Len(t), a < b
      PROVE  /\ Within(t[b].rule, t[a].rule)
             /\ t[a].at # "enter"
             /\ Forks(t[a]) => t[a].at = "turn"
             /\ (\A c \in 1..Len(t) : a < c /\ c < b => ~Forks(t[c])) =>
                   t[b].home = HomeIn(t[a])
  <2>1. /\ Within(s[b].rule, s[a].rule)
        /\ s[a].at # "enter"
        /\ Forks(s[a]) => s[a].at = "turn"
        /\ (\A c \in 1..Len(s) : a < c /\ c < b => ~Forks(s[c])) =>
              s[b].home = HomeIn(s[a])
    BY <1>7, <1>9 DEF Nest
  <2>2. t[a] = s[a] /\ t[b].rule = s[b].rule /\ t[b].home = s[b].home
    BY <1>6, <1>7, <1>9
  <2> QED
    BY <1>4, <1>7, <2>1, <2>2
<1> QED
  BY <1>5, <1>7, <1>8, <1>9 DEF Nest

LEMMA NewCall ==
  ASSUME NEW q \in Rule, NEW w \in World
  PROVE  /\ Frame(q, w) \in Calls
         /\ Frame(q, w).rule = q /\ Frame(q, w).home = w
         /\ Frame(q, w).at = "enter" /\ DOMAIN Frame(q, w).todo = {}
         /\ Frame(q, w).round = {}
<1>1. <<>> \in Todos
  <2>1. <<>> \in [{} -> Seq(Rule)]
    OBVIOUS
  <2> QED
    BY <2>1 DEF Todos
<1>2. 0 \in World
  BY RulesAssumption DEF World
<1> QED
  BY <1>1, <1>2, NoItems DEF Frame, Calls

LEMMA NestPushed ==
  ASSUME NEW r \in Rule, NEW s, NEW t, NEW g \in Calls, Nest(s, r), Pushed(s, t, g),
         Within(g.rule, s[Len(s)].rule), s[Len(s)].at # "enter",
         Forks(s[Len(s)]) => s[Len(s)].at = "turn",
         g.home = HomeIn(s[Len(s)]),
         g.at = "enter", DOMAIN g.todo = {}, g.round = {}
  PROVE  Nest(t, r)
<1> DEFINE n == Len(s)
           f == s[n]
<1>1. n \in 1..n /\ n \in Nat /\ s # <<>> /\ 1 \in 1..n /\ Len(t) = n + 1 /\ f \in Calls
  BY DEF Pushed
<1>2. \A a \in 1..n : a \in 1..Len(t) /\ t[a] = s[a]
  BY DEF Pushed
<1>3. t[n + 1] = g /\ t \in Seq(Calls)
  BY DEF Pushed
<1>4. \A a \in 1..Len(t) : a \in 1..n \/ a = n + 1
  BY <1>1
<1>5. CallOK(f, r)
  BY <1>1 DEF Nest
<1>6. f.rule \in Rule /\ g.rule \in Inside[r]
  <2>1. f.rule \in Inside[r] /\ f.rule \in Rule /\ g.rule \in Inside[f.rule]
    BY <1>5, Inner DEF CallOK, Within
  <2> QED
    BY <2>1, Inner
<1>7. g.home = 0 \/ InParallelFor(g.rule)
  <2>1. CASE Kind[f.rule] = "parallelfor"
    BY <1>6, <2>1 DEF InParallelFor
  <2>2. CASE Kind[f.rule] # "parallelfor" /\ f.home # 0
    <3>1. PICK p \in Rule : Kind[p] = "parallelfor" /\ Within(f.rule, p)
      BY <1>5, <2>2 DEF CallOK, InParallelFor
    <3>2. Within(g.rule, p)
      BY <3>1, WithinTrans
    <3> QED
      BY <3>1, <3>2 DEF InParallelFor
  <2>3. CASE Kind[f.rule] # "parallelfor" /\ f.home = 0
    BY <2>3 DEF HomeIn
  <2> QED
    BY <2>1, <2>2, <2>3
<1>8. CallOK(g, r)
  BY <1>6, <1>7 DEF CallOK
<1>9. \A a \in 1..Len(t) : CallOK(t[a], r)
  BY <1>2, <1>3, <1>4, <1>8 DEF Nest
<1>10. t[1].rule = r /\ t[1].home = 0
  BY <1>1, <1>2 DEF Nest
<1>11. ASSUME NEW a \in 1..Len(t), NEW b \in 1..Len(t), a < b
       PROVE  /\ Within(t[b].rule, t[a].rule)
              /\ t[a].at # "enter"
              /\ Forks(t[a]) => t[a].at = "turn"
              /\ (\A c \in 1..Len(t) : a < c /\ c < b => ~Forks(t[c])) =>
                    t[b].home = HomeIn(t[a])
  <2>1. CASE b \in 1..n
    <3>1. a \in 1..n
      BY <1>1, <1>11, <2>1
    <3>2. /\ Within(s[b].rule, s[a].rule)
          /\ s[a].at # "enter"
          /\ Forks(s[a]) => s[a].at = "turn"
          /\ (\A c \in 1..n : a < c /\ c < b => ~Forks(s[c])) =>
                s[b].home = HomeIn(s[a])
      BY <1>11, <2>1, <3>1 DEF Nest
    <3> QED
      BY <1>2, <2>1, <3>1, <3>2
  <2>2. CASE b = n + 1 /\ a = n
    BY <1>1, <1>2, <1>3, <2>2
  <2>3. CASE b = n + 1 /\ a \in 1..n /\ a # n
    <3>1. a < n
      BY <1>1, <2>3
    <3>2. /\ Within(f.rule, s[a].rule)
          /\ s[a].at # "enter"
          /\ Forks(s[a]) => s[a].at = "turn"
          /\ (\A c \in 1..n : a < c /\ c < n => ~Forks(s[c])) =>
                f.home = HomeIn(s[a])
      BY <1>1, <2>3, <3>1 DEF Nest
    <3>3. s[a].rule \in Rule
      BY <2>3, Inner DEF Nest, CallOK
    <3>4. Within(g.rule, s[a].rule)
      BY <3>2, <3>3, WithinTrans
    <3>5. ASSUME \A c \in 1..Len(t) : a < c /\ c < b => ~Forks(t[c])
          PROVE  g.home = HomeIn(s[a])
      <4>1. \A c \in 1..n : a < c /\ c < n => c < b
        BY <1>1, <2>3
      <4>2. \A c \in 1..n : a < c /\ c < n => ~Forks(s[c])
        BY <1>2, <3>5, <4>1
      <4>3. n < b
        BY <1>1, <2>3
      <4>4. ~Forks(f)
        BY <1>1, <1>2, <3>1, <3>5, <4>3
      <4>5. HomeIn(f) = f.home
        BY <4>4 DEF HomeIn, Forks, Parallel
      <4> QED
        BY <3>2, <4>2, <4>5
    <3> QED
      BY <1>2, <1>3, <2>3, <3>2, <3>4, <3>5
  <2> QED
    BY <1>4, <1>11, <2>1, <2>2, <2>3
<1> QED
  BY <1>3, <1>9, <1>10, <1>11 DEF Nest

\* No rule is called twice.
LEMMA OneCall ==
  ASSUME NEW r \in Rule, NEW s, Nest(s, r), NEW a \in 1..Len(s), NEW b \in 1..Len(s),
         s[a].rule = s[b].rule
  PROVE  a = b
<1>1. a < b => s[b].rule # s[a].rule
  BY DEF Nest, Within
<1>2. b < a => s[b].rule # s[a].rule
  BY DEF Nest, Within
<1>3. a \in Nat /\ b \in Nat
  OBVIOUS
<1> QED
  BY <1>1, <1>2, <1>3

\* The innermost branch: the calls in it are in its world.
LEMMA Innermost ==
  ASSUME NEW r \in Rule, NEW s, Nest(s, r), s # <<>>
  PROVE  \E a \in 1..Len(s) :
            /\ Forks(s[a]) \/ HomeIn(s[a]) = s[a].home
            /\ ~Forks(s[a]) => s[a].home = 0 /\ a = 1
            /\ \A b \in 1..Len(s) : a < b => ~Forks(s[b]) /\ s[b].home = HomeIn(s[a])
<1> DEFINE S == {1} \cup {b \in 1..Len(s) : Forks(s[b])}
<1>1. Len(s) \in Nat /\ 1 \in 1..Len(s)
  BY DEF Nest
<1>2. S \subseteq 0..Len(s) /\ S # {} /\ S \subseteq 1..Len(s)
  BY <1>1
<1>3. PICK a \in S : \A x \in S : x <= a
  <2> HIDE DEF S
  <2> QED
    BY <1>1, <1>2, Largest
<1>4. a \in 1..Len(s)
  BY <1>2
<1>5. \A b \in 1..Len(s) : a < b => ~Forks(s[b])
  <2> SUFFICES ASSUME NEW b \in 1..Len(s), a < b, Forks(s[b]) PROVE FALSE
    OBVIOUS
  <2>1. b \in S
    OBVIOUS
  <2>2. b <= a
    BY <1>3, <2>1
  <2> QED
    BY ONLY <1>4, <2>2, a < b, b \in 1..Len(s)
<1>6. ~Forks(s[a]) => a = 1
  OBVIOUS
<1>7. s[1].home = 0 /\ s[1].rule = r
  BY DEF Nest
<1>8. Forks(s[a]) \/ HomeIn(s[a]) = s[a].home
  BY DEF Forks, HomeIn, Parallel
<1>9. \A b \in 1..Len(s) : a < b => s[b].home = HomeIn(s[a])
  <2> SUFFICES ASSUME NEW b \in 1..Len(s), a < b PROVE s[b].home = HomeIn(s[a])
    OBVIOUS
  <2>1. \A c \in 1..Len(s) : a < c /\ c < b => ~Forks(s[c])
    BY <1>5
  <2> QED
    BY <1>4, <2>1 DEF Nest
<1> QED
  BY <1>4, <1>5, <1>6, <1>7, <1>8, <1>9

-----------------------------------------------------------------------------
(* The world number and the callbacks *)

LEMMA WorldPopped ==
  ASSUME NEW r, NEW s, NEW t, Nest(s, r), Popped(s, t)
  PROVE  WorldOK(t, s[Len(s)].home)
<1> DEFINE n == Len(s)
<1>1. n \in 1..n /\ n \in Nat /\ 1 \in 1..n /\ s # <<>>
  BY DEF Popped
<1>2. CASE t = <<>>
  <2>1. n = 1
    BY <1>1, <1>2, EmptyIff DEF Popped
  <2> QED
    BY <1>1, <1>2, <2>1 DEF Nest, WorldOK
<1>3. CASE t # <<>>
  <2>1. Len(t) = n - 1 /\ n - 1 \in 1..n /\ n - 1 \in 1..Len(t) /\ n - 1 < n
    BY <1>1, <1>3, EmptyIff DEF Popped
  <2>2. t[Len(t)] = s[n - 1]
    BY <2>1 DEF Popped
  <2>3. s[n - 1].at # "enter" /\ s[n].home = HomeIn(s[n - 1])
    BY <1>1, <2>1 DEF Nest
  <2>4. Kind[s[n - 1].rule] # "parallelfor" => s[n].home = s[n - 1].home
    BY <2>3 DEF HomeIn
  <2> QED
    BY <1>3, <2>2, <2>3, <2>4 DEF WorldOK
<1> QED
  BY <1>2, <1>3

\* The same calls are registered.
LEMMA ListedSame ==
  ASSUME NEW s, NEW t, NEW c, Listed(s, c),
         \A a \in 1..Len(s) : Registered(s[a]) =>
             a \in 1..Len(t) /\ Registered(t[a]) /\ t[a].rule = s[a].rule,
         \A a \in 1..Len(t) : Registered(t[a]) =>
             a \in 1..Len(s) /\ Registered(s[a]) /\ t[a].rule = s[a].rule
  PROVE  Listed(t, c)
<1>1. c \in Seq(Rule)
  BY DEF Listed
<1>2. \A j \in 1..Len(c) : \E a \in 1..Len(t) : Registered(t[a]) /\ t[a].rule = c[j]
  BY DEF Listed
<1>3. \A a \in 1..Len(t) : Registered(t[a]) => \E j \in 1..Len(c) : t[a].rule = c[j]
  BY DEF Listed
<1>4. ASSUME NEW j \in 1..Len(c), NEW k \in 1..Len(c), NEW a \in 1..Len(t),
             NEW b \in 1..Len(t), Registered(t[a]), t[a].rule = c[j],
             Registered(t[b]), t[b].rule = c[k]
      PROVE  a < b <=> j < k
  BY <1>4 DEF Listed
<1> QED
  BY ONLY <1>1, <1>2, <1>3, <1>4 DEF Listed

\* The call at n is registered, too.
LEMMA ListedMore ==
  ASSUME NEW s, NEW t, NEW c, Listed(s, c), NEW n \in 1..Len(t),
         Len(t) \in Nat, Registered(t[n]), t[n].rule \in Rule,
         \A a, b \in 1..Len(t) : t[a].rule = t[b].rule => a = b,
         \A a \in 1..Len(s) : Registered(s[a]) =>
             a \in 1..Len(t) /\ a # n /\ Registered(t[a]) /\ t[a].rule = s[a].rule,
         \A a \in 1..Len(t) : Registered(t[a]) /\ a # n =>
             a < n /\ a \in 1..Len(s) /\ Registered(s[a]) /\ t[a].rule = s[a].rule
  PROVE  Listed(t, Append(c, t[n].rule))
<1> DEFINE m == Len(c)
           d == Append(c, t[n].rule)
<1>1. /\ d \in Seq(Rule) /\ Len(d) = m + 1 /\ m \in Nat /\ d[m + 1] = t[n].rule
      /\ \A i \in 1..m : d[i] = c[i]
  <2>1. c \in Seq(Rule)
    BY DEF Listed
  <2> QED
    BY <2>1, OneMore
<1>2. \A i \in 1..(m + 1) : i \in 1..m \/ i = m + 1
  BY <1>1
<1> HIDE DEF d
<1>3. \A j \in 1..Len(c) : \E a \in 1..Len(t) :
          Registered(t[a]) /\ t[a].rule = c[j] /\ a # n
  <2> SUFFICES ASSUME NEW j \in 1..Len(c)
               PROVE  \E a \in 1..Len(t) : Registered(t[a]) /\ t[a].rule = c[j] /\ a # n
    OBVIOUS
  <2>1. PICK a \in 1..Len(s) : Registered(s[a]) /\ s[a].rule = c[j]
    BY DEF Listed
  <2>2. a \in 1..Len(t) /\ a # n /\ Registered(t[a]) /\ t[a].rule = c[j]
    BY <2>1
  <2> QED
    BY <2>2
<1>4. \A j \in 1..Len(d) : \E a \in 1..Len(t) : Registered(t[a]) /\ t[a].rule = d[j]
  BY <1>1, <1>2, <1>3
<1>5. \A a \in 1..Len(t) : Registered(t[a]) => \E j \in 1..Len(d) : t[a].rule = d[j]
  <2> SUFFICES ASSUME NEW a \in 1..Len(t), Registered(t[a])
               PROVE  \E j \in 1..Len(d) : t[a].rule = d[j]
    OBVIOUS
  <2>1. CASE a = n
    <3>1. m + 1 \in 1..Len(d)
      BY <1>1
    <3> QED
      BY <1>1, <2>1, <3>1
  <2>2. CASE a # n
    <3>1. PICK j \in 1..Len(c) : t[a].rule = c[j]
      BY <2>2 DEF Listed
    <3>2. j \in 1..Len(d)
      BY <1>1
    <3> QED
      BY <1>1, <3>1, <3>2
  <2> QED
    BY <2>1, <2>2
<1>6. ASSUME NEW j \in 1..Len(d), NEW k \in 1..Len(d), NEW a \in 1..Len(t),
             NEW b \in 1..Len(t), Registered(t[a]), t[a].rule = d[j],
             Registered(t[b]), t[b].rule = d[k]
      PROVE  a < b <=> j < k
  <2>1. \A i \in 1..Len(d) : \A e \in 1..Len(t) :
           t[e].rule = d[i] => (i = m + 1 <=> e = n)
    <3> SUFFICES ASSUME NEW i \in 1..Len(d), NEW e \in 1..Len(t), t[e].rule = d[i]
                 PROVE  i = m + 1 <=> e = n
      OBVIOUS
    <3>1. CASE i = m + 1
      BY <1>1, <3>1
    <3>2. CASE i \in 1..m
      <4>1. PICK x \in 1..Len(t) : t[x].rule = c[i] /\ x # n
        BY <1>3, <3>2
      <4>2. t[x].rule = t[e].rule
        BY <1>1, <3>2, <4>1
      <4>3. x = e
        BY <4>2
      <4>4. i # m + 1
        BY <1>1, <3>2
      <4> QED
        BY <4>1, <4>3, <4>4
    <3> QED
      BY <1>1, <1>2, <3>1, <3>2
  <2>2. CASE j = m + 1 /\ k = m + 1
    <3>1. a = n /\ b = n
      BY <2>1, <2>2, <1>6
    <3> QED
      BY <1>1, <2>2, <3>1
  <2>3. CASE j = m + 1 /\ k \in 1..m
    <3>1. a = n /\ b # n
      <4>1. k # m + 1
        BY <1>1, <2>3
      <4> QED
        BY <2>1, <2>3, <1>6, <4>1
    <3>2. b < n
      BY <3>1, <1>6
    <3> QED
      BY ONLY <1>1, <2>3, <3>1, <3>2, n \in 1..Len(t), b \in 1..Len(t), Len(t) \in Nat
  <2>4. CASE j \in 1..m /\ k = m + 1
    <3>1. a # n /\ b = n
      <4>1. j # m + 1
        BY <1>1, <2>4
      <4> QED
        BY <2>1, <2>4, <1>6, <4>1
    <3>2. a < n
      BY <3>1, <1>6
    <3> QED
      BY ONLY <1>1, <2>4, <3>1, <3>2, n \in 1..Len(t), a \in 1..Len(t), Len(t) \in Nat
  <2>5. CASE j \in 1..m /\ k \in 1..m
    <3>1. a # n /\ b # n
      <4>1. j # m + 1 /\ k # m + 1
        BY <1>1, <2>5
      <4> QED
        BY <2>1, <1>6, <4>1
    <3>2. /\ a \in 1..Len(s) /\ Registered(s[a]) /\ s[a].rule = c[j]
          /\ b \in 1..Len(s) /\ Registered(s[b]) /\ s[b].rule = c[k]
      BY <1>1, <1>6, <2>5, <3>1
    <3> QED
      BY <2>5, <3>2 DEF Listed
  <2> QED
    BY <1>1, <1>2, <2>2, <2>3, <2>4, <2>5
<1>7. Listed(t, d)
  BY <1>1, <1>4, <1>5, <1>6 DEF Listed
<1> QED
  BY <1>7 DEF d

\* The call at n, the last one that was registered, is it no more.
LEMMA ListedLess ==
  ASSUME NEW s, NEW t, NEW c, Listed(s, c), NEW n \in 1..Len(s),
         Len(s) \in Nat, Registered(s[n]),
         \A a \in 1..Len(t) : Registered(t[a]) =>
             a \in 1..Len(s) /\ a # n /\ Registered(s[a]) /\ t[a].rule = s[a].rule,
         \A a \in 1..Len(s) : Registered(s[a]) /\ a # n =>
             a < n /\ a \in 1..Len(t) /\ Registered(t[a]) /\ t[a].rule = s[a].rule
  PROVE  /\ c # <<>> /\ Len(c) \in 1..Len(c) /\ c[Len(c)] = s[n].rule
         /\ \A j \in 1..Len(c) : c[j] = s[n].rule => j = Len(c)
         /\ Listed(t, Front(c))
<1> DEFINE m == Len(c)
           d == Front(c)
<1>1. c \in Seq(Rule) /\ m \in Nat
  BY DEF Listed
<1>2. \A j \in 1..m : c[j] = s[n].rule => j = m
  <2> SUFFICES ASSUME NEW j \in 1..m, c[j] = s[n].rule, j # m PROVE FALSE
    OBVIOUS
  <2>1. j + 1 \in 1..m /\ j < j + 1
    BY <1>1
  <2>2. PICK b \in 1..Len(s) : Registered(s[b]) /\ s[b].rule = c[j + 1]
    BY <2>1 DEF Listed
  <2>3. n < b
    BY <2>1, <2>2 DEF Listed
  <2>4. b # n
    BY ONLY <2>3, n \in 1..Len(s), Len(s) \in Nat
  <2>5. b < n
    BY <2>2, <2>4
  <2> QED
    BY ONLY <2>3, <2>5, n \in 1..Len(s), b \in 1..Len(s), Len(s) \in Nat
<1>3. PICK i \in 1..m : c[i] = s[n].rule
  BY DEF Listed
<1>4. i = m /\ m \in 1..m
  BY <1>2, <1>3
<1>5. c # <<>> /\ c[m] = s[n].rule
  BY <1>1, <1>3, <1>4, EmptyIff
<1>6. d \in Seq(Rule) /\ Len(d) = m - 1 /\ \A j \in 1..(m - 1) : d[j] = c[j]
  BY <1>1, <1>5, OneLess
<1> HIDE DEF d
<1>7. \A j \in 1..Len(d) : j \in 1..m /\ j # m /\ d[j] = c[j]
  BY <1>1, <1>6
<1>8. \A j \in 1..m : j # m => j \in 1..Len(d)
  BY <1>1, <1>6
<1>9. \A j \in 1..Len(d) : \E a \in 1..Len(t) : Registered(t[a]) /\ t[a].rule = d[j]
  <2> SUFFICES ASSUME NEW j \in 1..Len(d)
               PROVE  \E a \in 1..Len(t) : Registered(t[a]) /\ t[a].rule = d[j]
    OBVIOUS
  <2>1. PICK a \in 1..Len(s) : Registered(s[a]) /\ s[a].rule = c[j]
    BY <1>7 DEF Listed
  <2>2. a # n
    BY <1>2, <1>7, <2>1
  <2> QED
    BY <1>7, <2>1, <2>2
<1>10. \A a \in 1..Len(t) : Registered(t[a]) => \E j \in 1..Len(d) : t[a].rule = d[j]
  <2> SUFFICES ASSUME NEW a \in 1..Len(t), Registered(t[a])
               PROVE  \E j \in 1..Len(d) : t[a].rule = d[j]
    OBVIOUS
  <2>1. a \in 1..Len(s) /\ a # n /\ Registered(s[a]) /\ t[a].rule = s[a].rule
    OBVIOUS
  <2>2. PICK j \in 1..m : s[a].rule = c[j]
    BY <2>1 DEF Listed
  <2>3. j # m
    <3>1. a < n
      BY <2>1
    <3>2. j < m
      BY <1>4, <1>5, <2>1, <2>2, <3>1 DEF Listed
    <3> QED
      BY <1>1, <3>2
  <2> QED
    BY <1>7, <1>8, <2>1, <2>2, <2>3
<1>11. ASSUME NEW j \in 1..Len(d), NEW k \in 1..Len(d), NEW a \in 1..Len(t),
              NEW b \in 1..Len(t), Registered(t[a]), t[a].rule = d[j],
              Registered(t[b]), t[b].rule = d[k]
       PROVE  a < b <=> j < k
  <2>1. /\ a \in 1..Len(s) /\ Registered(s[a]) /\ s[a].rule = c[j] /\ j \in 1..m
        /\ b \in 1..Len(s) /\ Registered(s[b]) /\ s[b].rule = c[k] /\ k \in 1..m
    BY <1>7, <1>11
  <2>2. Listed(s, c)
    OBVIOUS
  <2> QED
    BY ONLY <2>1, <2>2 DEF Listed
<1>12. Listed(t, d)
  BY <1>6, <1>9, <1>10, <1>11 DEF Listed
<1> QED
  BY <1>2, <1>4, <1>5, <1>12 DEF d

-----------------------------------------------------------------------------
(* What a step does to the game *)

LEMMA SuspendedSame ==
  ASSUME NEW s, NEW t, NEW l, SuspendedOK(s, l),
         \A a \in 1..Len(s) : s[a].at = "turn" => a \in 1..Len(t) /\ t[a] = s[a],
         \A a \in 1..Len(t) : t[a].at = "turn" => a \in 1..Len(s) /\ t[a] = s[a]
  PROVE  SuspendedOK(t, l)
<1>1. l \in [ParallelKeys -> Seq(Rule)]
  BY DEF SuspendedOK
<1>2. \A k \in ParallelKeys : l[k] # <<>> =>
          \E a \in 1..Len(t) : t[a].at = "turn" /\ k = Place(t[a])
  <2> SUFFICES ASSUME NEW k \in ParallelKeys, l[k] # <<>>
               PROVE  \E a \in 1..Len(t) : t[a].at = "turn" /\ k = Place(t[a])
    OBVIOUS
  <2>1. PICK a \in 1..Len(s) : s[a].at = "turn" /\ k = Place(s[a])
    BY DEF SuspendedOK
  <2>2. a \in 1..Len(t) /\ t[a] = s[a]
    BY <2>1
  <2> QED
    BY <2>1, <2>2
<1>3. \A a \in 1..Len(t) : t[a].at = "turn" =>
          \A m \in 1..Len(l[Place(t[a])]) : Within(l[Place(t[a])][m], t[a].rule)
  <2> SUFFICES ASSUME NEW a \in 1..Len(t), t[a].at = "turn"
               PROVE  \A m \in 1..Len(l[Place(t[a])]) : Within(l[Place(t[a])][m], t[a].rule)
    OBVIOUS
  <2>1. a \in 1..Len(s) /\ t[a] = s[a]
    OBVIOUS
  <2> QED
    BY <2>1 DEF SuspendedOK
<1> QED
  BY <1>1, <1>2, <1>3 DEF SuspendedOK

\* A call that is not in its branches owns its own state alone.
LEMMA OwnsOne ==
  ASSUME NEW f, NEW l, NEW k, DOMAIN f.todo = {}, f.at # "turn"
  PROVE  OwnedBy(f, l, k) <=> k = Place(f)
  BY DEF OwnedBy

State(r, s, w, c, l, st) ==
    /\ Nest(s, r)
    /\ WorldOK(s, w) /\ w \in World
    /\ Listed(s, c)
    /\ SuspendedOK(s, l)
    /\ StatesOwned(s, l, st)
    /\ StatesHeld(s, st)

NoState == {"step", "loop", "cases"}

LEMMA PlainChange ==
  ASSUME NEW r \in Rule, NEW s, NEW t, NEW f, NEW g, NEW w, NEW v, NEW c, NEW d,
         NEW l, NEW st, NEW st2,
         State(r, s, w, c, l, st), Changed(s, t, g), f = s[Len(s)],
         CallOK(g, r), g.rule = f.rule, g.home = f.home,
         f.at # "turn", g.at # "turn", DOMAIN f.todo = {},
         WorldOK(t, v), v \in World, Listed(t, d),
         st2 \in [DOMAIN st2 -> Nat \ {0}],
         DOMAIN st \subseteq DOMAIN st2, DOMAIN st2 \subseteq DOMAIN st \cup {Place(f)},
         Place(f) \in DOMAIN st2 => Kind[f.rule] \notin NoState,
         Registered(g) => Place(f) \in DOMAIN st2
  PROVE  State(r, t, v, d, l, st2)
<1> DEFINE n == Len(s)
<1>1. n \in 1..n /\ n \in Nat /\ Len(t) = n /\ t[n] = g
  BY DEF Changed
<1>2. \A a \in 1..n : a # n => t[a] = s[a]
  BY DEF Changed
<1>3. Nest(t, r)
  BY NestChanged DEF State
<1>4. SuspendedOK(t, l)
  <2>1. \A a \in 1..n : s[a].at = "turn" \/ t[a].at = "turn" => t[a] = s[a]
    BY <1>1, <1>2
  <2> QED
    BY <1>1, <2>1, SuspendedSame DEF State
<1>5. Place(g) = Place(f)
  BY DEF Place
<1>6. \A k : Owned(s, l, k) => Owned(t, l, k)
  <2> SUFFICES ASSUME NEW k, NEW a \in 1..n, OwnedBy(s[a], l, k)
               PROVE  \E b \in 1..n : OwnedBy(t[b], l, k)
    BY <1>1 DEF Owned
  <2>1. CASE a = n
    <3>1. k = Place(g)
      BY <1>5, <2>1, OwnsOne
    <3>2. OwnedBy(g, l, k)
      BY <3>1 DEF OwnedBy
    <3> QED
      BY <1>1, <3>2
  <2>2. CASE a # n
    BY <1>2, <2>2
  <2> QED
    BY <2>1, <2>2
<1>7. Owned(t, l, Place(f))
  BY <1>1, <1>5 DEF Owned, OwnedBy
<1>8. StatesOwned(t, l, st2)
  <2>1. \A k \in DOMAIN st : Kind[k[1]] \notin NoState /\ Owned(s, l, k)
    BY DEF State, StatesOwned, NoState
  <2>2. Place(f)[1] = f.rule
    BY DEF Place
  <2>3. \A k \in DOMAIN st2 : Kind[k[1]] \notin NoState /\ Owned(t, l, k)
    BY <1>6, <1>7, <2>1, <2>2
  <2> QED
    BY <2>3 DEF StatesOwned, NoState
<1>9. StatesHeld(t, st2)
  <2> SUFFICES ASSUME NEW a \in 1..n, Registered(t[a]) PROVE Place(t[a]) \in DOMAIN st2
    BY <1>1 DEF StatesHeld
  <2>1. CASE a = n
    BY <1>1, <1>5, <2>1
  <2>2. CASE a # n
    BY <1>2, <2>2 DEF State, StatesHeld
  <2> QED
    BY <2>1, <2>2
<1> QED
  BY <1>3, <1>4, <1>8, <1>9 DEF State

LEMMA PlainPush ==
  ASSUME NEW r \in Rule, NEW s, NEW t, NEW f, NEW g \in Calls, NEW w, NEW c,
         NEW l, NEW st,
         State(r, s, w, c, l, st), Pushed(s, t, g), f = s[Len(s)],
         Within(g.rule, f.rule), f.at # "enter", Forks(f) => f.at = "turn",
         g.home = HomeIn(f), g.home \in World,
         g.at = "enter", DOMAIN g.todo = {}, g.round = {}
  PROVE  State(r, t, g.home, c, l, st)
<1> DEFINE n == Len(s)
<1>1. n \in 1..n /\ n \in Nat /\ Len(t) = n + 1 /\ t[n + 1] = g
  BY DEF Pushed
<1>2. \A a \in 1..n : a \in 1..Len(t) /\ t[a] = s[a]
  BY DEF Pushed
<1>3. \A a \in 1..Len(t) : a = n + 1 \/ a \in 1..n
  BY <1>1
<1>4. ~Registered(g)
  BY DEF Registered
<1>5. Nest(t, r)
  BY NestPushed DEF State
<1>6. WorldOK(t, g.home)
  <2>1. t # <<>>
    BY <1>1, EmptyIff DEF Pushed
  <2> QED
    BY <1>1, <2>1 DEF WorldOK
<1>7. Listed(t, c)
  <2>1. \A a \in 1..Len(t) : Registered(t[a]) => a \in 1..n
    BY <1>1, <1>3, <1>4
  <2>2. Listed(s, c)
    BY DEF State
  <2> QED
    BY <1>2, <2>1, <2>2, ListedSame
<1>8. SuspendedOK(t, l)
  <2>1. \A a \in 1..Len(t) : t[a].at = "turn" => a \in 1..n
    BY <1>1, <1>3
  <2>2. SuspendedOK(s, l)
    BY DEF State
  <2> QED
    BY <1>2, <2>1, <2>2, SuspendedSame
<1>9. StatesOwned(t, l, st)
  <2>1. \A k : Owned(s, l, k) => Owned(t, l, k)
    BY <1>2 DEF Owned
  <2> QED
    BY <2>1 DEF State, StatesOwned
<1>10. StatesHeld(t, st)
  <2> SUFFICES ASSUME NEW a \in 1..Len(t), Registered(t[a]) PROVE Place(t[a]) \in DOMAIN st
    BY DEF StatesHeld
  <2>1. a \in 1..n
    BY <1>1, <1>3, <1>4
  <2> QED
    BY <1>2, <2>1 DEF State, StatesHeld
<1> QED
  BY <1>5, <1>6, <1>7, <1>8, <1>9, <1>10 DEF State

LEMMA PlainPop ==
  ASSUME NEW r \in Rule, NEW s, NEW t, NEW f, NEW w, NEW c, NEW l, NEW st, NEW st2,
         State(r, s, w, c, l, st), Popped(s, t), f = s[Len(s)],
         ~Registered(f), f.at \notin {"round", "turn"}, f.home \in World,
         st2 \in [DOMAIN st2 -> Nat \ {0}], DOMAIN st2 = DOMAIN st \ {Place(f)}
  PROVE  State(r, t, f.home, c, l, st2)
<1> DEFINE n == Len(s)
<1>1. n \in 1..n /\ n \in Nat /\ Len(t) = n - 1
  BY DEF Popped
<1>2. \A a \in 1..Len(t) : a \in 1..n /\ a # n /\ t[a] = s[a]
  BY DEF Popped
<1>3. \A a \in 1..n : a # n => a \in 1..Len(t)
  BY <1>1
<1>4. Nest(t, r)
  BY NestPopped DEF State
<1>5. WorldOK(t, f.home)
  BY WorldPopped DEF State
<1>6. Listed(t, c)
  <2>1. Listed(s, c)
    BY DEF State
  <2>2. \A a \in 1..n : Registered(s[a]) => a # n
    OBVIOUS
  <2> QED
    BY <1>2, <1>3, <2>1, <2>2, ListedSame
<1>7. SuspendedOK(t, l)
  <2>1. SuspendedOK(s, l)
    BY DEF State
  <2>2. \A a \in 1..n : s[a].at = "turn" => a # n
    OBVIOUS
  <2> QED
    BY <1>2, <1>3, <2>1, <2>2, SuspendedSame
<1>8. DOMAIN f.todo = {}
  BY <1>1 DEF State, Nest, CallOK
<1>9. StatesOwned(t, l, st2)
  <2>1. ASSUME NEW k \in DOMAIN st2 PROVE Kind[k[1]] \notin NoState /\ Owned(t, l, k)
    <3>1. Kind[k[1]] \notin NoState /\ Owned(s, l, k) /\ k # Place(f)
      BY DEF State, StatesOwned, NoState
    <3>2. PICK a \in 1..n : OwnedBy(s[a], l, k)
      BY <3>1 DEF Owned
    <3>3. a # n
      BY <1>8, <3>1, <3>2, OwnsOne
    <3> QED
      BY <1>2, <1>3, <3>1, <3>2, <3>3 DEF Owned
  <2> QED
    BY <2>1 DEF StatesOwned, NoState
<1>10. StatesHeld(t, st2)
  <2> SUFFICES ASSUME NEW a \in 1..Len(t), Registered(t[a]) PROVE Place(t[a]) \in DOMAIN st2
    BY DEF StatesHeld
  <2>1. Place(s[a]) \in DOMAIN st
    BY <1>2 DEF State, StatesHeld
  <2>2. s[a].rule # f.rule
    BY <1>1, <1>2, OneCall DEF State
  <2>3. Place(s[a]) # Place(f)
    BY <2>2 DEF Place
  <2> QED
    BY <1>2, <2>1, <2>3
<1> QED
  BY <1>4, <1>5, <1>6, <1>7, <1>9, <1>10 DEF State

-----------------------------------------------------------------------------
(* Plain steps: the innermost call goes on, calls another rule or returns *)

LEMMA InvIsState == \A r : Inv(r) <=>
    State(r, stack, world, callbacks, lastRun, ruleStates) /\ ~crashed
  BY DEF Inv, State

LEMMA TopCall ==
  ASSUME NEW r \in Roots, NEW s, Nest(s, r), s # <<>>
  PROVE  /\ r \in Rule /\ Kind[r] = "list" /\ s \in Seq(Calls)
         /\ s[Len(s)] \in Calls /\ Len(s) \in 1..Len(s) /\ Last(s) = s[Len(s)]
         /\ s[Len(s)].rule \in Rule /\ s[Len(s)].home \in World
         /\ s[Len(s)].at \in {"enter", "check", "timed", "pad", "round", "turn"}
         /\ CallOK(s[Len(s)], r)
<1>1. s \in Seq(Calls)
  BY DEF Nest
<1>2. Len(s) \in 1..Len(s) /\ s[Len(s)] \in Calls
  BY <1>1
<1>3. /\ s[Len(s)].rule \in Rule /\ s[Len(s)].home \in World
      /\ s[Len(s)].at \in {"enter", "check", "timed", "pad", "round", "turn"}
  BY <1>2 DEF Calls
<1> QED
  BY <1>1, <1>2, <1>3, RulesAssumption DEF Nest, Last

LEMMA Moved ==
  ASSUME NEW s \in Seq(Calls), s # <<>>, NEW p \in {"enter", "check", "timed", "pad"}
  PROVE  \E g \in Calls :
            /\ Changed(s, [s EXCEPT ![Len(s)].at = p], g)
            /\ g.rule = s[Len(s)].rule /\ g.at = p /\ g.home = s[Len(s)].home
            /\ g.todo = s[Len(s)].todo /\ g.round = s[Len(s)].round
            /\ g.turn = s[Len(s)].turn
<1> DEFINE f == s[Len(s)]
           g == [f EXCEPT !.at = p]
<1>1. f \in Calls
  OBVIOUS
<1> HIDE DEF f
<1>2. /\ g \in Calls /\ g.rule = f.rule /\ g.at = p /\ g.home = f.home
      /\ g.todo = f.todo /\ g.round = f.round /\ g.turn = f.turn
  BY <1>1 DEF Calls
<1>3. [s EXCEPT ![Len(s)].at = p] = [s EXCEPT ![Len(s)] = g]
  BY DEF f
<1> HIDE DEF g
<1>4. Changed(s, [s EXCEPT ![Len(s)] = g], g)
  BY <1>2, ExceptChanges
<1> QED
  BY <1>2, <1>3, <1>4 DEF f

\* The call on top, not a parallel rule, goes on at p.
LEMMA GoesOn ==
  ASSUME NEW r \in Roots, Inv(r), stack # <<>>, NEW st2,
         NEW p \in {"enter", "check", "timed", "pad"}, NEW d,
         ~Forks(Top), p = "timed" => Kind[Top.rule] \in Timers,
         st2 \in [DOMAIN st2 -> Nat \ {0}],
         DOMAIN ruleStates \subseteq DOMAIN st2,
         DOMAIN st2 \subseteq DOMAIN ruleStates \cup {Held},
         Held \in DOMAIN st2 => Kind[Top.rule] \notin NoState,
         p = "timed" => Held \in DOMAIN st2,
         Listed([stack EXCEPT ![Len(stack)].at = p], d)
  PROVE  State(r, [stack EXCEPT ![Len(stack)].at = p], world, d, lastRun, st2)
<1> DEFINE f == stack[Len(stack)]
           t == [stack EXCEPT ![Len(stack)].at = p]
<1>1. State(r, stack, world, callbacks, lastRun, ruleStates)
  BY InvIsState
<1>2. /\ r \in Rule /\ stack \in Seq(Calls) /\ f \in Calls /\ f = Top /\ Held = Place(f)
      /\ f.rule \in Rule /\ f.home \in World /\ CallOK(f, r) /\ Len(stack) \in 1..Len(stack)
  BY <1>1, TopCall DEF State, Top, Held, Place
<1>3. PICK g \in Calls :
         /\ Changed(stack, t, g) /\ g.rule = f.rule /\ g.at = p /\ g.home = f.home
         /\ g.todo = f.todo /\ g.round = f.round /\ g.turn = f.turn
  BY <1>2, Moved
<1>4. f.at \notin {"round", "turn"} /\ DOMAIN f.todo = {}
  BY <1>2 DEF CallOK
<1>5. CallOK(g, r)
  BY <1>2, <1>3, <1>4 DEF CallOK
<1>6. world = f.home /\ world \in World
  BY <1>1, <1>2 DEF State, WorldOK, Forks, Parallel
<1>7. WorldOK(t, world)
  <2>1. t # <<>> /\ t[Len(t)] = g
    BY <1>3 DEF Changed
  <2> QED
    BY <1>3, <1>6, <2>1 DEF WorldOK
<1>8. Registered(g) => p = "timed"
  BY <1>2, <1>3 DEF Registered, Forks
<1> HIDE DEF t, f
<1>9. f = stack[Len(stack)] /\ g.at # "turn" /\ f.at # "turn" /\ Listed(t, d)
  BY <1>3, <1>4 DEF f, t
<1>10. /\ DOMAIN st2 \subseteq DOMAIN ruleStates \cup {Place(f)}
       /\ Place(f) \in DOMAIN st2 => Kind[f.rule] \notin NoState
       /\ Registered(g) => Place(f) \in DOMAIN st2
  BY <1>2, <1>8
<1>11. State(r, t, world, d, lastRun, st2)
  BY <1>1, <1>2, <1>3, <1>4, <1>5, <1>6, <1>7, <1>9, <1>10, PlainChange
<1> QED
  BY <1>11 DEF t

\* The same callbacks stay in the vector if the call is not registered.
LEMMA SameListed ==
  ASSUME NEW r \in Roots, Inv(r), stack # <<>>, NEW p \in {"enter", "check", "pad"},
         ~Registered(Top), ~Forks(Top)
  PROVE  Listed([stack EXCEPT ![Len(stack)].at = p], callbacks)
<1> DEFINE f == stack[Len(stack)]
           t == [stack EXCEPT ![Len(stack)].at = p]
           n == Len(stack)
<1>1. stack \in Seq(Calls) /\ f = Top /\ n \in 1..n /\ Nest(stack, r)
  BY TopCall DEF Inv, Top
<1>2. PICK g \in Calls : Changed(stack, t, g) /\ g.rule = f.rule /\ g.at = p
  <2>1. p \in {"enter", "check", "timed", "pad"}
    OBVIOUS
  <2> QED
    BY <1>1, <2>1, Moved
<1>3. ~Registered(g) /\ ~Registered(f)
  BY <1>1, <1>2 DEF Registered, Forks
<1>4. Len(t) = n /\ \A a \in 1..n : t[a] = IF a = n THEN g ELSE stack[a]
  BY <1>2 DEF Changed
<1>5. Listed(stack, callbacks)
  BY DEF Inv
<1> HIDE DEF t, f
<1>6. \A a \in 1..n : Registered(stack[a]) \/ Registered(t[a]) => t[a] = stack[a]
  BY <1>3, <1>4 DEF f
<1>7. Listed(t, callbacks)
  BY <1>4, <1>5, <1>6, ListedSame
<1> QED
  BY <1>7 DEF t

\* It goes on at p and calls q.
LEMMA CallsRule ==
  ASSUME NEW r \in Roots, stack # <<>>, NEW p \in {"check", "timed"},
         NEW d, NEW l, NEW st, NEW q, Nest(stack, r),
         State(r, [stack EXCEPT ![Len(stack)].at = p], world, d, l, st),
         ~Forks(Top), Within(q, Top.rule)
  PROVE  State(r, Append([stack EXCEPT ![Len(stack)].at = p], Frame(q, world)),
               world, d, l, st)
<1> DEFINE f == stack[Len(stack)]
           t == [stack EXCEPT ![Len(stack)].at = p]
           x == Frame(q, world)
<1>1. /\ r \in Rule /\ stack \in Seq(Calls) /\ f \in Calls /\ f = Top /\ f.rule \in Rule
  BY TopCall DEF Top
<1>2. PICK g \in Calls : Changed(stack, t, g) /\ g.rule = f.rule /\ g.at = p
  <2>1. p \in {"enter", "check", "timed", "pad"}
    OBVIOUS
  <2> QED
    BY <1>1, <2>1, Moved
<1>3. t \in Seq(Calls) /\ t # <<>> /\ t[Len(t)] = g
  BY <1>2 DEF Changed
<1>4. q \in Rule
  BY <1>1, Inner DEF Within
<1>5. world \in World
  BY DEF State
<1>6. /\ x \in Calls /\ x.rule = q /\ x.home = world
      /\ x.at = "enter" /\ DOMAIN x.todo = {} /\ x.round = {}
  BY <1>4, <1>5, NewCall
<1> HIDE DEF t, f, x
<1>7. ~Forks(g)
  BY <1>1, <1>2 DEF Forks
<1>8. HomeIn(g) = g.home
  BY <1>7 DEF HomeIn, Forks, Parallel
<1>9. g.home = world
  BY <1>3, <1>7 DEF State, WorldOK, t, Forks, Parallel
<1>10. Pushed(t, Append(t, x), x)
  BY <1>3, <1>6, AppendPushes
<1>11. Within(x.rule, g.rule) /\ g.at # "enter" /\ x.home = HomeIn(g) /\ g = t[Len(t)]
  BY <1>1, <1>2, <1>3, <1>6, <1>8, <1>9
<1>12. State(r, t, world, d, l, st)
  BY DEF t
<1>13. State(r, Append(t, x), x.home, d, l, st)
  BY <1>1, <1>5, <1>6, <1>7, <1>10, <1>11, <1>12, PlainPush
<1> QED
  BY <1>6, <1>13 DEF t, x

\* It returns, and its state is deleted.
LEMMA Returns ==
  ASSUME NEW r \in Roots, Inv(r), stack # <<>>, NEW st2,
         ~Forks(Top), ~Registered(Top),
         st2 \in [DOMAIN st2 -> Nat \ {0}],
         DOMAIN st2 = DOMAIN ruleStates \ {Held}
  PROVE  State(r, Front(stack), world, callbacks, lastRun, st2)
<1> DEFINE f == stack[Len(stack)]
<1>1. State(r, stack, world, callbacks, lastRun, ruleStates)
  BY InvIsState
<1>2. /\ r \in Rule /\ stack \in Seq(Calls) /\ f = Top /\ Held = Place(f)
      /\ f.home \in World /\ CallOK(f, r)
  BY <1>1, TopCall DEF State, Top, Held, Place
<1>3. f.at \notin {"round", "turn"}
  BY <1>2 DEF CallOK
<1>4. world = f.home
  BY <1>1, <1>2 DEF State, WorldOK, Forks, Parallel
<1>5. Popped(stack, Front(stack))
  BY <1>2, FrontPops
<1>6. State(r, Front(stack), f.home, callbacks, lastRun, st2)
  BY <1>1, <1>2, <1>3, <1>5, PlainPop
<1> QED
  BY <1>4, <1>6

\* What Create, Delete and StepOn make of the states.
LEMMA Positions ==
  ASSUME NEW r \in Roots, Inv(r)
  PROVE  /\ ruleStates \in [DOMAIN ruleStates -> Nat \ {0}]
         /\ \A k : Position(k) \in Nat \ {0}
         /\ \A k \in DOMAIN ruleStates : Kind[k[1]] \notin NoState
  BY DEF Inv, StatesOwned, Position, NoState

LEMMA Created ==
  ASSUME NEW r \in Roots, Inv(r), Create
  PROVE  /\ ruleStates' \in [DOMAIN ruleStates' -> Nat \ {0}]
         /\ DOMAIN ruleStates' = DOMAIN ruleStates \cup {Held}
  BY Positions DEF Create

LEMMA Deleted ==
  ASSUME NEW r \in Roots, Inv(r), NEW k, Delete(k)
  PROVE  /\ ruleStates' \in [DOMAIN ruleStates' -> Nat \ {0}]
         /\ DOMAIN ruleStates' = DOMAIN ruleStates \ {k}
  BY Positions DEF Delete

LEMMA SteppedOn ==
  ASSUME NEW r \in Roots, Inv(r), StepOn
  PROVE  /\ ruleStates' \in [DOMAIN ruleStates' -> Nat \ {0}]
         /\ DOMAIN ruleStates' = DOMAIN ruleStates
<1>1. ruleStates \in [DOMAIN ruleStates -> Nat \ {0}]
  BY Positions
<1>2. \A k \in DOMAIN ruleStates : ruleStates[k] + 1 \in Nat \ {0}
  BY <1>1
<1> QED
  BY <1>1, <1>2 DEF StepOn

\* The key of the rule on top is the one of its state, unless it is a
\* parallelfor.
LEMMA KeyHeld ==
  ASSUME NEW r \in Roots, Inv(r), stack # <<>>, ~Forks(Top) \/ Top.at = "enter"
  PROVE  /\ Key(Top.rule) = Held /\ world = Top.home /\ Top.rule \in Rule
         /\ CallOK(Top, r) /\ Top \in Calls /\ Held = Place(Top)
<1>1. /\ Top = stack[Len(stack)] /\ Top.rule \in Rule /\ Top \in Calls /\ CallOK(Top, r)
  BY TopCall DEF Inv, Top
<1>2. world = Top.home
  BY <1>1 DEF Inv, WorldOK, Forks, Parallel
<1> QED
  BY <1>1, <1>2 DEF Key, Held, Place

LEMMA IterateOK ==
  ASSUME NEW r \in Roots, Inv(r), Iterate
  PROVE  Inv(r)'
<1>1. /\ stack # <<>> /\ Top.at = "enter" /\ Kind[Top.rule] \in {"list", "foreach"}
      /\ ~crashed /\ Position(Held) <= Count(Top.rule) /\ Create
      /\ stack' = Append([stack EXCEPT ![Len(stack)].at = "check"],
                         Frame(Child(Top.rule, Position(Held)), world))
      /\ UNCHANGED <<callbacks, world, lastRun, crashed>>
  BY DEF Iterate, Running, Call
<1>2. ~Forks(Top) /\ ~Registered(Top) /\ Kind[Top.rule] \notin NoState
  BY <1>1 DEF Forks, Registered, Parallel, Timers, NoState
<1>3. Top.rule \in Rule
  BY <1>1, <1>2, KeyHeld
<1>4. Within(Child(Top.rule, Position(Held)), Top.rule)
  <2>1. CASE Kind[Top.rule] = "list"
    <3>1. Position(Held) \in 1..Len(Body[Top.rule])
      <4>1. Body[Top.rule] \in Seq(Rule)
        BY <1>3, RulesAssumption
      <4>2. Position(Held) \in Nat \ {0} /\ Position(Held) <= Len(Body[Top.rule])
        BY <1>1, <2>1, Positions DEF Count
      <4> QED
        BY <4>1, <4>2
    <3> QED
      BY <1>3, <2>1, <3>1, ChildWithin DEF Child
  <2>2. CASE Kind[Top.rule] = "foreach"
    <3>1. 1 \in 1..Len(Body[Top.rule])
      BY <1>3, <2>2, RulesAssumption
    <3> QED
      BY <1>3, <2>2, <3>1, ChildWithin DEF Child
  <2> QED
    BY <1>1, <2>1, <2>2
<1>5. State(r, [stack EXCEPT ![Len(stack)].at = "check"], world, callbacks, lastRun,
            ruleStates')
  BY <1>1, <1>2, Created, SameListed, GoesOn
<1>6. Nest(stack, r)
  BY DEF Inv
<1>7. State(r, stack', world, callbacks, lastRun, ruleStates')
  BY <1>1, <1>2, <1>4, <1>5, <1>6, CallsRule
<1> QED
  BY <1>1, <1>7 DEF Inv, State

LEMMA EndIterateOK ==
  ASSUME NEW r \in Roots, Inv(r), EndIterate
  PROVE  Inv(r)'
<1>1. /\ stack # <<>> /\ Top.at = "enter" /\ Kind[Top.rule] \in {"list", "foreach"}
      /\ ~crashed /\ Delete(Key(Top.rule)) /\ stack' = Front(stack)
      /\ UNCHANGED <<callbacks, world, lastRun, crashed>>
  BY DEF EndIterate, Running, Return
<1>2. ~Forks(Top) /\ ~Registered(Top)
  BY <1>1 DEF Forks, Registered, Parallel, Timers
<1>3. Key(Top.rule) = Held
  BY <1>1, <1>2, KeyHeld
<1>4. State(r, stack', world, callbacks, lastRun, ruleStates')
  BY <1>1, <1>2, <1>3, Deleted, Returns
<1> QED
  BY <1>1, <1>4 DEF Inv, State

\* A rule of these kinds has no state.
LEMMA Stateless ==
  ASSUME NEW r \in Roots, Inv(r), Kind[Top.rule] \in NoState
  PROVE  /\ Held \notin DOMAIN ruleStates
         /\ ruleStates \in [DOMAIN ruleStates -> Nat \ {0}]
         /\ DOMAIN ruleStates = DOMAIN ruleStates \ {Held}
<1>1. Held[1] = Top.rule
  BY DEF Held
<1>2. Held \notin DOMAIN ruleStates
  BY <1>1, Positions
<1> QED
  BY <1>2, Positions

LEMMA LoopAgainOK ==
  ASSUME NEW r \in Roots, Inv(r), LoopAgain
  PROVE  Inv(r)'
<1>1. /\ stack # <<>> /\ Top.at = "enter" /\ Kind[Top.rule] = "loop" /\ ~crashed
      /\ stack' = Append([stack EXCEPT ![Len(stack)].at = "check"],
                         Frame(Body[Top.rule][1], world))
      /\ UNCHANGED <<callbacks, world, ruleStates, lastRun, crashed>>
  BY DEF LoopAgain, Running, Call
<1>2. ~Forks(Top) /\ ~Registered(Top) /\ Kind[Top.rule] \in NoState
  BY <1>1 DEF Forks, Registered, Parallel, Timers, NoState
<1>3. Top.rule \in Rule
  BY <1>1, <1>2, KeyHeld
<1>4. Within(Body[Top.rule][1], Top.rule)
  <2>1. 1 \in 1..Len(Body[Top.rule])
    BY <1>1, <1>3, RulesAssumption
  <2> QED
    BY <1>3, <2>1, ChildWithin
<1>5. State(r, [stack EXCEPT ![Len(stack)].at = "check"], world, callbacks, lastRun,
            ruleStates)
  <2>1. Listed([stack EXCEPT ![Len(stack)].at = "check"], callbacks)
    BY <1>1, <1>2, SameListed
  <2> QED
    BY <1>1, <1>2, <2>1, Stateless, GoesOn
<1>6. Nest(stack, r)
  BY DEF Inv
<1>7. State(r, stack', world, callbacks, lastRun, ruleStates)
  BY <1>1, <1>2, <1>4, <1>5, <1>6, CallsRule
<1> QED
  BY <1>1, <1>7 DEF Inv, State

\* A rule without a state returns.
LEMMA ReturnsPlainly ==
  ASSUME NEW r \in Roots, Inv(r), stack # <<>>, Kind[Top.rule] \in NoState
  PROVE  State(r, Front(stack), world, callbacks, lastRun, ruleStates)
<1>1. ~Forks(Top) /\ ~Registered(Top)
  BY DEF Forks, Registered, Parallel, Timers, NoState
<1> QED
  BY <1>1, Stateless, Returns

LEMMA LoopEndOK ==
  ASSUME NEW r \in Roots, Inv(r), LoopEnd
  PROVE  Inv(r)'
<1>1. /\ stack # <<>> /\ Kind[Top.rule] \in NoState /\ stack' = Front(stack)
      /\ UNCHANGED <<callbacks, world, ruleStates, lastRun, crashed>>
  BY DEF LoopEnd, Running, Return, NoState
<1>2. State(r, stack', world, callbacks, lastRun, ruleStates)
  BY <1>1, ReturnsPlainly
<1> QED
  BY <1>1, <1>2 DEF Inv, State

LEMMA PerformOK ==
  ASSUME NEW r \in Roots, Inv(r), Perform
  PROVE  Inv(r)'
<1>1. /\ stack # <<>> /\ Kind[Top.rule] \in NoState /\ stack' = Front(stack)
      /\ UNCHANGED <<callbacks, world, ruleStates, lastRun, crashed>>
  BY DEF Perform, Running, Return, NoState
<1>2. State(r, stack', world, callbacks, lastRun, ruleStates)
  BY <1>1, ReturnsPlainly
<1> QED
  BY <1>1, <1>2 DEF Inv, State

LEMMA ChooseCaseOK ==
  ASSUME NEW r \in Roots, Inv(r), ChooseCase
  PROVE  Inv(r)'
<1>1. /\ stack # <<>> /\ Kind[Top.rule] = "cases"
      /\ UNCHANGED <<callbacks, world, ruleStates, lastRun, crashed>>
      /\ \/ stack' = Front(stack)
         \/ \E i \in 1..Len(Body[Top.rule]) :
               stack' = Append(Front(stack), Frame(Body[Top.rule][i], world))
  BY DEF ChooseCase, Running, Return
<1>2. State(r, Front(stack), world, callbacks, lastRun, ruleStates)
  BY <1>1, ReturnsPlainly DEF NoState
<1>3. CASE stack' = Front(stack)
  BY <1>1, <1>2, <1>3 DEF Inv, State
<1>4. ASSUME NEW i \in 1..Len(Body[Top.rule]),
             stack' = Append(Front(stack), Frame(Body[Top.rule][i], world))
      PROVE  Inv(r)'
  <2> DEFINE n == Len(stack)
             f == stack[n]
             t == Front(stack)
             e == stack[n - 1]
             x == Frame(Body[Top.rule][i], world)
  <2>1. /\ Nest(stack, r) /\ stack \in Seq(Calls) /\ r \in Rule /\ Kind[r] = "list"
        /\ f = Top /\ f.rule \in Rule /\ n \in 1..n
    BY <1>1, TopCall DEF Inv, Top
  <2>2. ~Forks(Top) /\ world = f.home /\ world \in World
    BY <1>1, <2>1, KeyHeld DEF Forks, Parallel, Inv
  <2>3. n # 1
    BY <1>1, <2>1 DEF Nest
  <2>4. n \in Nat /\ n - 1 \in 1..n /\ n - 1 < n
    <3>1. n \in Nat
      BY <2>1
    <3> HIDE DEF n
    <3> QED
      BY <2>1, <2>3, <3>1
  <2>5. /\ Within(f.rule, e.rule) /\ e.at # "enter" /\ f.home = HomeIn(e)
        /\ Forks(e) => e.at = "turn"
    BY <2>1, <2>4 DEF Nest
  <2>6. Popped(stack, t)
    BY <1>1, <2>1, FrontPops
  <2>7. t \in Seq(Calls) /\ Len(t) = n - 1 /\ t # <<>> /\ t[Len(t)] = e
    BY <2>4, <2>6, EmptyIff DEF Popped
  <2>8. e.rule \in Rule
    BY <2>1, <2>4, Inner DEF Nest, CallOK
  <2>9. Within(Body[Top.rule][i], f.rule) /\ Body[Top.rule][i] \in Rule
    BY <2>1, ChildWithin
  <2>10. Within(Body[Top.rule][i], e.rule)
    BY <2>5, <2>8, <2>9, WithinTrans
  <2>11. /\ x \in Calls /\ x.rule = Body[Top.rule][i] /\ x.home = world
         /\ x.at = "enter" /\ DOMAIN x.todo = {} /\ x.round = {}
    BY <2>2, <2>9, NewCall
  <2> HIDE DEF t, x, e, f, n
  <2>12. Pushed(t, Append(t, x), x)
    BY <2>7, <2>11, AppendPushes
  <2>13. /\ State(r, t, world, callbacks, lastRun, ruleStates) /\ e = t[Len(t)]
         /\ Within(x.rule, e.rule) /\ x.home = HomeIn(e) /\ x.home \in World
    BY <1>2, <2>2, <2>5, <2>7, <2>10, <2>11 DEF t
  <2>14. State(r, Append(t, x), x.home, callbacks, lastRun, ruleStates)
    BY <2>1, <2>5, <2>11, <2>12, <2>13, PlainPush
  <2>15. stack' = Append(t, x)
    BY <1>4 DEF t, x
  <2> QED
    BY <1>1, <2>11, <2>14, <2>15 DEF Inv, State
<1> QED
  BY <1>1, <1>3, <1>4

LEMMA PollOK ==
  ASSUME NEW r \in Roots, Inv(r), Poll
  PROVE  Inv(r)'
<1>1. /\ stack # <<>> /\ Top.at = "enter" /\ Kind[Top.rule] = "input"
      /\ ~crashed /\ Create
      /\ stack' = [stack EXCEPT ![Len(stack)].at = "check"]
      /\ UNCHANGED <<callbacks, world, lastRun, crashed>>
  BY DEF Poll, Running, GoTo, AfterPoll
<1>2. ~Forks(Top) /\ ~Registered(Top) /\ Kind[Top.rule] \notin NoState
  BY <1>1 DEF Forks, Registered, Parallel, Timers, NoState
<1>3. State(r, stack', world, callbacks, lastRun, ruleStates')
  BY <1>1, <1>2, Created, SameListed, GoesOn
<1> QED
  BY <1>1, <1>3 DEF Inv, State

LEMMA InputEndsOK ==
  ASSUME NEW r \in Roots, Inv(r), InputEnds
  PROVE  Inv(r)'
<1>1. /\ stack # <<>> /\ Top.at = "enter" /\ Kind[Top.rule] = "input"
      /\ Delete(Key(Top.rule)) /\ stack' = Front(stack)
      /\ UNCHANGED <<callbacks, world, lastRun, crashed>>
  BY DEF InputEnds, Running, Return
<1>2. ~Forks(Top) /\ ~Registered(Top)
  BY <1>1 DEF Forks, Registered, Parallel, Timers
<1>3. Key(Top.rule) = Held
  BY <1>1, <1>2, KeyHeld
<1>4. State(r, stack', world, callbacks, lastRun, ruleStates')
  BY <1>1, <1>2, <1>3, Deleted, Returns
<1> QED
  BY <1>1, <1>4 DEF Inv, State

-----------------------------------------------------------------------------
(* checkCallbacks *)

LEMMA StopperStops ==
  ASSUME callbacks \in Seq(Rule)
  PROVE  /\ Stopper \in 0..Len(callbacks)
         /\ Stopper # 0 => Stopper \in 1..Len(callbacks) /\ Stops(callbacks[Stopper])
         /\ \A i \in 1..Len(callbacks) : Stops(callbacks[i]) => i <= Stopper
<1> DEFINE S == {0} \cup {i \in 1..Len(callbacks) : Stops(callbacks[i])}
<1>1. Len(callbacks) \in Nat /\ S \subseteq 0..Len(callbacks) /\ S # {}
  OBVIOUS
<1>2. Stopper = Max(S)
  BY DEF Stopper
<1>3. Max(S) \in S /\ \A x \in S : x <= Max(S)
  <2> HIDE DEF S
  <2> QED
    BY <1>1, Largest
<1>4. \A i \in 1..Len(callbacks) : Stops(callbacks[i]) => i \in S
  OBVIOUS
<1>5. Stopper # 0 => Stopper \in 1..Len(callbacks) /\ Stops(callbacks[Stopper])
  BY <1>2, <1>3
<1>6. \A i \in 1..Len(callbacks) : Stops(callbacks[i]) => i <= Stopper
  <2> HIDE DEF S
  <2> QED
    BY <1>2, <1>3, <1>4
<1>7. Stopper \in 0..Len(callbacks)
  <2> HIDE DEF S
  <2> QED
    BY <1>1, <1>2, <1>3
<1> QED
  BY <1>5, <1>6, <1>7

LEMMA CalmHome ==
  ASSUME NEW r \in Rule, Calm(r), NEW f, CallOK(f, r), Kind[f.rule] = "parallelfor"
  PROVE  f.home = 0
<1>1. ~Nested(f.rule)
  BY DEF Calm, CallOK
<1>2. ~InParallelFor(f.rule)
  BY <1>1 DEF Nested, InParallelFor, Within
<1> QED
  BY <1>2 DEF CallOK

\* Every callback that is asked is the one of a call in the world of the branch.
LEMMA Asked ==
  ASSUME NEW r \in Roots, Calm(r), Inv(r), stack # <<>>, Top.at = "check", ~Forks(Top),
         NEW i \in 1..Len(callbacks), i >= Stopper
  PROVE  \E b \in 1..Len(stack) :
            /\ b < Len(stack) /\ Registered(stack[b]) /\ stack[b].rule = callbacks[i]
            /\ AskedKey(callbacks[i]) = Place(stack[b])
            /\ Forks(stack[b]) => stack[b].at = "turn" /\ Top.home = HomeIn(stack[b])
<1> DEFINE n == Len(stack)
<1>1. /\ Nest(stack, r) /\ r \in Rule /\ n \in 1..n /\ n \in Nat /\ Top = stack[n]
      /\ world = Top.home
  BY TopCall, KeyHeld DEF Inv, Top, Last
<1>2. Listed(stack, callbacks) /\ callbacks \in Seq(Rule)
  BY DEF Inv, Listed
<1>3. PICK a \in 1..n :
         /\ Forks(stack[a]) \/ HomeIn(stack[a]) = stack[a].home
         /\ ~Forks(stack[a]) => stack[a].home = 0 /\ a = 1
         /\ \A b \in 1..n : a < b => ~Forks(stack[b]) /\ stack[b].home = HomeIn(stack[a])
  BY <1>1, Innermost
<1>4. PICK b \in 1..n : Registered(stack[b]) /\ stack[b].rule = callbacks[i]
  BY <1>2 DEF Listed
<1>5. ~Registered(Top)
  BY DEF Registered
<1>6. b # n /\ b < n
  BY <1>1, <1>4, <1>5
<1>7. Forks(stack[a]) => a < n /\ stack[a].at = "turn" /\ Registered(stack[a])
  <2> SUFFICES ASSUME Forks(stack[a])
               PROVE  a < n /\ stack[a].at = "turn" /\ Registered(stack[a])
    OBVIOUS
  <2>1. a < n
    BY <1>1
  <2>2. stack[a].at = "turn"
    BY <1>1, <2>1 DEF Nest
  <2> QED
    BY <2>1, <2>2 DEF Registered
<1>8. a <= b
  <2> SUFFICES ASSUME b < a PROVE FALSE
    BY <1>1
  <2>1. Forks(stack[a])
    BY <1>1, <1>3
  <2>2. PICK j \in 1..Len(callbacks) : stack[a].rule = callbacks[j]
    BY <1>2, <1>7, <2>1 DEF Listed
  <2>3. Stops(callbacks[j])
    BY <2>1, <2>2 DEF Stops, Forks
  <2>4. j <= Stopper /\ Stopper \in Nat
    BY <1>2, <2>3, StopperStops
  <2>5. i < j
    BY <1>2, <1>4, <1>7, <2>1, <2>2 DEF Listed
  <2> QED
    BY ONLY <2>4, <2>5, i >= Stopper, i \in 1..Len(callbacks), j \in 1..Len(callbacks)
<1>9. a < n
  BY <1>1, <1>6, <1>8
<1>10. world = HomeIn(stack[a])
  BY <1>1, <1>3, <1>9
<1>11. b # a => ~Forks(stack[b]) /\ stack[b].home = world
  <2>1. b # a => a < b
    BY <1>8
  <2> QED
    BY <1>3, <1>10, <2>1
<1>12. Kind[stack[b].rule] # "parallelfor" => stack[b].home = world
  BY <1>10, <1>11 DEF HomeIn
<1>13. Kind[stack[b].rule] = "parallelfor" => stack[b].home = 0
  <2>1. CallOK(stack[b], r)
    BY <1>1 DEF Nest
  <2> QED
    BY <1>1, <2>1, CalmHome
<1>14. AskedKey(callbacks[i]) = Place(stack[b])
  BY <1>4, <1>12, <1>13 DEF AskedKey, Key, Place
<1>15. Forks(stack[b]) => stack[b].at = "turn" /\ Top.home = HomeIn(stack[b])
  BY <1>1, <1>7, <1>10, <1>11
<1> QED
  BY <1>4, <1>6, <1>14, <1>15

LEMMA AllThere ==
  ASSUME NEW r \in Roots, Calm(r), Inv(r), stack # <<>>, Top.at = "check", ~Forks(Top)
  PROVE  ~NoStateThere
<1> SUFFICES ASSUME NEW i \in 1..Len(callbacks), i >= Stopper
             PROVE  AskedKey(callbacks[i]) \in DOMAIN ruleStates
  BY DEF NoStateThere
<1>1. PICK b \in 1..Len(stack) :
         Registered(stack[b]) /\ AskedKey(callbacks[i]) = Place(stack[b])
  BY Asked
<1> QED
  BY <1>1 DEF Inv, StatesHeld

LEMMA CheckersTop ==
  ASSUME NEW r \in Roots, Inv(r), Running(Checkers, "check")
  PROVE  /\ stack # <<>> /\ Top.at = "check" /\ ~crashed
         /\ ~Forks(Top) /\ ~Registered(Top) /\ Key(Top.rule) = Held
         /\ Kind[Top.rule] \notin NoState \/ Kind[Top.rule] = "loop"
<1>1. /\ stack # <<>> /\ Top.at = "check" /\ ~crashed /\ Kind[Top.rule] \in Checkers
  BY DEF Running
<1>2. ~Forks(Top) /\ ~Registered(Top)
  BY <1>1 DEF Forks, Registered, Parallel, Checkers
<1>3. Key(Top.rule) = Held
  BY <1>1, <1>2, KeyHeld
<1> QED
  BY <1>1, <1>2, <1>3 DEF Checkers, NoState

LEMMA CheckPassesOK ==
  ASSUME NEW r \in Roots, Inv(r), CheckPasses
  PROVE  Inv(r)'
<1> DEFINE p == IF Kind[Top.rule] = "exact" THEN "pad" ELSE "enter"
<1>1. /\ Running(Checkers, "check") /\ StepOn
      /\ stack' = [stack EXCEPT ![Len(stack)].at = p]
      /\ UNCHANGED <<callbacks, world, lastRun, crashed>>
  BY DEF CheckPasses, GoTo
<1>2. /\ stack # <<>> /\ ~Forks(Top) /\ ~Registered(Top) /\ ~crashed
      /\ Kind[Top.rule] \notin NoState \/ Kind[Top.rule] = "loop"
  BY <1>1, CheckersTop
<1>3. p \in {"enter", "check", "pad"} /\ p \in {"enter", "check", "timed", "pad"} /\ p # "timed"
  OBVIOUS
<1>4. /\ ruleStates' \in [DOMAIN ruleStates' -> Nat \ {0}]
      /\ DOMAIN ruleStates' = DOMAIN ruleStates
  BY <1>1, SteppedOn
<1>5. Held \in DOMAIN ruleStates' => Kind[Top.rule] \notin NoState
  <2>1. Kind[Top.rule] \in NoState => Held \notin DOMAIN ruleStates
    BY Stateless
  <2> QED
    BY <1>4, <2>1
<1> HIDE DEF p
<1>6. Listed([stack EXCEPT ![Len(stack)].at = p], callbacks)
  BY <1>2, <1>3, SameListed
<1>7. State(r, stack', world, callbacks, lastRun, ruleStates')
  BY <1>1, <1>2, <1>3, <1>4, <1>5, <1>6, GoesOn
<1> QED
  BY <1>1, <1>2, <1>7 DEF Inv, State

LEMMA CutOffOK ==
  ASSUME NEW r \in Roots, Inv(r), CutOff
  PROVE  Inv(r)'
<1>1. /\ Running(Checkers, "check") /\ DropState /\ stack' = Front(stack)
      /\ UNCHANGED <<callbacks, world, lastRun, crashed>>
  BY DEF CutOff, Return
<1>2. /\ stack # <<>> /\ ~Forks(Top) /\ ~Registered(Top) /\ ~crashed
      /\ Key(Top.rule) = Held
  BY <1>1, CheckersTop
<1>3. CASE Kind[Top.rule] = "loop"
  <2>1. ruleStates' = ruleStates
    BY <1>1, <1>3 DEF DropState
  <2>2. State(r, stack', world, callbacks, lastRun, ruleStates')
    BY <1>1, <1>2, <1>3, <2>1, ReturnsPlainly DEF NoState
  <2> QED
    BY <1>1, <1>2, <2>2 DEF Inv, State
<1>4. CASE Kind[Top.rule] # "loop"
  <2>1. Delete(Held)
    BY <1>1, <1>2, <1>4 DEF DropState
  <2>2. State(r, stack', world, callbacks, lastRun, ruleStates')
    BY <1>1, <1>2, <2>1, Deleted, Returns
  <2> QED
    BY <1>1, <1>2, <2>2 DEF Inv, State
<1> QED
  BY <1>3, <1>4

LEMMA CheckCrashesNever ==
  ASSUME NEW r \in Roots, Calm(r), Inv(r), CheckCrashes
  PROVE  FALSE
<1>1. Running(Checkers, "check") /\ NoStateThere
  BY DEF CheckCrashes
<1> QED
  BY <1>1, CheckersTop, AllThere

\* What the call on top leaves to branch b, in whose world it is.
LEMMA Suspends ==
  ASSUME NEW r \in Roots, Inv(r), stack # <<>>, Top.at = "check", ~Forks(Top),
         NEW st2, st2 \in [DOMAIN st2 -> Nat \ {0}], DOMAIN st2 = DOMAIN ruleStates,
         NEW b \in 1..Len(stack), b < Len(stack), stack[b].at = "turn",
         Top.home = HomeIn(stack[b])
  PROVE  State(r, Front(stack), world, callbacks,
               [lastRun EXCEPT ![Place(stack[b])] = Append(@, Top.rule)], st2)
<1> DEFINE n == Len(stack)
           f == stack[n]
           e == stack[b]
           t == Front(stack)
           k0 == Place(e)
           l2 == [lastRun EXCEPT ![k0] = Append(@, Top.rule)]
           st1 == [k \in DOMAIN st2 \ {Held} |-> st2[k]]
<1>1. /\ Nest(stack, r) /\ r \in Rule /\ n \in 1..n /\ stack \in Seq(Calls) /\ Top = f
      /\ f.rule \in Rule /\ Held = Place(f) /\ f.home \in World
  BY TopCall DEF Inv, Top, Held, Place
<1>2. Popped(stack, t)
  BY <1>1, FrontPops
<1>3. /\ b \in 1..Len(t) /\ t[b] = e
      /\ \A a \in 1..Len(t) : a \in 1..n /\ a # n /\ t[a] = stack[a]
      /\ \A a \in 1..n : a # n => a \in 1..Len(t)
  <2>1. Len(t) = n - 1 /\ n \in Nat
    BY <1>1, <1>2 DEF Popped
  <2>2. \A a \in 1..n : a # n => a \in 1..Len(t)
    BY <2>1
  <2>3. \A a \in 1..Len(t) : a \in 1..n /\ a # n
    BY <2>1
  <2>4. b # n
    BY <2>1
  <2> QED
    BY <1>2, <2>2, <2>3, <2>4 DEF Popped
<1>4. e \in Calls /\ CallOK(e, r) /\ Forks(e) /\ Within(f.rule, e.rule)
  BY <1>1 DEF Nest, CallOK
<1>5. k0 \in ParallelKeys
  <2>1. e.rule \in Rule /\ e.home \in World
    BY <1>4 DEF Calls
  <2> QED
    BY <1>4, <2>1 DEF Place, ParallelKeys, Forks
<1>6. State(r, t, world, callbacks, lastRun, st1)
  <2>1. ~Registered(Top)
    BY DEF Registered
  <2>2. DOMAIN st1 = DOMAIN ruleStates \ {Held} /\ st1 \in [DOMAIN st1 -> Nat \ {0}]
    OBVIOUS
  <2> HIDE DEF st1
  <2> QED
    BY <2>1, <2>2, Returns
<1>7. SuspendedOK(stack, lastRun) /\ SuspendedOK(t, lastRun) /\ lastRun \in [ParallelKeys -> Seq(Rule)]
  BY <1>6 DEF Inv, State, SuspendedOK
<1> DEFINE u == lastRun[k0]
<1>8. /\ u \in Seq(Rule) /\ l2 \in [ParallelKeys -> Seq(Rule)]
      /\ l2[k0] = Append(u, f.rule)
      /\ \A k \in ParallelKeys : k # k0 => l2[k] = lastRun[k]
  <2>1. u \in Seq(Rule)
    BY <1>5, <1>7
  <2>2. Append(u, f.rule) \in Seq(Rule)
    BY <1>1, <2>1, OneMore
  <2>3. l2 = [lastRun EXCEPT ![k0] = Append(u, f.rule)]
    BY <1>1
  <2> HIDE DEF k0, u, l2
  <2> QED
    BY <1>5, <1>7, <2>1, <2>2, <2>3
<1>9. /\ Len(u) \in Nat /\ Len(l2[k0]) = Len(u) + 1 /\ l2[k0][Len(u) + 1] = f.rule
      /\ \A m \in 1..Len(u) : l2[k0][m] = u[m]
  <2> HIDE DEF u, l2, k0
  <2> QED
    BY <1>1, <1>8, OneMore
<1> HIDE DEF l2, u, t
<1>10. \A a \in 1..Len(t) : t[a].at = "turn" /\ a # b => l2[Place(t[a])] = lastRun[Place(t[a])]
  <2> SUFFICES ASSUME NEW a \in 1..Len(t), t[a].at = "turn", a # b
               PROVE  l2[Place(t[a])] = lastRun[Place(t[a])]
    OBVIOUS
  <2>1. t[a].rule # e.rule
    BY <1>1, <1>3, OneCall
  <2>2. t[a] \in Calls /\ Forks(t[a])
    BY <1>1, <1>3 DEF Nest, CallOK
  <2>3. Place(t[a]) \in ParallelKeys
    BY <2>2 DEF Place, ParallelKeys, Forks, Calls
  <2>4. Place(t[a]) # k0
    BY <2>1 DEF Place
  <2> QED
    BY <1>8, <2>3, <2>4
<1>11. SuspendedOK(t, l2)
  <2>1. \A k \in ParallelKeys : l2[k] # <<>> =>
            \E a \in 1..Len(t) : t[a].at = "turn" /\ k = Place(t[a])
    <3> SUFFICES ASSUME NEW k \in ParallelKeys, l2[k] # <<>>
                 PROVE  \E a \in 1..Len(t) : t[a].at = "turn" /\ k = Place(t[a])
      OBVIOUS
    <3>1. CASE k = k0
      BY <1>3, <3>1
    <3>2. CASE k # k0
      BY <1>7, <1>8, <3>2 DEF SuspendedOK
    <3> QED
      BY <3>1, <3>2
  <2>2. \A a \in 1..Len(t) : t[a].at = "turn" =>
            \A m \in 1..Len(l2[Place(t[a])]) : Within(l2[Place(t[a])][m], t[a].rule)
    <3> SUFFICES ASSUME NEW a \in 1..Len(t), t[a].at = "turn",
                        NEW m \in 1..Len(l2[Place(t[a])])
                 PROVE  Within(l2[Place(t[a])][m], t[a].rule)
      OBVIOUS
    <3>1. CASE a # b
      BY <1>7, <1>10, <3>1 DEF SuspendedOK
    <3>2. CASE a = b
      <4>1. t[a] = e /\ Place(t[a]) = k0 /\ m \in 1..(Len(u) + 1)
        BY <1>3, <1>9, <3>2
      <4>2. m = Len(u) + 1 \/ m \in 1..Len(u)
        BY ONLY <1>9, <4>1
      <4>3. \A j \in 1..Len(u) : Within(u[j], e.rule)
        <5>1. \A j \in 1..Len(lastRun[Place(t[b])]) : Within(lastRun[Place(t[b])][j], t[b].rule)
          BY <1>3, <1>7, <3>2 DEF SuspendedOK
        <5> QED
          BY <1>3, <5>1 DEF u
      <4> QED
        BY <1>4, <1>9, <4>1, <4>2, <4>3
    <3> QED
      BY <3>1, <3>2
  <2> QED
    BY <1>8, <2>1, <2>2 DEF SuspendedOK
<1>12. StatesOwned(t, l2, st2)
  <2>1. ASSUME NEW k \in DOMAIN st2 PROVE Kind[k[1]] \notin NoState /\ Owned(t, l2, k)
    <3>1. Kind[k[1]] \notin NoState /\ Owned(stack, lastRun, k)
      BY DEF Inv, StatesOwned, NoState
    <3>2. PICK a \in 1..n : OwnedBy(stack[a], lastRun, k)
      BY <3>1 DEF Owned
    <3>3. CASE a = n
      <4>1. k = Place(f)
        <5>1. DOMAIN f.todo = {} /\ f.at # "turn"
          BY <1>1 DEF Nest, CallOK
        <5> QED
          BY <3>2, <3>3, <5>1, OwnsOne
      <4>2. k = <<l2[Place(e)][Len(u) + 1], HomeIn(e)>>
        BY <1>1, <1>9, <4>1 DEF Place
      <4>3. Len(u) + 1 \in 1..Len(l2[Place(e)])
        BY <1>9
      <4>4. OwnedBy(e, l2, k)
        BY <4>2, <4>3 DEF OwnedBy
      <4> QED
        BY <1>3, <3>1, <4>4 DEF Owned
    <3>4. CASE a # n /\ a # b
      <4>1. a \in 1..Len(t) /\ t[a] = stack[a]
        BY <1>3, <3>4
      <4>2. OwnedBy(t[a], l2, k)
        BY <1>10, <3>2, <3>4, <4>1 DEF OwnedBy
      <4> QED
        BY <3>1, <4>1, <4>2 DEF Owned
    <3>5. CASE a = b
      <4>1. \A m \in 1..Len(u) : m \in 1..Len(l2[Place(e)]) /\ l2[Place(e)][m] = lastRun[Place(e)][m]
        BY <1>9 DEF u
      <4>2. Len(u) = Len(lastRun[Place(e)])
        BY DEF u
      <4>3. OwnedBy(e, l2, k)
        BY <3>2, <3>5, <4>1, <4>2 DEF OwnedBy
      <4> QED
        BY <1>3, <3>1, <4>3 DEF Owned
    <3> QED
      BY <3>3, <3>4, <3>5
  <2> QED
    BY <2>1 DEF StatesOwned, NoState
<1>13. StatesHeld(t, st2)
  BY <1>6 DEF State, StatesHeld
<1>14. State(r, t, world, callbacks, l2, st2)
  BY <1>6, <1>11, <1>12, <1>13 DEF State
<1> QED
  BY <1>14 DEF t, l2

LEMMA SuspendOK ==
  ASSUME NEW r \in Roots, Calm(r), Inv(r), Suspend
  PROVE  Inv(r)'
<1>1. /\ Running(Checkers, "check") /\ StepOn /\ stack' = Front(stack)
      /\ Stopper # 0 /\ Kind[callbacks[Stopper]] \in Parallel
      /\ lastRun' = [lastRun EXCEPT ![AskedKey(callbacks[Stopper])] = Append(@, Top.rule)]
      /\ UNCHANGED <<callbacks, world, crashed>>
  BY DEF Suspend, Return
<1>2. /\ stack # <<>> /\ Top.at = "check" /\ ~Forks(Top) /\ ~crashed
  BY <1>1, CheckersTop
<1>3. Stopper \in 1..Len(callbacks) /\ Stopper >= Stopper
  <2>1. callbacks \in Seq(Rule)
    BY DEF Inv, Listed
  <2> QED
    BY <1>1, <2>1, StopperStops
<1>4. PICK b \in 1..Len(stack) :
         /\ b < Len(stack) /\ Registered(stack[b]) /\ stack[b].rule = callbacks[Stopper]
         /\ AskedKey(callbacks[Stopper]) = Place(stack[b])
         /\ Forks(stack[b]) => stack[b].at = "turn" /\ Top.home = HomeIn(stack[b])
  BY <1>2, <1>3, Asked
<1>5. Forks(stack[b])
  BY <1>1, <1>4 DEF Forks
<1>6. State(r, stack', world, callbacks, lastRun', ruleStates')
  BY <1>1, <1>2, <1>4, <1>5, SteppedOn, Suspends
<1> QED
  BY <1>1, <1>2, <1>6 DEF Inv, State

-----------------------------------------------------------------------------
(* Timers *)

\* The callback of the call on top is the last one.
LEMMA Deregistered ==
  ASSUME NEW r \in Roots, Inv(r), stack # <<>>, Registered(Top), NEW t,
         Len(t) \in {Len(stack) - 1, Len(stack)},
         \A a \in 1..Len(t) : a # Len(stack) => t[a] = stack[a],
         Len(t) = Len(stack) => ~Registered(t[Len(stack)]),
         Deregister(Top.rule)
  PROVE  callbacks' = Front(callbacks) /\ Listed(t, callbacks')
<1> DEFINE n == Len(stack)
<1>1. /\ stack \in Seq(Calls) /\ n \in 1..n /\ n \in Nat /\ Top = stack[n]
      /\ Registered(stack[n])
  BY TopCall DEF Inv, Top
<1>2. \A a \in 1..Len(t) : Registered(t[a]) =>
         a \in 1..n /\ a # n /\ Registered(stack[a]) /\ t[a].rule = stack[a].rule
  <2>1. \A a \in 1..Len(t) : a \in 1..n /\ (a = n => Len(t) = n)
    BY <1>1
  <2> QED
    BY <2>1
<1>3. \A a \in 1..n : Registered(stack[a]) /\ a # n =>
         a < n /\ a \in 1..Len(t) /\ Registered(t[a]) /\ t[a].rule = stack[a].rule
  <2>1. \A a \in 1..n : a # n => a < n /\ a \in 1..Len(t)
    BY <1>1
  <2> QED
    BY <2>1
<1>4. Listed(stack, callbacks) /\ callbacks \in Seq(Rule)
  BY DEF Inv, Listed
<1>5. /\ callbacks # <<>> /\ Len(callbacks) \in 1..Len(callbacks)
      /\ callbacks[Len(callbacks)] = Top.rule
      /\ \A j \in 1..Len(callbacks) : callbacks[j] = Top.rule => j = Len(callbacks)
      /\ Listed(t, Front(callbacks))
  <2>1. n = Len(stack)
    OBVIOUS
  <2> HIDE DEF n
  <2>2. /\ n \in 1..Len(stack) /\ Len(stack) \in Nat /\ Registered(stack[n])
        /\ \A a \in 1..Len(t) : Registered(t[a]) =>
              a \in 1..Len(stack) /\ a # n /\ Registered(stack[a]) /\ t[a].rule = stack[a].rule
        /\ \A a \in 1..Len(stack) : Registered(stack[a]) /\ a # n =>
              a < n /\ a \in 1..Len(t) /\ Registered(t[a]) /\ t[a].rule = stack[a].rule
    BY <1>1, <1>2, <1>3, <2>1
  <2>3. /\ callbacks # <<>> /\ Len(callbacks) \in 1..Len(callbacks)
        /\ callbacks[Len(callbacks)] = stack[n].rule
        /\ \A j \in 1..Len(callbacks) : callbacks[j] = stack[n].rule => j = Len(callbacks)
        /\ Listed(t, Front(callbacks))
    BY ONLY <1>4, <2>2, ListedLess
  <2> QED
    BY <1>1, <2>3
<1>6. (CHOOSE i \in 1..Len(callbacks) : callbacks[i] = Top.rule) = Len(callbacks)
  BY <1>5
<1>7. callbacks' = Front(callbacks)
  BY <1>4, <1>5, <1>6, LastRemoved DEF Deregister
<1> QED
  BY <1>5, <1>7

LEMMA StartTimerOK ==
  ASSUME NEW r \in Roots, Inv(r), StartTimer
  PROVE  Inv(r)'
<1> DEFINE n == Len(stack)
           f == stack[n]
           t == [stack EXCEPT ![Len(stack)].at = "timed"]
<1>1. /\ stack # <<>> /\ Top.at = "enter" /\ Kind[Top.rule] \in Timers /\ ~crashed
      /\ Create /\ callbacks' = Append(callbacks, Top.rule)
      /\ stack' = Append(t, Frame(Body[Top.rule][1], world))
      /\ UNCHANGED <<world, lastRun, crashed>>
  BY DEF StartTimer, Running, Call
<1>2. ~Forks(Top) /\ ~Registered(Top) /\ Kind[Top.rule] \notin NoState
  BY <1>1 DEF Forks, Registered, Parallel, Timers, NoState
<1>3. /\ Nest(stack, r) /\ r \in Rule /\ stack \in Seq(Calls) /\ n \in 1..n /\ n \in Nat
      /\ f = Top /\ f.rule \in Rule
  BY <1>1, TopCall DEF Inv, Top
<1>4. PICK g \in Calls : /\ Changed(stack, t, g) /\ g.rule = f.rule /\ g.at = "timed"
                         /\ g.home = f.home /\ g.todo = f.todo /\ g.round = f.round
  BY <1>1, <1>3, Moved
<1>5. Listed(t, callbacks')
  <2>1. Len(t) = n /\ t[n] = g /\ \A a \in 1..n : a # n => t[a] = stack[a]
    BY <1>3, <1>4 DEF Changed
  <2>2. Registered(g) /\ ~Registered(f)
    BY <1>1, <1>2, <1>3, <1>4 DEF Registered
  <2>3. \A a, b \in 1..n : t[a].rule = t[b].rule => a = b
    <3>1. \A a \in 1..n : t[a].rule = stack[a].rule
      BY <1>4, <2>1
    <3> QED
      BY <1>3, <3>1, OneCall
  <2>4. \A a \in 1..n : Registered(stack[a]) => a # n /\ Registered(t[a]) /\ t[a] = stack[a]
    BY <2>1, <2>2
  <2>5. \A a \in 1..n : Registered(t[a]) /\ a # n => a < n /\ Registered(stack[a]) /\ t[a] = stack[a]
    BY <1>3, <2>1
  <2>6. Listed(stack, callbacks)
    BY DEF Inv
  <2> HIDE DEF t, f, n
  <2>7. Listed(t, Append(callbacks, t[n].rule))
    <3>1. /\ n \in 1..Len(t) /\ Len(t) \in Nat /\ Registered(t[n]) /\ t[n].rule \in Rule
          /\ \A a, b \in 1..Len(t) : t[a].rule = t[b].rule => a = b
      BY <1>3, <1>4, <2>1, <2>2, <2>3
    <3>2. /\ \A a \in 1..Len(stack) : Registered(stack[a]) =>
                a \in 1..Len(t) /\ a # n /\ Registered(t[a]) /\ t[a].rule = stack[a].rule
          /\ \A a \in 1..Len(t) : Registered(t[a]) /\ a # n =>
                a < n /\ a \in 1..Len(stack) /\ Registered(stack[a])
                /\ t[a].rule = stack[a].rule
      BY <2>1, <2>4, <2>5 DEF n
    <3> QED
      BY <2>6, <3>1, <3>2, ListedMore
  <2> QED
    BY <1>1, <1>3, <1>4, <2>1, <2>7
<1>6. /\ ruleStates' \in [DOMAIN ruleStates' -> Nat \ {0}]
      /\ DOMAIN ruleStates' = DOMAIN ruleStates \cup {Held}
  BY <1>1, Created
<1>7. State(r, t, world, callbacks', lastRun, ruleStates')
  BY <1>1, <1>2, <1>5, <1>6, GoesOn
<1>8. Within(Body[Top.rule][1], Top.rule)
  <2>1. 1 \in 1..Len(Body[Top.rule])
    BY <1>1, <1>3, RulesAssumption
  <2> QED
    BY <1>3, <2>1, ChildWithin
<1>9. State(r, stack', world, callbacks', lastRun, ruleStates')
  BY <1>1, <1>2, <1>3, <1>7, <1>8, CallsRule
<1> QED
  BY <1>1, <1>9 DEF Inv, State

\* The rules of a timer have come to their end, or were cut off.
LEMMA TimerStops ==
  ASSUME NEW r \in Roots, Inv(r), Running(Timers, "timed"), Deregister(Top.rule)
  PROVE  /\ State(r, [stack EXCEPT ![Len(stack)].at = "pad"], world, callbacks', lastRun,
                  ruleStates)
         /\ stack # <<>> /\ ~crashed /\ Key(Top.rule) = Held
         /\ \E g \in Calls :
               /\ Changed(stack, [stack EXCEPT ![Len(stack)].at = "pad"], g)
               /\ g.rule = Top.rule /\ g.home = Top.home /\ g.at = "pad"
<1> DEFINE n == Len(stack)
           t == [stack EXCEPT ![Len(stack)].at = "pad"]
<1>1. stack # <<>> /\ Top.at = "timed" /\ Kind[Top.rule] \in Timers /\ ~crashed
  BY DEF Running
<1>2. ~Forks(Top) /\ Registered(Top) /\ Kind[Top.rule] \notin NoState
  BY <1>1 DEF Forks, Registered, Parallel, Timers, NoState
<1>3. stack \in Seq(Calls) /\ n \in 1..n /\ stack[n] = Top
  BY <1>1, TopCall DEF Inv, Top
<1>4. PICK g \in Calls : /\ Changed(stack, t, g) /\ g.rule = Top.rule /\ g.at = "pad"
                         /\ g.home = Top.home
  BY <1>1, <1>3, Moved
<1>5. Listed(t, callbacks')
  <2>1. Len(t) = n /\ t[n] = g /\ \A a \in 1..n : a # n => t[a] = stack[a]
    BY <1>3, <1>4 DEF Changed
  <2>2. ~Registered(g)
    BY <1>2, <1>4 DEF Registered, Forks
  <2> HIDE DEF t
  <2>3. Len(t) \in {Len(stack) - 1, Len(stack)}
    BY <2>1
  <2> QED
    BY <1>1, <1>2, <2>1, <2>2, <2>3, Deregistered
<1>6. State(r, t, world, callbacks', lastRun, ruleStates)
  BY <1>1, <1>2, <1>5, Positions, GoesOn
<1>7. Key(Top.rule) = Held
  BY <1>1, <1>2, KeyHeld
<1> QED
  BY <1>1, <1>4, <1>6, <1>7

LEMMA EndTimerOK ==
  ASSUME NEW r \in Roots, Inv(r), EndTimer
  PROVE  Inv(r)'
<1> DEFINE t == [stack EXCEPT ![Len(stack)].at = "pad"]
           n == Len(stack)
<1>1. /\ Running(Timers, "timed") /\ Deregister(Top.rule) /\ Delete(Key(Top.rule))
      /\ stack' = Front(stack)
      /\ UNCHANGED <<world, lastRun, crashed>>
  BY DEF EndTimer, Running, Return, Timers
<1>2. /\ State(r, t, world, callbacks', lastRun, ruleStates)
      /\ stack # <<>> /\ ~crashed /\ Key(Top.rule) = Held
  BY <1>1, TimerStops
<1>3. PICK g \in Calls : /\ Changed(stack, t, g) /\ g.rule = Top.rule /\ g.home = Top.home
                         /\ g.at = "pad"
  BY <1>1, TimerStops
<1>4. Popped(t, stack') /\ g = t[Len(t)]
  <2>1. stack \in Seq(Calls)
    BY <1>2, TopCall DEF Inv
  <2>2. Popped(stack, stack')
    BY <1>1, <1>2, <2>1, FrontPops
  <2> HIDE DEF t
  <2> QED
    BY <1>3, <2>2 DEF Popped, Changed
<1>5. Kind[g.rule] \in Timers
  BY <1>1, <1>3 DEF Running
<1>6. ~Registered(g) /\ g.at \notin {"round", "turn"} /\ g.home \in World
  BY <1>3, <1>5 DEF Registered, Forks, Calls
<1>7. Place(g) = Held
  BY <1>3 DEF Place, Held
<1>8. /\ ruleStates' \in [DOMAIN ruleStates' -> Nat \ {0}]
      /\ DOMAIN ruleStates' = DOMAIN ruleStates \ {Place(g)}
  BY <1>1, <1>2, <1>7, Deleted
<1> HIDE DEF t
<1>9. r \in Rule /\ world = g.home
  <2>1. ~Forks(Top) 
    BY <1>1 DEF Running, Forks, Parallel, Timers
  <2> QED
    BY <1>2, <1>3, <2>1, KeyHeld, RulesAssumption
<1>10. State(r, stack', g.home, callbacks', lastRun, ruleStates')
  BY <1>2, <1>4, <1>6, <1>8, <1>9, PlainPop
<1> QED
  BY <1>1, <1>2, <1>9, <1>10 DEF Inv, State

LEMMA StartPaddingOK ==
  ASSUME NEW r \in Roots, Inv(r), StartPadding
  PROVE  Inv(r)'
<1>1. /\ Running(Timers, "timed") /\ Deregister(Top.rule)
      /\ stack' = [stack EXCEPT ![Len(stack)].at = "pad"]
      /\ UNCHANGED <<world, ruleStates, lastRun, crashed>>
  BY DEF StartPadding, Running, GoTo, Timers
<1>2. State(r, stack', world, callbacks', lastRun, ruleStates) /\ ~crashed
  BY <1>1, TimerStops
<1> QED
  BY <1>1, <1>2 DEF Inv, State

LEMMA PadOK ==
  ASSUME NEW r \in Roots, Inv(r), Pad
  PROVE  Inv(r)'
<1>1. /\ stack # <<>> /\ Top.at = "pad" /\ Kind[Top.rule] = "exact" /\ ~crashed
      /\ stack' = [stack EXCEPT ![Len(stack)].at = "check"]
      /\ UNCHANGED <<callbacks, world, ruleStates, lastRun, crashed>>
  BY DEF Pad, Running, GoTo
<1>2. ~Forks(Top) /\ ~Registered(Top) /\ Kind[Top.rule] \notin NoState
  BY <1>1 DEF Forks, Registered, Parallel, Timers, NoState
<1>3. Listed([stack EXCEPT ![Len(stack)].at = "check"], callbacks)
  BY <1>1, <1>2, SameListed
<1>4. State(r, stack', world, callbacks, lastRun, ruleStates)
  BY <1>1, <1>2, <1>3, Positions, GoesOn
<1> QED
  BY <1>1, <1>4 DEF Inv, State

LEMMA EndPaddingOK ==
  ASSUME NEW r \in Roots, Inv(r), EndPadding
  PROVE  Inv(r)'
<1>1. /\ stack # <<>> /\ Top.at = "pad" /\ Kind[Top.rule] = "exact"
      /\ Delete(Key(Top.rule)) /\ stack' = Front(stack)
      /\ UNCHANGED <<callbacks, world, lastRun, crashed>>
  BY DEF EndPadding, Running, Return
<1>2. ~Forks(Top) /\ ~Registered(Top)
  BY <1>1 DEF Forks, Registered, Parallel, Timers
<1>3. Key(Top.rule) = Held
  BY <1>1, <1>2, KeyHeld
<1>4. State(r, stack', world, callbacks, lastRun, ruleStates')
  BY <1>1, <1>2, <1>3, Deleted, Returns
<1> QED
  BY <1>1, <1>4 DEF Inv, State

-----------------------------------------------------------------------------
(* Parallel rules *)

LEMMA BranchRules ==
  ASSUME NEW p \in Rule, Kind[p] \in Parallel
  PROVE  /\ Branches(p) \in Todos
         /\ \A w \in DOMAIN Branches(p) :
               Branches(p)[w] # <<>>
               /\ \A m \in 1..Len(Branches(p)[w]) : Within(Branches(p)[w][m], p)
<1>1. \A x \in Rule : <<x>> \in Seq(Rule) /\ <<x>> # <<>> /\ Len(<<x>>) = 1 /\ <<x>>[1] = x
  OBVIOUS
<1>2. \A x : x \in 1..1 => x = 1
  OBVIOUS
<1>3. Body[p] \in Seq(Rule)
  BY RulesAssumption
<1>4. CASE Kind[p] = "inparallel"
  <2> DEFINE D == 0..(Len(Body[p]) - 1)
             b == [w \in D |-> <<Body[p][w + 1]>>]
  <2>1. Branches(p) = b
    BY <1>4 DEF Branches
  <2>2. \A w \in D : w \in Nat /\ w + 1 \in 1..Len(Body[p])
    BY <1>3
  <2>3. \A w \in D : Body[p][w + 1] \in Rule /\ Within(Body[p][w + 1], p)
    BY <2>2, ChildWithin
  <2>4. b \in [D -> Seq(Rule)] /\ D \in SUBSET Nat
    BY <1>1, <2>2, <2>3
  <2>5. b \in Todos
    BY <2>4 DEF Todos
  <2>6. \A w \in D : b[w] # <<>> /\ \A m \in 1..Len(b[w]) : Within(b[w][m], p)
    BY <1>1, <1>2, <2>3
  <2> QED
    BY <2>1, <2>5, <2>6
<1>5. CASE Kind[p] = "parallelfor"
  <2> DEFINE D == 0..(Size[p] - 1)
             x == Body[Body[p][1]][1]
             b == [w \in D |-> <<x>>]
  <2>1. Branches(p) = b
    BY <1>5 DEF Branches
  <2>2. 1 \in 1..Len(Body[p])
    BY <1>3, <1>5, RulesAssumption
  <2>3. Body[p][1] \in Rule /\ Within(Body[p][1], p)
    BY <2>2, ChildWithin
  <2>4. 1 \in 1..Len(Body[Body[p][1]])
    <3>1. Body[Body[p][1]] # <<>> /\ Body[Body[p][1]] \in Seq(Rule)
      BY <1>5, <2>3, RulesAssumption
    <3> QED
      BY <3>1
  <2>5. x \in Rule /\ Within(x, Body[p][1])
    BY <2>3, <2>4, ChildWithin
  <2>6. Within(x, p)
    BY <2>3, <2>5, WithinTrans
  <2>7. Size[p] \in Nat
    BY RulesAssumption
  <2> HIDE DEF x
  <2>8. b \in [D -> Seq(Rule)] /\ D \in SUBSET Nat
    BY <1>1, <2>5, <2>7
  <2>9. b \in Todos
    BY <2>8 DEF Todos
  <2>10. \A w \in D : b[w] # <<>> /\ \A m \in 1..Len(b[w]) : Within(b[w][m], p)
    BY <1>1, <1>2, <2>5, <2>6
  <2> QED
    BY <2>1, <2>9, <2>10
<1> QED
  BY <1>4, <1>5 DEF Parallel

LEMMA ForkOK ==
  ASSUME NEW r \in Roots, Inv(r), Fork
  PROVE  Inv(r)'
<1> DEFINE n == Len(stack)
           f == stack[n]
           g == [f EXCEPT !.at = "round", !.todo = Branches(f.rule)]
<1>1. /\ stack # <<>> /\ Top.at = "enter" /\ Kind[Top.rule] \in Parallel /\ ~crashed
      /\ Create /\ callbacks' = Append(callbacks, Top.rule)
      /\ UNCHANGED <<world, lastRun, crashed>>
  BY DEF Fork, Running
<1>2. /\ Nest(stack, r) /\ r \in Rule /\ stack \in Seq(Calls) /\ n \in 1..n /\ n \in Nat
      /\ f = Top /\ f \in Calls /\ f.rule \in Rule /\ CallOK(f, r) /\ Held = Place(f)
  BY <1>1, TopCall DEF Inv, Top, Held, Place
<1>3. stack' = [stack EXCEPT ![Len(stack)] = g]
  BY <1>2 DEF Fork
<1>4. /\ Branches(f.rule) \in Todos
      /\ \A w \in DOMAIN Branches(f.rule) :
            Branches(f.rule)[w] # <<>>
            /\ \A m \in 1..Len(Branches(f.rule)[w]) : Within(Branches(f.rule)[w][m], f.rule)
  BY <1>1, <1>2, BranchRules
<1> HIDE DEF f
<1>5. /\ g \in Calls /\ g.rule = f.rule /\ g.home = f.home /\ g.at = "round"
      /\ g.todo = Branches(f.rule) /\ g.round = f.round
  BY <1>2, <1>4 DEF Calls
<1> HIDE DEF g
<1>6. Changed(stack, stack', g) /\ f = stack[Len(stack)]
  BY <1>1, <1>2, <1>3, <1>5, ExceptChanges DEF f
<1>7. f.at = "enter" /\ DOMAIN f.todo = {} /\ Forks(f)
  BY <1>1, <1>2 DEF CallOK, Forks
<1>8. CallOK(g, r)
  <2>1. f.round = {}
    BY <1>2, <1>7 DEF CallOK
  <2>2. Forks(g)
    BY <1>5, <1>7 DEF Forks
  <2>3. \A w \in DOMAIN g.todo : /\ g.todo[w] # <<>>
                                 /\ \A m \in 1..Len(g.todo[w]) : Within(g.todo[w][m], g.rule)
    BY <1>4, <1>5
  <2>4. g.rule \in Inside[r] /\ (g.home = 0 \/ InParallelFor(g.rule))
    BY <1>2, <1>5 DEF CallOK
  <2> QED
    BY <1>5, <2>1, <2>2, <2>3, <2>4 DEF CallOK
<1>9. WorldOK(stack', world) /\ world \in World
  <2>1. world = f.home /\ world \in World
    BY <1>1, <1>2, KeyHeld DEF Inv
  <2>2. stack' # <<>> /\ stack'[Len(stack')] = g
    BY <1>6 DEF Changed
  <2> QED
    BY <1>5, <2>1, <2>2 DEF WorldOK
<1>10. Registered(g) /\ ~Registered(f)
  BY <1>5, <1>7 DEF Registered, Forks
<1>11. Listed(stack', callbacks')
  <2> DEFINE t == stack'
  <2>1. Len(t) = n /\ t[n] = g /\ \A a \in 1..n : a # n => t[a] = stack[a]
    BY <1>2, <1>6 DEF Changed
  <2>2. \A a, b \in 1..n : t[a].rule = t[b].rule => a = b
    <3>1. \A a \in 1..n : t[a].rule = stack[a].rule
      BY <1>5, <1>6, <2>1
    <3> QED
      BY <1>2, <3>1, OneCall
  <2>3. \A a \in 1..n : Registered(stack[a]) => a # n /\ Registered(t[a]) /\ t[a] = stack[a]
    BY <1>6, <1>10, <2>1
  <2>4. \A a \in 1..n : Registered(t[a]) /\ a # n => a < n /\ Registered(stack[a]) /\ t[a] = stack[a]
    BY <1>2, <2>1
  <2>5. Listed(stack, callbacks)
    BY DEF Inv
  <2> HIDE DEF t, n
  <2>6. Listed(t, Append(callbacks, t[n].rule))
    <3>1. /\ n \in 1..Len(t) /\ Len(t) \in Nat /\ Registered(t[n]) /\ t[n].rule \in Rule
          /\ \A a, b \in 1..Len(t) : t[a].rule = t[b].rule => a = b
      BY <1>2, <1>5, <1>10, <2>1, <2>2
    <3>2. /\ \A a \in 1..Len(stack) : Registered(stack[a]) =>
                a \in 1..Len(t) /\ a # n /\ Registered(t[a]) /\ t[a].rule = stack[a].rule
          /\ \A a \in 1..Len(t) : Registered(t[a]) /\ a # n =>
                a < n /\ a \in 1..Len(stack) /\ Registered(stack[a])
                /\ t[a].rule = stack[a].rule
      BY <2>1, <2>3, <2>4 DEF n
    <3> QED
      BY <2>5, <3>1, <3>2, ListedMore
  <2> QED
    BY <1>1, <1>2, <1>5, <2>1, <2>6 DEF t
<1>12. /\ ruleStates' \in [DOMAIN ruleStates' -> Nat \ {0}]
       /\ DOMAIN ruleStates' = DOMAIN ruleStates \cup {Place(f)}
  BY <1>1, <1>2, Created
<1>13. Kind[f.rule] \notin NoState
  BY <1>1, <1>2 DEF Parallel, NoState
<1>14. State(r, stack, world, callbacks, lastRun, ruleStates)
  BY InvIsState
<1>15. State(r, stack', world, callbacks', lastRun, ruleStates')
  <2>1. f.at # "turn" /\ g.at # "turn" /\ DOMAIN ruleStates \subseteq DOMAIN ruleStates'
        /\ DOMAIN ruleStates' \subseteq DOMAIN ruleStates \cup {Place(f)}
        /\ Place(f) \in DOMAIN ruleStates'
    BY <1>5, <1>7, <1>12
  <2> QED
    BY <1>2, <1>5, <1>6, <1>7, <1>8, <1>9, <1>11, <1>12, <1>13, <1>14, <2>1, PlainChange
<1> QED
  BY <1>1, <1>15 DEF Inv, State

LEMMA JoinOK ==
  ASSUME NEW r \in Roots, Calm(r), Inv(r), Join
  PROVE  Inv(r)'
<1> DEFINE n == Len(stack)
           f == stack[n]
           t == [stack EXCEPT ![Len(stack)].at = "enter"]
<1>1. /\ stack # <<>> /\ Top.at = "round" /\ Kind[Top.rule] \in Parallel /\ ~crashed
      /\ DOMAIN Top.todo = {} /\ Deregister(Top.rule) /\ stack' = Front(stack)
      /\ world' = IF Kind[Top.rule] = "parallelfor" THEN 0 ELSE world
      /\ Delete(<<Top.rule, world'>>)
      /\ UNCHANGED <<lastRun, crashed>>
  BY DEF Join, Running, Return
<1>2. /\ Nest(stack, r) /\ r \in Rule /\ stack \in Seq(Calls) /\ n \in 1..n /\ n \in Nat
      /\ f = Top /\ f \in Calls /\ f.rule \in Rule /\ CallOK(f, r)
      /\ f.home \in World /\ stack[Len(stack)] = f
  BY <1>1, TopCall DEF Inv, Top
<1>3. world' = f.home
  <2>1. CASE Kind[f.rule] = "parallelfor"
    BY <1>1, <1>2, <2>1, CalmHome
  <2>2. CASE Kind[f.rule] # "parallelfor"
    BY <1>1, <1>2, <2>2 DEF Inv, WorldOK
  <2> QED
    BY <2>1, <2>2
<1>4. PICK e \in Calls :
         /\ Changed(stack, t, e) /\ e.rule = f.rule /\ e.home = f.home /\ e.at = "enter"
         /\ e.todo = f.todo /\ e.round = f.round
  BY <1>1, <1>2, Moved
<1>5. Forks(f) /\ Registered(f) /\ ~Registered(e)
  BY <1>1, <1>2, <1>4 DEF Registered, Forks
<1> HIDE DEF t, f
<1>6. Len(t) = n /\ t[n] = e /\ \A a \in 1..n : a # n => t[a] = stack[a]
  BY <1>2, <1>4 DEF Changed
<1>7. Listed(t, callbacks')
  <2>1. Len(t) \in {Len(stack) - 1, Len(stack)}
    BY <1>6
  <2> QED
    BY <1>1, <1>2, <1>5, <1>6, <2>1, Deregistered
<1>8. CallOK(e, r)
  BY <1>1, <1>2, <1>4 DEF CallOK
<1>9. WorldOK(t, world')
  BY <1>2, <1>3, <1>4, <1>6 DEF WorldOK
<1>10. State(r, t, world', callbacks', lastRun, ruleStates)
  <2>1. State(r, stack, world, callbacks, lastRun, ruleStates)
    BY InvIsState
  <2>2. /\ f.at # "turn" /\ e.at # "turn" /\ DOMAIN f.todo = {} /\ f = stack[Len(stack)]
        /\ world' \in World /\ ruleStates \in [DOMAIN ruleStates -> Nat \ {0}]
        /\ DOMAIN ruleStates \subseteq DOMAIN ruleStates \cup {Place(f)}
        /\ Kind[f.rule] \notin NoState
    BY <1>1, <1>2, <1>3, <1>4, Positions DEF Parallel, NoState
  <2> QED
    BY <1>2, <1>4, <1>5, <1>7, <1>8, <1>9, <2>1, <2>2, PlainChange
<1>11. Popped(t, stack') /\ e = t[Len(t)]
  <2>1. Popped(stack, stack')
    BY <1>1, <1>2, FrontPops
  <2> QED
    BY <1>4, <1>6, <2>1 DEF Popped, Changed
<1>12. /\ ruleStates' \in [DOMAIN ruleStates' -> Nat \ {0}]
       /\ DOMAIN ruleStates' = DOMAIN ruleStates \ {Place(e)}
  <2>1. Place(e) = <<Top.rule, world'>>
    BY <1>2, <1>3, <1>4 DEF Place
  <2> QED
    BY <1>1, <2>1, Deleted
<1>13. State(r, stack', e.home, callbacks', lastRun, ruleStates')
  <2>1. e.at \notin {"round", "turn"} /\ e.home \in World
    BY <1>2, <1>4
  <2> QED
    BY <1>2, <1>5, <1>10, <1>11, <1>12, <2>1, PlainPop
<1> QED
  BY <1>1, <1>3, <1>4, <1>13 DEF Inv, State

LEMMA TakeTurnOK ==
  ASSUME NEW r \in Roots, Inv(r), NEW w \in World, TakeTurn(w)
  PROVE  Inv(r)'
<1> DEFINE n == Len(stack)
           f == stack[n]
           rules == f.todo[w]
           v == IF Kind[f.rule] = "parallelfor" THEN w ELSE world
           rnd == (IF f.round = {} THEN DOMAIN f.todo ELSE f.round) \ {w}
           todo2 == [f.todo EXCEPT ![w] = Rest(rules)]
           g == [f EXCEPT !.at = "turn", !.turn = w, !.todo = todo2, !.round = rnd]
           x == Frame(Last(rules), v)
           u == [stack EXCEPT ![Len(stack)] = g]
<1>1. /\ stack # <<>> /\ Top.at = "round" /\ Kind[Top.rule] \in Parallel /\ ~crashed
      /\ w \in IF Top.round = {} THEN DOMAIN Top.todo ELSE Top.round
      /\ UNCHANGED <<callbacks, ruleStates, lastRun, crashed>>
  BY DEF TakeTurn, Running
<1>2. /\ Nest(stack, r) /\ r \in Rule /\ stack \in Seq(Calls) /\ n \in 1..n /\ n \in Nat
      /\ f = Top /\ f \in Calls /\ f.rule \in Rule /\ CallOK(f, r)
      /\ f.home \in World /\ stack[Len(stack)] = f
  BY <1>1, TopCall DEF Inv, Top
<1>3. world' = v /\ stack' = Append(u, x)
  BY <1>2 DEF TakeTurn
<1>4. w \in DOMAIN f.todo /\ f.at = "round"
  BY <1>1, <1>2 DEF CallOK
<1>5. PICK D \in SUBSET Nat : f.todo \in [D -> Seq(Rule)]
  BY <1>2 DEF Calls, Todos
<1>6. rules \in Seq(Rule) /\ rules # <<>> /\ \A m \in 1..Len(rules) : Within(rules[m], f.rule)
  BY <1>2, <1>4, <1>5 DEF CallOK
<1> DEFINE rest == Rest(rules)
<1>7. /\ rest \in Seq(Rule) /\ Len(rest) = Len(rules) - 1 /\ Len(rules) \in Nat \ {0}
      /\ \A i \in 1..(Len(rules) - 1) : rest[i] = rules[i]
      /\ Last(rules) = rules[Len(rules)] /\ Last(rules) \in Rule
  <2> HIDE DEF rules
  <2> QED
    BY <1>6, OneLess DEF Rest
<1>8. todo2 = [f.todo EXCEPT ![w] = rest]
  OBVIOUS
<1> HIDE DEF rest, todo2
<1>9. /\ todo2 \in Todos /\ DOMAIN todo2 = DOMAIN f.todo /\ todo2[w] = rest
      /\ \A y \in DOMAIN f.todo : y # w => todo2[y] = f.todo[y]
  <2>1. todo2 \in [D -> Seq(Rule)]
    BY <1>5, <1>7, <1>8
  <2>2. todo2 \in Todos
    BY <2>1 DEF Todos
  <2> QED
    BY <1>4, <1>5, <1>8, <2>2
<1>10. rnd \in SUBSET Nat /\ rnd \subseteq DOMAIN f.todo /\ w \notin rnd
  <2>1. f.round \in SUBSET Nat /\ DOMAIN f.todo \in SUBSET Nat /\ f.round \subseteq DOMAIN f.todo
    BY <1>2, <1>5 DEF Calls, CallOK
  <2> QED
    BY <2>1
<1> HIDE DEF f, rnd
<1>11. /\ g \in Calls /\ g.rule = f.rule /\ g.home = f.home /\ g.at = "turn" /\ g.turn = w
       /\ g.todo = todo2 /\ g.round = rnd
  BY <1>2, <1>9, <1>10 DEF Calls
<1>12. v \in World
  BY DEF Inv
<1>13. Within(Last(rules), f.rule)
  <2>1. Len(rules) \in 1..Len(rules)
    BY <1>7
  <2> QED
    BY <1>6, <1>7, <2>1
<1>14. /\ x \in Calls /\ x.rule = Last(rules) /\ x.home = v
       /\ x.at = "enter" /\ DOMAIN x.todo = {} /\ x.round = {}
  BY <1>7, <1>12, NewCall
<1> HIDE DEF g, x
<1>15. Changed(stack, u, g)
  BY <1>1, <1>2, <1>11, ExceptChanges
<1>16. u \in Seq(Calls) /\ u # <<>> /\ Len(u) = n /\ u[n] = g
       /\ \A a \in 1..n : a # n => u[a] = stack[a]
  BY <1>2, <1>15 DEF Changed
<1> HIDE DEF u
<1>17. Pushed(u, stack', x)
  BY <1>3, <1>14, <1>16, AppendPushes
<1>18. /\ Len(stack') = n + 1 /\ stack'[n + 1] = x /\ stack'[n] = g
       /\ \A a \in 1..n : a # n => stack'[a] = stack[a]
  <2>1. Len(stack') = n + 1 /\ \A a \in 1..(n + 1) : stack'[a] = IF a = n + 1 THEN x ELSE u[a]
    BY <1>16, <1>17 DEF Pushed
  <2>2. \A a \in 1..n : a \in 1..(n + 1) /\ a # n + 1
    BY <1>2
  <2>3. n + 1 \in 1..(n + 1)
    BY <1>2
  <2> HIDE DEF n
  <2> QED
    BY <1>2, <1>16, <2>1, <2>2, <2>3
<1> HIDE DEF n
<1>19. \A a \in 1..Len(stack') : a = n + 1 \/ (a \in 1..n /\ a # n + 1)
  BY <1>2, <1>18
<1>20. \A a \in 1..n : a \in 1..Len(stack')
  BY <1>2, <1>18
<1>21. n + 1 \in 1..Len(stack')
  BY <1>2, <1>18
<1>22. Len(stack) = n /\ f = stack[n] /\ f = Top
  BY <1>2 DEF n, f
<1>23. Forks(f) /\ Forks(g)
  BY <1>1, <1>11, <1>22 DEF Forks
<1>24. CallOK(g, r)
  <2>1. g.rule \in Inside[r] /\ (g.home = 0 \/ InParallelFor(g.rule))
    BY <1>2, <1>11 DEF CallOK
  <2>2. ASSUME NEW y \in DOMAIN g.todo
        PROVE  /\ (g.at = "turn" /\ g.turn = y) \/ g.todo[y] # <<>>
               /\ \A m \in 1..Len(g.todo[y]) : Within(g.todo[y][m], g.rule)
    <3>1. CASE y = w
      <4>1. \A m \in 1..Len(rest) : m \in 1..Len(rules) /\ rest[m] = rules[m]
        BY <1>7
      <4> QED
        BY <1>6, <1>9, <1>11, <3>1, <4>1
    <3>2. CASE y # w
      <4>1. g.todo[y] = f.todo[y] /\ y \in DOMAIN f.todo
        BY <1>9, <1>11, <3>2
      <4> QED
        BY <1>2, <1>4, <1>11, <4>1 DEF CallOK
    <3> QED
      BY <3>1, <3>2
  <2>3. g.round \subseteq DOMAIN g.todo /\ g.turn \in DOMAIN g.todo \ g.round
    BY <1>4, <1>9, <1>10, <1>11
  <2> QED
    BY <1>11, <1>23, <2>1, <2>2, <2>3 DEF CallOK
<1>25. HomeIn(g) = v
  <2>1. Kind[f.rule] # "parallelfor" => world = f.home
    BY <1>1, <1>22 DEF Inv, WorldOK, n
  <2> QED
    BY <1>11, <2>1 DEF HomeIn
<1>26. Nest(u, r)
  BY <1>2, <1>11, <1>15, <1>24, NestChanged
<1>27. Nest(stack', r)
  <2>1. /\ Within(x.rule, u[Len(u)].rule) /\ u[Len(u)].at # "enter"
        /\ u[Len(u)].at = "turn" /\ x.home = HomeIn(u[Len(u)])
    BY <1>11, <1>13, <1>14, <1>16, <1>25
  <2> QED
    BY <1>2, <1>14, <1>17, <1>26, <2>1, NestPushed
<1>28. WorldOK(stack', world') /\ world' \in World
  <2>1. stack' # <<>> /\ stack'[Len(stack')] = x
    BY <1>2, <1>18
  <2> QED
    BY <1>3, <1>12, <1>14, <2>1 DEF WorldOK
<1>29. Registered(f) /\ Registered(g) /\ ~Registered(x)
  BY <1>4, <1>11, <1>14, <1>23 DEF Registered
<1>30. \A a \in 1..n : stack'[a].rule = stack[a].rule /\ Place(stack'[a]) = Place(stack[a])
                       /\ (Registered(stack'[a]) <=> Registered(stack[a]))
  BY <1>11, <1>18, <1>22, <1>29 DEF Place
<1>31. \A a \in 1..Len(stack') : Registered(stack'[a]) => a \in 1..n
  BY <1>18, <1>19, <1>29
<1>32. Listed(stack', callbacks)
  <2>1. Listed(stack, callbacks)
    BY DEF Inv
  <2> QED
    BY <1>20, <1>22, <1>30, <1>31, <2>1, ListedSame
<1>33. SuspendedOK(stack, lastRun)
  BY DEF Inv
<1>34. f.rule \in Rule /\ Place(f) \in ParallelKeys /\ Place(g) = Place(f)
  BY <1>2, <1>11, <1>23 DEF Place, ParallelKeys, Forks
<1>35. lastRun[Place(f)] = <<>>
  <2> SUFFICES ASSUME lastRun[Place(f)] # <<>> PROVE FALSE
    OBVIOUS
  <2>1. PICK a \in 1..Len(stack) : stack[a].at = "turn" /\ Place(f) = Place(stack[a])
    BY <1>33, <1>34 DEF SuspendedOK
  <2>2. f.rule = stack[a].rule
    BY <2>1 DEF Place
  <2>3. a = n
    BY <1>2, <1>22, <2>2, OneCall
  <2> QED
    BY <1>4, <1>22, <2>1, <2>3
<1>36. SuspendedOK(stack', lastRun)
  <2>1. \A k \in ParallelKeys : lastRun[k] # <<>> =>
           \E a \in 1..Len(stack') : stack'[a].at = "turn" /\ k = Place(stack'[a])
    <3> SUFFICES ASSUME NEW k \in ParallelKeys, lastRun[k] # <<>>
                 PROVE  \E a \in 1..Len(stack') : stack'[a].at = "turn" /\ k = Place(stack'[a])
      OBVIOUS
    <3>1. PICK a \in 1..n : stack[a].at = "turn" /\ k = Place(stack[a])
      BY <1>22, <1>33 DEF SuspendedOK
    <3>2. a # n
      BY <1>4, <1>22, <3>1
    <3> QED
      BY <1>18, <1>20, <3>1, <3>2
  <2>2. ASSUME NEW a \in 1..Len(stack'), stack'[a].at = "turn",
               NEW m \in 1..Len(lastRun[Place(stack'[a])])
        PROVE  Within(lastRun[Place(stack'[a])][m], stack'[a].rule)
    <3>1. a \in 1..n
      BY <1>14, <1>18, <1>19, <2>2
    <3>2. a # n
      <4>1. m \notin 1..Len(<<>>)
        OBVIOUS
      <4> QED
        BY <1>18, <1>34, <1>35, <2>2, <4>1
    <3> QED
      BY <1>18, <1>22, <1>33, <2>2, <3>1, <3>2 DEF SuspendedOK
  <2> QED
    BY <1>33, <2>1, <2>2 DEF SuspendedOK
<1>37. ASSUME NEW k, OwnedBy(f, lastRun, k)
       PROVE  OwnedBy(g, lastRun, k) \/ OwnedBy(x, lastRun, k)
  <2>1. CASE k = Place(f)
    BY <1>34, <2>1 DEF OwnedBy
  <2>2. ASSUME NEW y \in DOMAIN f.todo, NEW m \in 1..Len(f.todo[y]),
               k = <<f.todo[y][m], WorldOf(f, y)>>
        PROVE  OwnedBy(g, lastRun, k) \/ OwnedBy(x, lastRun, k)
    <3>1. WorldOf(g, y) = WorldOf(f, y) /\ y \in DOMAIN g.todo
      BY <1>9, <1>11 DEF WorldOf
    <3>2. CASE y # w
      <4>1. g.todo[y] = f.todo[y]
        BY <1>9, <1>11, <3>2
      <4> QED
        BY <2>2, <3>1, <4>1 DEF OwnedBy
    <3>3. CASE y = w /\ m # Len(rules)
      <4>1. m \in 1..Len(rest) /\ rest[m] = f.todo[y][m]
        <5>1. m \in 1..Len(rules) /\ f.todo[y][m] = rules[m]
          BY <2>2, <3>3
        <5>2. m \in 1..(Len(rules) - 1)
          <6> HIDE DEF rules
          <6> QED
            BY <1>7, <3>3, <5>1
        <5> QED
          BY <1>7, <5>1, <5>2
      <4>2. g.todo[y] = rest
        BY <1>9, <1>11, <3>3
      <4>3. m \in 1..Len(g.todo[y]) /\ k = <<g.todo[y][m], WorldOf(g, y)>>
        BY <2>2, <3>1, <4>1, <4>2
      <4> QED
        BY <3>1, <4>3 DEF OwnedBy
    <3>4. CASE y = w /\ m = Len(rules)
      <4>1. f.todo[y][m] = x.rule
        BY <1>7, <1>14, <3>4
      <4>2. WorldOf(f, y) = x.home
        <5>1. WorldOf(f, y) = HomeIn(g)
          BY <1>11, <3>4 DEF WorldOf, HomeIn
        <5> QED
          BY <1>14, <1>25, <5>1
      <4>3. k = Place(x)
        BY <2>2, <4>1, <4>2 DEF Place
      <4> QED
        BY <4>3 DEF OwnedBy
    <3> QED
      BY <3>2, <3>3, <3>4
  <2> QED
    BY <1>4, <1>37, <2>1, <2>2 DEF OwnedBy
<1>38. StatesOwned(stack', lastRun, ruleStates)
  <2>1. ASSUME NEW k, Owned(stack, lastRun, k) PROVE Owned(stack', lastRun, k)
    <3>1. PICK a \in 1..n : OwnedBy(stack[a], lastRun, k)
      BY <1>22, <2>1 DEF Owned
    <3>2. CASE a = n
      <4>1. OwnedBy(g, lastRun, k) \/ OwnedBy(x, lastRun, k)
        BY <1>22, <1>37, <3>1, <3>2
      <4>2. n \in 1..Len(stack')
        BY <1>2, <1>20
      <4> QED
        BY <1>18, <1>21, <4>1, <4>2 DEF Owned
    <3>3. CASE a # n
      BY <1>18, <1>20, <3>1, <3>3 DEF Owned
    <3> QED
      BY <3>2, <3>3
  <2> QED
    BY <2>1 DEF Inv, StatesOwned
<1>39. StatesHeld(stack', ruleStates)
  BY <1>22, <1>30, <1>31 DEF Inv, StatesHeld
<1> QED
  BY <1>1, <1>27, <1>28, <1>32, <1>36, <1>38, <1>39 DEF Inv

LEMMA EndTurnOK ==
  ASSUME NEW r \in Roots, Inv(r), EndTurn
  PROVE  Inv(r)'
<1> DEFINE n == Len(stack)
           f == stack[n]
           k0 == Place(f)
           u == lastRun[k0]
           rules == f.todo[f.turn] \o Resumed(u)
           left == IF rules = <<>> THEN DOMAIN f.todo \ {f.turn} ELSE DOMAIN f.todo
           todo2 == [w \in left |-> IF w = f.turn THEN rules ELSE f.todo[w]]
           g == [f EXCEPT !.at = "round", !.turn = 0, !.todo = todo2]
<1>1. /\ stack # <<>> /\ Top.at = "turn" /\ Kind[Top.rule] \in Parallel /\ ~crashed
      /\ UNCHANGED <<callbacks, world, ruleStates, crashed>>
  BY DEF EndTurn, Running
<1>2. /\ Nest(stack, r) /\ r \in Rule /\ stack \in Seq(Calls) /\ n \in 1..n /\ n \in Nat
      /\ f = Top /\ f \in Calls /\ f.rule \in Rule /\ CallOK(f, r)
      /\ f.home \in World /\ Held = k0 /\ stack[Len(stack)] = f
  BY <1>1, TopCall DEF Inv, Top, Held, Place
<1>3. stack' = [stack EXCEPT ![Len(stack)] = g] /\ lastRun' = [lastRun EXCEPT ![k0] = <<>>]
  BY <1>2 DEF EndTurn
<1>4. f.at = "turn" /\ Forks(f) /\ f.turn \in DOMAIN f.todo \ f.round /\ Registered(f)
  BY <1>1, <1>2 DEF CallOK, Forks, Registered
<1>5. PICK D \in SUBSET Nat : f.todo \in [D -> Seq(Rule)]
  BY <1>2 DEF Calls, Todos
<1>6. SuspendedOK(stack, lastRun) /\ lastRun \in [ParallelKeys -> Seq(Rule)]
  BY DEF Inv, SuspendedOK
<1>7. k0 \in ParallelKeys /\ u \in Seq(Rule)
  <2>1. k0 \in ParallelKeys
    BY <1>2, <1>4 DEF Place, ParallelKeys, Forks
  <2> QED
    BY <1>6, <2>1
<1>8. \A m \in 1..Len(u) : Within(u[m], f.rule)
  BY <1>2, <1>4, <1>6 DEF SuspendedOK
<1> DEFINE old == f.todo[f.turn]
           new == Resumed(u)
<1>9. old \in Seq(Rule) /\ \A m \in 1..Len(old) : Within(old[m], f.rule)
  BY <1>2, <1>4, <1>5 DEF CallOK
<1>10. /\ new \in Seq(Rule) /\ Len(new) = Len(u)
       /\ \A m \in 1..Len(u) : (Len(u) - m) + 1 \in 1..Len(u) /\ new[(Len(u) - m) + 1] = u[m]
       /\ \A m \in 1..Len(u) : (Len(u) - m) + 1 \in 1..Len(u) /\ new[m] = u[(Len(u) - m) + 1]
  <2> HIDE DEF u
  <2> QED
    BY <1>7, Turned DEF Resumed
<1>11. \A m \in 1..Len(new) : Within(new[m], f.rule)
  <2> HIDE DEF u, new
  <2> QED
    BY <1>8, <1>10
<1>12. rules = old \o new
  OBVIOUS
<1> HIDE DEF u, old, new, rules
<1>13. /\ rules \in Seq(Rule)
       /\ \A i \in 1..Len(rules) :
             \/ i \in 1..Len(old) /\ rules[i] = old[i]
             \/ i - Len(old) \in 1..Len(new) /\ rules[i] = new[i - Len(old)]
       /\ \A i \in 1..Len(old) : i \in 1..Len(rules) /\ rules[i] = old[i]
       /\ \A i \in 1..Len(new) : Len(old) + i \in 1..Len(rules)
                                 /\ rules[Len(old) + i] = new[i]
       /\ rules = <<>> => old = <<>> /\ new = <<>>
  BY <1>9, <1>10, <1>12, Joined
<1>14. \A m \in 1..Len(rules) : Within(rules[m], f.rule)
  BY <1>9, <1>11, <1>13
<1>15. /\ left \subseteq DOMAIN f.todo /\ DOMAIN f.todo \subseteq Nat
       /\ \A w \in DOMAIN f.todo : w # f.turn => w \in left
       /\ f.turn \in left <=> rules # <<>>
  BY <1>4, <1>5
<1>16. /\ DOMAIN todo2 = left
       /\ \A w \in left : todo2[w] = IF w = f.turn THEN rules ELSE f.todo[w]
  OBVIOUS
<1>17. todo2 \in Todos
  <2>1. \A w \in left : (IF w = f.turn THEN rules ELSE f.todo[w]) \in Seq(Rule)
    BY <1>5, <1>13, <1>15
  <2>2. left \in SUBSET Nat
    BY <1>15
  <2> HIDE DEF left
  <2>3. todo2 \in [left -> Seq(Rule)]
    BY <2>1
  <2> QED
    BY <2>2, <2>3 DEF Todos
<1> HIDE DEF f, todo2, left
<1>18. /\ g \in Calls /\ g.rule = f.rule /\ g.home = f.home /\ g.at = "round"
       /\ g.todo = todo2 /\ g.round = f.round
  <2>1. 0 \in World
    BY RulesAssumption DEF World
  <2> QED
    BY <1>2, <1>17, <2>1 DEF Calls
<1> HIDE DEF g
<1>19. Changed(stack, stack', g)
  BY <1>1, <1>2, <1>3, <1>18, ExceptChanges
<1>20. /\ Len(stack') = n /\ stack'[n] = g
       /\ \A a \in 1..n : a # n => stack'[a] = stack[a]
  BY <1>2, <1>19 DEF Changed
<1>21. Len(stack) = n /\ f = stack[n]
  BY DEF f
<1> HIDE DEF n
<1>22. Forks(g) /\ Registered(g) /\ Place(g) = k0
  BY <1>4, <1>18 DEF Forks, Registered, Place
<1>23. CallOK(g, r)
  <2>1. g.rule \in Inside[r] /\ (g.home = 0 \/ InParallelFor(g.rule))
    BY <1>2, <1>18 DEF CallOK
  <2>2. ASSUME NEW y \in DOMAIN g.todo
        PROVE  g.todo[y] # <<>> /\ \A m \in 1..Len(g.todo[y]) : Within(g.todo[y][m], g.rule)
    <3>1. y \in left /\ y \in DOMAIN f.todo
      BY <1>15, <1>16, <1>18
    <3>2. CASE y = f.turn
      BY <1>14, <1>15, <1>16, <1>18, <3>1, <3>2
    <3>3. CASE y # f.turn
      <4>1. g.todo[y] = f.todo[y]
        BY <1>16, <1>18, <3>1, <3>3
      <4> QED
        BY <1>2, <1>18, <3>1, <3>3, <4>1 DEF CallOK
    <3> QED
      BY <3>2, <3>3
  <2>3. g.round \subseteq DOMAIN g.todo
    <3>1. f.round \subseteq DOMAIN f.todo /\ f.turn \notin f.round
      BY <1>2, <1>4 DEF CallOK
    <3> QED
      BY <1>15, <1>16, <1>18, <3>1
  <2> QED
    BY <1>18, <1>22, <2>1, <2>2, <2>3 DEF CallOK
<1>24. Nest(stack', r)
  BY <1>2, <1>18, <1>19, <1>23, NestChanged
<1>25. WorldOK(stack', world) /\ world \in World
  <2>1. stack' # <<>> /\ stack'[Len(stack')] = g
    BY <1>2, <1>19, <1>20, EmptyIff DEF Changed
  <2>2. Kind[f.rule] # "parallelfor" => world = f.home
    BY <1>1, <1>21 DEF Inv, WorldOK, n
  <2> QED
    BY <1>18, <2>1, <2>2 DEF WorldOK, Inv
<1>26. \A a \in 1..n : stack'[a].rule = stack[a].rule /\ Place(stack'[a]) = Place(stack[a])
                       /\ (Registered(stack'[a]) <=> Registered(stack[a]))
  BY <1>4, <1>18, <1>20, <1>21, <1>22 DEF Place
<1>27. Listed(stack', callbacks)
  <2>1. Listed(stack, callbacks)
    BY DEF Inv
  <2> QED
    BY <1>20, <1>21, <1>26, <2>1, ListedSame
<1>28. /\ lastRun' \in [ParallelKeys -> Seq(Rule)] /\ lastRun'[k0] = <<>>
       /\ \A k \in ParallelKeys : k # k0 => lastRun'[k] = lastRun[k]
  <2>1. <<>> \in Seq(Rule)
    OBVIOUS
  <2> HIDE DEF k0
  <2> QED
    BY <1>3, <1>6, <1>7, <2>1
<1>29. \A a \in 1..n : stack[a].at = "turn" /\ a # n => lastRun'[Place(stack[a])] = lastRun[Place(stack[a])]
  <2> SUFFICES ASSUME NEW a \in 1..n, stack[a].at = "turn", a # n
               PROVE  lastRun'[Place(stack[a])] = lastRun[Place(stack[a])]
    OBVIOUS
  <2>1. stack[a].rule # f.rule
    BY <1>2, <1>21, OneCall
  <2>2. stack[a] \in Calls /\ Forks(stack[a])
    BY <1>2, <1>21 DEF Nest, CallOK
  <2>3. Place(stack[a]) \in ParallelKeys
    BY <2>2 DEF Place, ParallelKeys, Forks, Calls
  <2>4. Place(stack[a]) # k0
    BY <2>1 DEF Place
  <2> QED
    BY <1>28, <2>3, <2>4
<1>30. SuspendedOK(stack', lastRun')
  <2>1. \A k \in ParallelKeys : lastRun'[k] # <<>> =>
           \E a \in 1..Len(stack') : stack'[a].at = "turn" /\ k = Place(stack'[a])
    <3> SUFFICES ASSUME NEW k \in ParallelKeys, lastRun'[k] # <<>>
                 PROVE  \E a \in 1..Len(stack') : stack'[a].at = "turn" /\ k = Place(stack'[a])
      OBVIOUS
    <3>1. k # k0 /\ lastRun[k] # <<>>
      BY <1>28
    <3>2. PICK a \in 1..n : stack[a].at = "turn" /\ k = Place(stack[a])
      BY <1>6, <1>21, <3>1 DEF SuspendedOK
    <3>3. a # n
      BY <1>21, <3>1, <3>2
    <3> QED
      BY <1>20, <3>2, <3>3
  <2>2. ASSUME NEW a \in 1..Len(stack'), stack'[a].at = "turn",
               NEW m \in 1..Len(lastRun'[Place(stack'[a])])
        PROVE  Within(lastRun'[Place(stack'[a])][m], stack'[a].rule)
    <3>1. a \in 1..n /\ a # n /\ stack'[a] = stack[a]
      BY <1>18, <1>20, <2>2
    <3>2. lastRun'[Place(stack[a])] = lastRun[Place(stack[a])]
      BY <1>29, <2>2, <3>1
    <3> QED
      BY <1>6, <1>21, <2>2, <3>1, <3>2 DEF SuspendedOK
  <2> QED
    BY <1>28, <2>1, <2>2 DEF SuspendedOK
<1>31. ASSUME NEW k, OwnedBy(f, lastRun, k)
       PROVE  OwnedBy(g, lastRun', k)
  <2>1. CASE k = k0
    BY <1>22, <2>1 DEF OwnedBy
  <2>2. ASSUME NEW y \in DOMAIN f.todo, NEW m \in 1..Len(f.todo[y]),
               k = <<f.todo[y][m], WorldOf(f, y)>>
        PROVE  OwnedBy(g, lastRun', k)
    <3>1. WorldOf(g, y) = WorldOf(f, y)
      BY <1>18 DEF WorldOf
    <3>2. CASE y # f.turn
      <4>1. y \in DOMAIN g.todo /\ g.todo[y] = f.todo[y]
        BY <1>15, <1>16, <1>18, <3>2
      <4> QED
        BY <2>2, <3>1, <4>1 DEF OwnedBy
    <3>3. CASE y = f.turn
      <4>1. m \in 1..Len(old) /\ f.todo[y][m] = old[m]
        BY <2>2, <3>3 DEF old
      <4>2. m \in 1..Len(rules) /\ rules[m] = old[m]
        BY <1>13, <4>1
      <4>3. rules # <<>>
        <5>1. 1..Len(<<>>) = {}
          OBVIOUS
        <5> QED
          BY <4>2, <5>1
      <4>4. y \in DOMAIN g.todo /\ g.todo[y] = rules
        BY <1>15, <1>16, <1>18, <3>3, <4>3
      <4>5. m \in 1..Len(g.todo[y]) /\ k = <<g.todo[y][m], WorldOf(g, y)>>
        BY <2>2, <3>1, <4>1, <4>2, <4>4
      <4> QED
        BY <4>4, <4>5 DEF OwnedBy
    <3> QED
      BY <3>2, <3>3
  <2>3. ASSUME NEW m \in 1..Len(u), k = <<u[m], HomeIn(f)>>
        PROVE  OwnedBy(g, lastRun', k)
    <3> DEFINE j == (Len(u) - m) + 1
               i == Len(old) + j
    <3>1. j \in 1..Len(new) /\ new[j] = u[m]
      BY <1>10
    <3> HIDE DEF j
    <3>2. i \in 1..Len(rules) /\ rules[i] = new[j]
      BY <1>13, <3>1
    <3> HIDE DEF i
    <3>3. rules # <<>>
      <4>1. 1..Len(<<>>) = {}
        OBVIOUS
      <4> QED
        BY <3>2, <4>1
    <3>4. f.turn \in DOMAIN g.todo /\ g.todo[f.turn] = rules
      BY <1>15, <1>16, <1>18, <3>3
    <3>5. WorldOf(g, f.turn) = HomeIn(f)
      BY <1>18 DEF WorldOf, HomeIn
    <3>6. i \in 1..Len(g.todo[f.turn]) /\ k = <<g.todo[f.turn][i], WorldOf(g, f.turn)>>
      BY <2>3, <3>1, <3>2, <3>4, <3>5
    <3> QED
      BY <3>4, <3>6 DEF OwnedBy
  <2> QED
    BY <1>31, <2>1, <2>2, <2>3 DEF OwnedBy, u
<1>32. StatesOwned(stack', lastRun', ruleStates)
  <2>1. ASSUME NEW k, Owned(stack, lastRun, k) PROVE Owned(stack', lastRun', k)
    <3>1. PICK a \in 1..n : OwnedBy(stack[a], lastRun, k)
      BY <1>21, <2>1 DEF Owned
    <3>2. CASE a = n
      BY <1>20, <1>21, <1>31, <3>1, <3>2 DEF Owned
    <3>3. CASE a # n
      <4>1. OwnedBy(stack[a], lastRun', k)
        BY <1>29, <3>1, <3>3 DEF OwnedBy
      <4> QED
        BY <1>20, <3>3, <4>1 DEF Owned
    <3> QED
      BY <3>2, <3>3
  <2> QED
    BY <2>1 DEF Inv, StatesOwned
<1>33. StatesHeld(stack', ruleStates)
  BY <1>20, <1>21, <1>26 DEF Inv, StatesHeld
<1> QED
  BY <1>1, <1>24, <1>25, <1>27, <1>30, <1>32, <1>33 DEF Inv

-----------------------------------------------------------------------------
(* The first call, in every game *)

LEMMA FirstKind ==
  ASSUME NEW r \in Roots, NEW s, First(s, r), s # <<>>
  PROVE  /\ s[1].rule = r /\ Len(s) \in Nat \ {0}
         /\ Kind[s[Len(s)].rule] # "list" => Len(s) # 1
<1>1. s[1].rule = r /\ Kind[r] = "list"
  BY RulesAssumption DEF First, RootCalls
<1>2. PICK T : s \in Seq(T)
  BY DEF First
<1>3. Len(s) \in Nat \ {0}
  BY <1>2
<1> QED
  BY <1>1, <1>3

LEMMA FirstPop ==
  ASSUME NEW r \in Roots, NEW s, First(s, r), s # <<>>
  PROVE  First(Front(s), r)
<1>1. PICK T : s \in Seq(T)
  BY DEF First
<1> DEFINE t == Front(s)
<1>2. /\ t \in Seq(T) /\ Len(t) = Len(s) - 1 /\ Len(s) \in Nat \ {0}
      /\ \A i \in 1..(Len(s) - 1) : t[i] = s[i]
  BY <1>1, OneLess
<1> HIDE DEF t
<1>3. t # <<>> => t[1] = s[1]
  BY <1>2, EmptyIff
<1>4. First(t, r)
  BY <1>2, <1>3 DEF First
<1> QED
  BY <1>4 DEF t

LEMMA FirstAppend ==
  ASSUME NEW r \in Roots, NEW s, First(s, r), s # <<>>, NEW x
  PROVE  First(Append(s, x), r) /\ Append(s, x) # <<>>
<1>1. PICK T : s \in Seq(T)
  BY DEF First
<1>2. s \in Seq(T \cup {x}) /\ x \in T \cup {x}
  BY <1>1, SeqMonotonic
<1> DEFINE t == Append(s, x)
           U == T \cup {x}
<1> HIDE DEF U
<1>3. t \in Seq(U) /\ t # <<>> /\ Len(s) \in Nat /\ \A i \in 1..Len(s) : t[i] = s[i]
  BY <1>2, OneMore DEF U
<1>4. t[1] = s[1]
  BY <1>1, <1>3, EmptyIff
<1> HIDE DEF t
<1>5. First(t, r)
  BY <1>3, <1>4 DEF First
<1> QED
  BY <1>3, <1>5 DEF t

LEMMA FirstExcept ==
  ASSUME NEW r \in Roots, NEW s, First(s, r), s # <<>>, NEW g,
         Len(s) = 1 => g \in RootCalls(r)
  PROVE  First([s EXCEPT ![Len(s)] = g], r) /\ [s EXCEPT ![Len(s)] = g] # <<>>
<1>1. PICK T : s \in Seq(T)
  BY DEF First
<1> DEFINE t == [s EXCEPT ![Len(s)] = g]
           U == T \cup {g}
<1>2. s \in Seq(U) /\ g \in U
  BY <1>1, SeqMonotonic
<1> HIDE DEF U
<1>3. /\ t \in Seq(U) /\ t # <<>> /\ Len(s) \in Nat \ {0} /\ t[Len(s)] = g
      /\ \A i \in 1..Len(s) : i # Len(s) => t[i] = s[i]
  BY <1>2, LastChanged
<1> HIDE DEF t
<1>4. Len(s) = 1 => t[1] = g
  BY <1>3
<1>5. Len(s) # 1 => t[1] = s[1]
  <2>1. Len(s) # 1 => 1 \in 1..Len(s)
    BY ONLY <1>3
  <2> QED
    BY <1>3, <2>1
<1>6. First(t, r)
  BY <1>3, <1>4, <1>5 DEF First
<1> QED
  BY <1>3, <1>6 DEF t

LEMMA FirstGo ==
  ASSUME NEW r \in Roots, NEW s, First(s, r), s # <<>>,
         NEW p \in {"enter", "check", "timed", "pad"}
  PROVE  First([s EXCEPT ![Len(s)].at = p], r) /\ [s EXCEPT ![Len(s)].at = p] # <<>>
<1> DEFINE f == s[Len(s)]
           g == [f EXCEPT !.at = p]
<1>1. Len(s) = 1 => g \in RootCalls(r)
  BY DEF First, RootCalls
<1>2. [s EXCEPT ![Len(s)].at = p] = [s EXCEPT ![Len(s)] = g]
  OBVIOUS
<1> HIDE DEF g
<1> QED
  BY <1>1, <1>2, FirstExcept

\* Every step keeps the invariant of a calm game.
LEMMA InvStays ==
  ASSUME NEW r \in Roots, Calm(r), Inv(r), [Next]_vars
  PROVE  Inv(r)'
<1>1. CASE Iterate
  BY <1>1, IterateOK
<1>2. CASE EndIterate
  BY <1>2, EndIterateOK
<1>3. CASE LoopAgain
  BY <1>3, LoopAgainOK
<1>4. CASE LoopEnd
  BY <1>4, LoopEndOK
<1>5. CASE ChooseCase
  BY <1>5, ChooseCaseOK
<1>6. CASE Perform
  BY <1>6, PerformOK
<1>7. CASE Poll
  BY <1>7, PollOK
<1>8. CASE InputEnds
  BY <1>8, InputEndsOK
<1>9. CASE CheckPasses
  BY <1>9, CheckPassesOK
<1>10. CASE Suspend
  BY <1>10, SuspendOK
<1>11. CASE CutOff
  BY <1>11, CutOffOK
<1>12. CASE CheckCrashes
  BY <1>12, CheckCrashesNever
<1>13. CASE StartTimer
  BY <1>13, StartTimerOK
<1>14. CASE EndTimer
  BY <1>14, EndTimerOK
<1>15. CASE StartPadding
  BY <1>15, StartPaddingOK
<1>16. CASE Pad
  BY <1>16, PadOK
<1>17. CASE EndPadding
  BY <1>17, EndPaddingOK
<1>18. CASE Fork
  BY <1>18, ForkOK
<1>19. CASE \E w \in World : TakeTurn(w)
  BY <1>19, TakeTurnOK
<1>20. CASE EndTurn
  BY <1>20, EndTurnOK
<1>21. CASE Join
  BY <1>21, JoinOK
<1>22. CASE (\E k \in TimerKeys : Expire(k)) \/ Done \/ UNCHANGED vars
  BY <1>22 DEF Expire, Done, vars, Inv
<1> QED
  BY <1>1, <1>2, <1>3, <1>4, <1>5, <1>6, <1>7, <1>8, <1>9, <1>10, <1>11, <1>12,
     <1>13, <1>14, <1>15, <1>16, <1>17, <1>18, <1>19, <1>20, <1>21, <1>22
     DEF Next, Run

\* No step changes which game is played.
LEMMA FirstStays ==
  ASSUME NEW r \in Roots, First(stack, r), stack = <<>> => ~crashed, [Next]_vars
  PROVE  First(stack', r) /\ (stack' = <<>> => ~crashed')
<1> DEFINE n == Len(stack)
           Good == First(stack', r) /\ (stack' = <<>> => ~crashed')
<1>1. ASSUME stack # <<>>, NEW k, Running(k, "enter") \/ Running(k, "round") \/ Running(k, "turn"),
             "list" \notin k
      PROVE  n # 1
  BY <1>1, FirstKind DEF Running, Top, Last
<1>2. CASE \/ EndIterate \/ LoopEnd \/ Perform \/ InputEnds \/ Suspend \/ CutOff
           \/ EndTimer \/ EndPadding \/ Join
  BY <1>2, FirstPop DEF EndIterate, LoopEnd, Perform, InputEnds, Suspend, CutOff,
     EndTimer, EndPadding, Join, Return, Running
<1>3. CASE Poll \/ CheckPasses \/ StartPadding \/ Pad
  <2>1. PICK p \in {"enter", "check", "timed", "pad"} :
           stack # <<>> /\ stack' = [stack EXCEPT ![Len(stack)].at = p]
    BY <1>3 DEF Poll, CheckPasses, StartPadding, Pad, GoTo, Running, AfterPoll
  <2> QED
    BY <2>1, FirstGo
<1>4. CASE Iterate \/ LoopAgain \/ StartTimer
  <2>1. PICK p \in {"check", "timed"}, q \in {Frame(Child(Top.rule, Position(Held)), world),
                                              Frame(Body[Top.rule][1], world)} :
           stack # <<>> /\ stack' = Append([stack EXCEPT ![Len(stack)].at = p], q)
    BY <1>4 DEF Iterate, LoopAgain, StartTimer, Call, Running
  <2> DEFINE t == [stack EXCEPT ![Len(stack)].at = p]
  <2>2. First(t, r) /\ t # <<>>
    <3>1. p \in {"enter", "check", "timed", "pad"}
      OBVIOUS
    <3> QED
      BY <2>1, <3>1, FirstGo
  <2> HIDE DEF t
  <2>3. First(Append(t, q), r) /\ Append(t, q) # <<>>
    BY <2>2, FirstAppend
  <2> QED
    BY <2>1, <2>3 DEF t
<1>5. CASE ChooseCase
  <2>1. stack # <<>> /\ n # 1 /\ ~crashed' /\ First(Front(stack), r)
    BY <1>1, <1>5, FirstPop DEF ChooseCase, Running
  <2>2. CASE stack' = Front(stack)
    BY <2>1, <2>2
  <2>3. CASE \E i \in 1..Len(Body[Top.rule]) :
                stack' = Append(Front(stack), Frame(Body[Top.rule][i], world))
    <3>1. PICK i \in 1..Len(Body[Top.rule]) :
             stack' = Append(Front(stack), Frame(Body[Top.rule][i], world))
      BY <2>3
    <3>2. Front(stack) # <<>>
      <4>1. PICK T : stack \in Seq(T)
        BY DEF First
      <4> QED
        BY <2>1, <4>1, OneLess
    <3> DEFINE x == Frame(Body[Top.rule][i], world)
    <3> HIDE DEF x
    <3>3. First(Append(Front(stack), x), r)
      BY <2>1, <3>2, FirstAppend
    <3> QED
      BY <2>1, <3>1, <3>3 DEF x
  <2> QED
    BY <1>5, <2>2, <2>3 DEF ChooseCase, Return
<1>6. CASE Fork \/ EndTurn
  <2>1. stack # <<>> /\ n # 1
    BY <1>1, <1>6 DEF Fork, EndTurn, Running, Parallel
  <2>2. PICK g : stack' = [stack EXCEPT ![Len(stack)] = g]
    BY <1>6 DEF Fork, EndTurn, Top, Last
  <2>3. First([stack EXCEPT ![Len(stack)] = g], r) /\ [stack EXCEPT ![Len(stack)] = g] # <<>>
    BY <2>1, FirstExcept
  <2> QED
    BY <2>2, <2>3
<1>7. CASE \E w \in World : TakeTurn(w)
  <2>1. stack # <<>> /\ n # 1
    BY <1>1, <1>7 DEF TakeTurn, Running, Parallel
  <2>2. PICK g, x : stack' = Append([stack EXCEPT ![Len(stack)] = g], x)
    BY <1>7 DEF TakeTurn
  <2> DEFINE t == [stack EXCEPT ![Len(stack)] = g]
  <2>3. First(t, r) /\ t # <<>>
    BY <2>1, FirstExcept
  <2> HIDE DEF t
  <2>4. First(Append(t, x), r) /\ Append(t, x) # <<>>
    BY <2>3, FirstAppend
  <2> QED
    BY <2>2, <2>4 DEF t
<1>8. CASE CheckCrashes \/ (\E k \in TimerKeys : Expire(k)) \/ Done \/ UNCHANGED vars
  BY <1>8 DEF CheckCrashes, Expire, Done, vars, Running
<1> QED
  BY <1>2, <1>3, <1>4, <1>5, <1>6, <1>7, <1>8 DEF Next, Run

-----------------------------------------------------------------------------
(* The theorems *)

LEMMA InitGame == Init => GameInv
<1> SUFFICES ASSUME Init PROVE GameInv
  OBVIOUS
<1>1. PICK r \in Roots : stack = <<Frame(r, 0)>>
  BY DEF Init
<1>2. r \in Rule /\ 0 \in World /\ r \in Inside[r]
  BY RulesAssumption, TreeAssumption DEF World
<1> DEFINE f == Frame(r, 0)
<1>3. f \in RootCalls(r)
  BY DEF Frame, RootCalls
<1>4. /\ f \in Calls /\ f.rule = r /\ f.home = 0 /\ f.at = "enter"
      /\ DOMAIN f.todo = {} /\ f.round = {}
  BY <1>2, NewCall
<1> HIDE DEF f
<1>5. /\ stack \in Seq(Calls) /\ stack # <<>> /\ Len(stack) = 1 /\ stack[1] = f
      /\ \A a \in 1..Len(stack) : a = 1
  BY <1>1, <1>4 DEF f
<1>6. First(stack, r)
  BY <1>3, <1>5 DEF First
<1>7. CallOK(f, r) /\ ~Registered(f)
  BY <1>2, <1>4 DEF CallOK, Registered
<1>8. Nest(stack, r)
  <2>1. \A a, b \in 1..Len(stack) : ~(a < b)
    BY <1>5
  <2> QED
    BY <1>4, <1>5, <1>7, <2>1 DEF Nest
<1>9. WorldOK(stack, world) /\ world \in World
  BY <1>2, <1>4, <1>5 DEF Init, WorldOK
<1>10. callbacks \in Seq(Rule) /\ Len(callbacks) = 0
  BY DEF Init
<1>11. Listed(stack, callbacks)
  BY <1>5, <1>7, <1>10 DEF Listed
<1>12. SuspendedOK(stack, lastRun)
  <2>1. /\ lastRun \in [ParallelKeys -> Seq(Rule)]
        /\ \A k \in ParallelKeys : lastRun[k] = <<>>
    BY DEF Init
  <2> QED
    BY <1>4, <1>5, <2>1 DEF SuspendedOK
<1>13. StatesOwned(stack, lastRun, ruleStates)
  BY NoItems DEF Init, StatesOwned
<1>14. StatesHeld(stack, ruleStates)
  BY <1>5, <1>7 DEF StatesHeld
<1>15. ~crashed
  BY DEF Init
<1> QED
  BY <1>6, <1>8, <1>9, <1>11, <1>12, <1>13, <1>14, <1>15 DEF GameInv, Inv

LEMMA NextGame == GameInv /\ [Next]_vars => GameInv'
<1> SUFFICES ASSUME GameInv, [Next]_vars PROVE GameInv'
  OBVIOUS
<1>1. PICK r \in Roots : /\ First(stack, r)
                         /\ stack = <<>> => ~crashed
                         /\ Calm(r) => Inv(r)
  BY DEF GameInv
<1>2. First(stack', r) /\ (stack' = <<>> => ~crashed')
  BY <1>1, FirstStays
<1>3. Calm(r) => Inv(r)'
  BY <1>1, InvStays
<1>4. First(stack, r)'
  BY <1>2
<1> QED
  BY <1>2, <1>3, <1>4 DEF GameInv, Calm, Nested

LEMMA GameInvariant == Spec => []GameInv
  BY InitGame, NextGame, PTL DEF Spec

\* StatesThere: checkCallbacks misses a state only in a game that has a
\* parallelfor inside another.
THEOREM NoStateMissed == Spec => []StatesThere
<1>1. GameInv => StatesThere
  <2> SUFFICES ASSUME GameInv, crashed
               PROVE  \E q \in Inside[stack[1].rule] : Nested(q)
    BY DEF StatesThere
  <2>1. PICK r \in Roots : /\ First(stack, r)
                           /\ stack = <<>> => ~crashed
                           /\ Calm(r) => Inv(r)
    BY DEF GameInv
  <2>2. ~Calm(r)
    BY <2>1 DEF Inv
  <2>3. stack[1].rule = r
    BY <2>1, FirstKind
  <2> QED
    BY <2>2, <2>3 DEF Calm
<1> QED
  BY <1>1, GameInvariant, PTL

\* NothingLeft: when a game ends whose parallelfors are not inside one another,
\* all its states are deleted and all its callbacks deregistered.
THEOREM AllCleanedUp ==
  (\A r \in Roots : Calm(r)) => (Spec => []NothingLeft)
<1> SUFFICES ASSUME \A r \in Roots : Calm(r) PROVE Spec => []NothingLeft
  OBVIOUS
<1>1. GameInv => NothingLeft
  <2> SUFFICES ASSUME GameInv PROVE NothingLeft
    OBVIOUS
  <2>1. PICK r \in Roots : Calm(r) => Inv(r)
    BY DEF GameInv
  <2>2. Inv(r)
    BY <2>1
  <2> SUFFICES ASSUME stack = <<>>
               PROVE  DOMAIN ruleStates = {} /\ callbacks = <<>> /\ world = 0
    BY DEF NothingLeft
  <2>3. \A a : a \notin 1..Len(stack)
    OBVIOUS
  <2>4. DOMAIN ruleStates = {}
    BY <2>2, <2>3 DEF Inv, StatesOwned, Owned
  <2>5. callbacks \in Seq(Rule) /\ \A j : j \notin 1..Len(callbacks)
    BY <2>2, <2>3 DEF Inv, Listed
  <2>6. callbacks = <<>>
    <3>1. Len(callbacks) \in Nat /\ 1 \notin 1..Len(callbacks)
      BY <2>5
    <3>2. Len(callbacks) = 0
      BY ONLY <3>1
    <3> QED
      BY <2>5, <3>2
  <2>7. world = 0
    BY <2>2 DEF Inv, WorldOK
  <2> QED
    BY <2>4, <2>6, <2>7
<1> QED
  BY <1>1, GameInvariant, PTL

-----------------------------------------------------------------------------
(* Timers that are not inside parallel rules, nor around them *)

TimersApart(r) ==
    \A t \in Inside[r], p \in Rule :
        Kind[t] \in Timers /\ Kind[p] \in Parallel => Inside[t] \cap Inside[p] = {}

\* What is inside a timer is called by it.
TimersUp(s, r) ==
    \A t \in Inside[r] : \A b \in 1..Len(s) :
        Kind[t] \in Timers /\ Within(s[b].rule, t) =>
            \E a \in 1..Len(s) : a < b /\ s[a].rule = t /\ s[a].at = "timed"

\* The state of a timer is there only while it is being run.
TimersHeld(s, states) ==
    \A k \in DOMAIN states : Kind[k[1]] \in Timers =>
        \E a \in 1..Len(s) : k = Place(s[a]) /\ s[a].at # "enter"

\* Nothing new is begun in a timer after a step that was too late.
NothingBegun(s, l) ==
    \A k \in TimerKeys :
        l[k] = 1 /\ s # <<>> /\ Within(s[Len(s)].rule, k[1]) => s[Len(s)].at # "enter"

Clocks(r, c, l) ==
    /\ c \in [TimerKeys -> {"off", "running", "expired"}]
    /\ l \in [TimerKeys -> 0..1]
    /\ \A k \in TimerKeys :
          /\ c[k] # "off" => k[1] \in Inside[r] /\ k[2] = 0
          /\ l[k] = 1 => c[k] = "expired" /\ Kind[k[1]] \in {"atmost", "exact"}

TimerInv(r) ==
    /\ TimersUp(stack, r)
    /\ TimersHeld(stack, ruleStates)
    /\ NothingBegun(stack, late)
    /\ Clocks(r, clock, late)

LEMMA ParentWithin ==
  ASSUME NEW p \in Rule, NEW i \in 1..Len(Body[p]), NEW t \in Rule, Within(Body[p][i], t)
  PROVE  p = t \/ Within(p, t)
<1>1. PICK q \in Inside[t] : \E j \in 1..Len(Body[q]) : Body[p][i] = Body[q][j]
  BY TreeAssumption DEF Within
<1>2. q \in Rule
  BY TreeAssumption
<1>3. p = q
  BY <1>1, <1>2, RulesAssumption
<1> QED
  BY <1>1, <1>3 DEF Within

LEMMA NotInParallel ==
  ASSUME NEW r \in Rule, TimersApart(r), NEW t \in Inside[r], Kind[t] \in Timers,
         NEW q \in Inside[t]
  PROVE  /\ \A p \in Rule : Kind[p] \in Parallel => q \notin Inside[p]
         /\ \A f : CallOK(f, r) /\ f.rule = q => f.home = 0
<1>1. \A p \in Rule : Kind[p] \in Parallel => q \notin Inside[p]
  BY DEF TimersApart
<1>2. ~InParallelFor(q)
  BY <1>1 DEF InParallelFor, Within, Parallel
<1> QED
  BY <1>1, <1>2 DEF CallOK

\* What pushing, popping and changing a call does to the invariant.
LEMMA TimersPopped ==
  ASSUME NEW r, NEW s, NEW t, NEW st, NEW st2, NEW l, Nest(s, r), Popped(s, t),
         TimersUp(s, r), TimersHeld(s, st), DOMAIN st2 \subseteq DOMAIN st,
         Kind[s[Len(s)].rule] \in Timers /\ s[Len(s)].at # "enter" =>
             Place(s[Len(s)]) \notin DOMAIN st2
  PROVE  TimersUp(t, r) /\ TimersHeld(t, st2) /\ NothingBegun(t, l)
<1> DEFINE n == Len(s)
<1>1. n \in 1..n /\ n \in Nat /\ Len(t) = n - 1
  BY DEF Popped
<1>2. \A a \in 1..Len(t) : a \in 1..n /\ t[a] = s[a]
  BY DEF Popped
<1>3. \A a \in 1..n : a # n => a \in 1..Len(t)
  BY <1>1
<1>4. TimersUp(t, r)
  <2> SUFFICES ASSUME NEW T \in Inside[r], NEW b \in 1..Len(t), Kind[T] \in Timers,
                      Within(t[b].rule, T)
               PROVE  \E a \in 1..Len(t) : a < b /\ t[a].rule = T /\ t[a].at = "timed"
    BY DEF TimersUp
  <2>1. PICK a \in 1..n : a < b /\ s[a].rule = T /\ s[a].at = "timed"
    BY <1>2 DEF TimersUp
  <2>2. a # n
    BY <1>1, <2>1
  <2> QED
    BY <1>2, <1>3, <2>1, <2>2
<1>5. TimersHeld(t, st2)
  <2> SUFFICES ASSUME NEW k \in DOMAIN st2, Kind[k[1]] \in Timers
               PROVE  \E a \in 1..Len(t) : k = Place(t[a]) /\ t[a].at # "enter"
    BY DEF TimersHeld
  <2>1. PICK a \in 1..n : k = Place(s[a]) /\ s[a].at # "enter"
    BY DEF TimersHeld
  <2>2. k[1] = s[a].rule
    BY <2>1 DEF Place
  <2>3. a # n
    BY <2>1, <2>2
  <2> QED
    BY <1>2, <1>3, <2>1, <2>3
<1>6. t # <<>> => t[Len(t)].at # "enter"
  <2> SUFFICES ASSUME t # <<>> PROVE t[Len(t)].at # "enter"
    OBVIOUS
  <2>1. Len(t) # 0
    BY EmptyIff DEF Popped
  <2>2. n - 1 \in 1..n /\ n - 1 \in 1..Len(t) /\ n - 1 < n
    BY <1>1, <2>1
  <2>3. s[n - 1].at # "enter"
    BY <1>1, <2>2 DEF Nest
  <2> QED
    BY <1>1, <1>2, <2>2, <2>3
<1> QED
  BY <1>4, <1>5, <1>6 DEF NothingBegun

LEMMA TimersChanged ==
  ASSUME NEW r, NEW s, NEW t, NEW g, NEW st, NEW st2, Changed(s, t, g),
         g.rule = s[Len(s)].rule, g.home = s[Len(s)].home,
         TimersUp(s, r), TimersHeld(s, st),
         DOMAIN st2 \subseteq DOMAIN st \cup {Place(s[Len(s)])},
         Kind[g.rule] \in Timers => g.at # "enter"
  PROVE  TimersUp(t, r) /\ TimersHeld(t, st2)
<1> DEFINE n == Len(s)
<1>1. n \in 1..n /\ n \in Nat /\ Len(t) = n /\ t[n] = g
      /\ \A a \in 1..n : a # n => t[a] = s[a]
  BY DEF Changed
<1>2. \A a \in 1..n : t[a].rule = s[a].rule /\ Place(t[a]) = Place(s[a])
  BY <1>1 DEF Place
<1>3. TimersUp(t, r)
  <2> SUFFICES ASSUME NEW T \in Inside[r], NEW b \in 1..n, Kind[T] \in Timers,
                      Within(t[b].rule, T)
               PROVE  \E a \in 1..n : a < b /\ t[a].rule = T /\ t[a].at = "timed"
    BY <1>1 DEF TimersUp
  <2>1. PICK a \in 1..n : a < b /\ s[a].rule = T /\ s[a].at = "timed"
    BY <1>2 DEF TimersUp
  <2>2. a # n
    BY <1>1, <2>1
  <2> QED
    BY <1>1, <2>1, <2>2
<1>4. TimersHeld(t, st2)
  <2> SUFFICES ASSUME NEW k \in DOMAIN st2, Kind[k[1]] \in Timers
               PROVE  \E a \in 1..n : k = Place(t[a]) /\ t[a].at # "enter"
    BY <1>1 DEF TimersHeld
  <2>1. \E a \in 1..n : k = Place(s[a]) /\ (a = n \/ s[a].at # "enter")
    <3>1. CASE k = Place(s[n])
      BY <1>1, <3>1
    <3>2. CASE k \in DOMAIN st
      BY <3>2 DEF TimersHeld
    <3> QED
      BY <3>1, <3>2
  <2>2. PICK a \in 1..n : k = Place(s[a]) /\ (a = n \/ s[a].at # "enter")
    BY <2>1
  <2>3. CASE a = n
    <3>1. k[1] = g.rule
      BY <2>2, <2>3 DEF Place
    <3> QED
      BY <1>1, <1>2, <2>2, <2>3, <3>1
  <2>4. CASE a # n
    BY <1>1, <1>2, <2>2, <2>4
  <2> QED
    BY <2>3, <2>4
<1> QED
  BY <1>3, <1>4

LEMMA TimersPushed ==
  ASSUME NEW r, NEW s, NEW t, NEW g, NEW st, Pushed(s, t, g),
         TimersUp(s, r), TimersHeld(s, st),
         \A T \in Inside[r] : Kind[T] \in Timers /\ Within(g.rule, T) =>
             (s[Len(s)].rule = T /\ s[Len(s)].at = "timed") \/ Within(s[Len(s)].rule, T)
  PROVE  TimersUp(t, r) /\ TimersHeld(t, st)
<1> DEFINE n == Len(s)
<1>1. n \in 1..n /\ n \in Nat /\ Len(t) = n + 1 /\ t[n + 1] = g
  BY DEF Pushed
<1>2. \A a \in 1..n : a \in 1..Len(t) /\ t[a] = s[a]
  BY DEF Pushed
<1>3. TimersUp(t, r)
  <2> SUFFICES ASSUME NEW T \in Inside[r], NEW b \in 1..Len(t), Kind[T] \in Timers,
                      Within(t[b].rule, T)
               PROVE  \E a \in 1..Len(t) : a < b /\ t[a].rule = T /\ t[a].at = "timed"
    BY DEF TimersUp
  <2>1. CASE b \in 1..n
    <3>1. PICK a \in 1..n : a < b /\ s[a].rule = T /\ s[a].at = "timed"
      BY <1>2, <2>1 DEF TimersUp
    <3> QED
      BY <1>2, <3>1
  <2>2. CASE b = n + 1 /\ s[n].rule = T /\ s[n].at = "timed"
    <3>1. n < b
      BY <1>1, <2>2
    <3> QED
      BY <1>1, <1>2, <2>2, <3>1
  <2>3. CASE b = n + 1 /\ Within(s[n].rule, T)
    <3>1. PICK a \in 1..n : a < n /\ s[a].rule = T /\ s[a].at = "timed"
      BY <1>1, <2>3 DEF TimersUp
    <3>2. a < b
      BY <1>1, <2>3, <3>1
    <3> QED
      BY <1>2, <3>1, <3>2
  <2>4. b \in 1..n \/ b = n + 1
    BY <1>1
  <2>5. b = n + 1 => Within(g.rule, T)
    BY <1>1
  <2> QED
    BY <2>1, <2>2, <2>3, <2>4, <2>5
<1>4. TimersHeld(t, st)
  BY <1>2 DEF TimersHeld
<1> QED
  BY <1>3, <1>4

\* The steps: a call returns,
LEMMA TimersReturn ==
  ASSUME NEW r \in Roots, Inv(r), TimerInv(r), stack # <<>>, stack' = Front(stack),
         Clocks(r, clock', late'), DOMAIN ruleStates' \subseteq DOMAIN ruleStates,
         Kind[Top.rule] \in Timers /\ Top.at # "enter" => Held \notin DOMAIN ruleStates'
  PROVE  TimerInv(r)'
<1>1. /\ Nest(stack, r) /\ stack \in Seq(Calls) /\ Top = stack[Len(stack)]
      /\ Held = Place(Top)
  BY TopCall DEF Inv, Top, Held, Place
<1>2. Popped(stack, stack')
  BY <1>1, FrontPops
<1>3. TimersUp(stack', r) /\ TimersHeld(stack', ruleStates') /\ NothingBegun(stack', late')
  BY <1>1, <1>2, TimersPopped DEF TimerInv
<1> QED
  BY <1>3 DEF TimerInv

\* or goes on,
LEMMA TimersGo ==
  ASSUME NEW r \in Roots, Inv(r), TimerInv(r), stack # <<>>,
         NEW p \in {"enter", "check", "timed", "pad"},
         NEW t, t = [stack EXCEPT ![Len(stack)].at = p], NEW st2,
         DOMAIN st2 \subseteq DOMAIN ruleStates \cup {Held},
         Kind[Top.rule] \in Timers => p # "enter"
  PROVE  /\ TimersUp(t, r) /\ TimersHeld(t, st2)
         /\ t \in Seq(Calls) /\ t # <<>> /\ t[Len(t)].rule = Top.rule /\ t[Len(t)].at = p
         /\ \A l : p # "enter" => NothingBegun(t, l)
<1>1. /\ Nest(stack, r) /\ stack \in Seq(Calls) /\ Top = stack[Len(stack)]
      /\ Held = Place(Top)
  BY TopCall DEF Inv, Top, Held, Place
<1>2. PICK g \in Calls : Changed(stack, t, g) /\ g.rule = Top.rule /\ g.at = p
                         /\ g.home = Top.home
  BY <1>1, Moved
<1>3. TimersUp(t, r) /\ TimersHeld(t, st2)
  BY <1>1, <1>2, TimersChanged DEF TimerInv
<1>4. t \in Seq(Calls) /\ t # <<>> /\ t[Len(t)] = g
  BY <1>2 DEF Changed
<1> QED
  BY <1>2, <1>3, <1>4 DEF NothingBegun

\* or calls one of its rules.
LEMMA TimersCall ==
  ASSUME NEW r \in Roots, Inv(r), NEW s \in Seq(Calls), s # <<>>, NEW st,
         TimersUp(s, r), TimersHeld(s, st),
         NEW i \in 1..Len(Body[s[Len(s)].rule]), s[Len(s)].rule \in Rule,
         Kind[s[Len(s)].rule] \in Timers => s[Len(s)].at = "timed",
         NEW l, \A k \in TimerKeys : l[k] = 1 =>
             k[1] \in Rule /\ k[1] # s[Len(s)].rule /\ ~Within(s[Len(s)].rule, k[1])
  PROVE  LET t == Append(s, Frame(Body[s[Len(s)].rule][i], world)) IN
         TimersUp(t, r) /\ TimersHeld(t, st) /\ NothingBegun(t, l)
<1> DEFINE p == s[Len(s)].rule
           q == Body[p][i]
           x == Frame(q, world)
           t == Append(s, x)
<1>1. q \in Rule /\ world \in World /\ r \in Rule
  BY ChildWithin, RulesAssumption DEF Inv
<1>2. x \in Calls /\ x.rule = q
  BY <1>1, NewCall
<1> HIDE DEF x
<1>3. Pushed(s, t, x)
  BY <1>2, AppendPushes
<1>4. \A T \in Rule : Within(q, T) => p = T \/ Within(p, T)
  BY ParentWithin
<1>5. \A T \in Inside[r] : T \in Rule
  BY <1>1, Inner
<1>6. \A T \in Inside[r] : Kind[T] \in Timers /\ Within(x.rule, T) =>
          (p = T /\ s[Len(s)].at = "timed") \/ Within(p, T)
  BY <1>2, <1>4, <1>5
<1>7. TimersUp(t, r) /\ TimersHeld(t, st)
  BY <1>3, <1>6, TimersPushed
<1>8. t # <<>> /\ t[Len(t)] = x
  BY <1>3, EmptyIff DEF Pushed
<1>9. NothingBegun(t, l)
  BY <1>2, <1>4, <1>8 DEF NothingBegun
<1> QED
  BY <1>7, <1>9 DEF x

\* Where a call is begun nothing was too late.
LEMMA NotLate ==
  ASSUME NEW r \in Roots, Inv(r), TimerInv(r), stack # <<>>, Top.at = "enter",
         NEW k \in TimerKeys, late[k] = 1
  PROVE  k[1] \in Rule /\ ~Within(Top.rule, k[1])
<1>1. Top = stack[Len(stack)]
  BY TopCall DEF Inv, Top
<1>2. k[1] \in Rule
  BY DEF TimerKeys
<1> QED
  BY <1>1, <1>2 DEF TimerInv, NothingBegun

\* An expired timer stops every rule in it.
LEMMA StopsInTime ==
  ASSUME NEW r \in Roots, TimersApart(r), Inv(r), TimerInv(r), stack # <<>>,
         ~Forks(Top), NEW k \in TimerKeys, late[k] = 1, Within(Top.rule, k[1])
  PROVE  Stopper # 0
<1> DEFINE T == k[1]
           n == Len(stack)
<1>1. /\ Nest(stack, r) /\ Top = stack[n] /\ n \in 1..n /\ r \in Rule
      /\ CallOK(Top, r) /\ world = Top.home
  BY TopCall, KeyHeld DEF Inv, Top
<1>2. /\ clock[k] = "expired" /\ Kind[T] \in {"atmost", "exact"} /\ T \in Inside[r]
      /\ k[2] = 0
  BY DEF TimerInv, Clocks
<1>3. PICK a \in 1..n : stack[a].rule = T /\ stack[a].at = "timed"
  BY <1>1, <1>2 DEF TimerInv, TimersUp, Timers
<1>4. Listed(stack, callbacks) /\ callbacks \in Seq(Rule)
  BY DEF Inv, Listed
<1>5. Registered(stack[a])
  BY <1>2, <1>3 DEF Registered, Timers
<1>6. PICK j \in 1..Len(callbacks) : T = callbacks[j]
  BY <1>3, <1>4, <1>5 DEF Listed
<1>7. world = 0
  BY <1>1, <1>2, NotInParallel DEF Within, Timers
<1>8. Key(T) = k
  BY <1>2, <1>7 DEF Key, TimerKeys
<1>9. Stops(callbacks[j])
  BY <1>2, <1>6, <1>8 DEF Stops
<1>10. j <= Stopper
  BY <1>4, <1>9, StopperStops
<1> QED
  BY <1>6, <1>10

LEMMA TimersIterate ==
  ASSUME NEW r \in Roots, Inv(r), TimerInv(r), Iterate \/ LoopAgain
  PROVE  TimerInv(r)'
<1> DEFINE t == [stack EXCEPT ![Len(stack)].at = "check"]
<1>1. /\ stack # <<>> /\ Top.at = "enter" /\ Kind[Top.rule] \in {"list", "foreach", "loop"}
      /\ ruleStates' = ruleStates \/ Create
      /\ clock' = clock /\ late' = late
  BY DEF Iterate, LoopAgain, Running, timeVars
<1>2. Top.rule \in Rule /\ Kind[Top.rule] \notin Timers
  BY <1>1, TopCall DEF Inv, Top, Timers
<1>3. Body[Top.rule] \in Seq(Rule)
  BY <1>2, RulesAssumption
<1>4. PICK i \in 1..Len(Body[Top.rule]) :
         stack' = Append(t, Frame(Body[Top.rule][i], world))
  <2>1. CASE Iterate /\ Kind[Top.rule] = "list"
    <3>1. Position(Held) \in Nat \ {0} /\ Position(Held) <= Len(Body[Top.rule])
      BY <2>1, Positions DEF Iterate, Count
    <3>2. Position(Held) \in 1..Len(Body[Top.rule])
      BY <1>3, <3>1
    <3> QED
      BY <2>1, <3>2 DEF Iterate, Call, Child
  <2>2. CASE LoopAgain \/ (Iterate /\ Kind[Top.rule] = "foreach")
    <3>1. Kind[Top.rule] \in {"foreach", "loop"}
      BY <2>2 DEF LoopAgain, Running
    <3>2. 1 \in 1..Len(Body[Top.rule])
      BY <1>2, <1>3, <3>1, RulesAssumption
    <3> QED
      BY <2>2, <3>2 DEF Iterate, LoopAgain, Call, Child, Running
  <2> QED
    BY <2>1, <2>2 DEF Iterate, Running
<1>5. DOMAIN ruleStates' \subseteq DOMAIN ruleStates \cup {Held}
  BY <1>1, Created
<1>6. /\ TimersUp(t, r) /\ TimersHeld(t, ruleStates')
      /\ t \in Seq(Calls) /\ t # <<>> /\ t[Len(t)].rule = Top.rule
  BY <1>1, <1>2, <1>5, TimersGo
<1>7. \A k \in TimerKeys : late[k] = 1 =>
          k[1] \in Rule /\ k[1] # Top.rule /\ ~Within(Top.rule, k[1])
  BY <1>1, <1>2, NotLate DEF TimerKeys
<1> HIDE DEF t
<1>8. TimersUp(stack', r) /\ TimersHeld(stack', ruleStates') /\ NothingBegun(stack', late)
  BY <1>2, <1>4, <1>6, <1>7, TimersCall
<1> QED
  BY <1>1, <1>8 DEF TimerInv

LEMMA TimersChoose ==
  ASSUME NEW r \in Roots, Inv(r), TimerInv(r), ChooseCase
  PROVE  TimerInv(r)'
<1> DEFINE t == Front(stack)
           n == Len(stack)
<1>1. /\ stack # <<>> /\ Top.at = "enter" /\ Kind[Top.rule] = "cases"
      /\ UNCHANGED <<ruleStates, clock, late>>
      /\ \/ stack' = t
         \/ \E i \in 1..Len(Body[Top.rule]) :
               stack' = Append(t, Frame(Body[Top.rule][i], world))
  BY DEF ChooseCase, Running, Return, timeVars
<1>2. CASE stack' = t
  BY <1>1, <1>2, TimersReturn DEF TimerInv, Timers
<1>3. ASSUME NEW i \in 1..Len(Body[Top.rule]),
             stack' = Append(t, Frame(Body[Top.rule][i], world))
      PROVE  TimerInv(r)'
  <2> DEFINE x == Frame(Body[Top.rule][i], world)
  <2>1. /\ Nest(stack, r) /\ stack \in Seq(Calls) /\ r \in Rule /\ Kind[r] = "list"
        /\ stack[n] = Top /\ Top.rule \in Rule /\ n \in 1..n /\ world \in World
    BY <1>1, TopCall DEF Inv, Top
  <2>2. n # 1 /\ n \in Nat
    BY <1>1, <2>1 DEF Nest
  <2>3. Popped(stack, t)
    BY <1>1, <2>1, FrontPops
  <2>4. TimersUp(t, r) /\ TimersHeld(t, ruleStates)
    BY <1>1, <2>1, <2>3, TimersPopped DEF TimerInv
  <2>5. Body[Top.rule][i] \in Rule
    BY <2>1, ChildWithin
  <2>6. x \in Calls /\ x.rule = Body[Top.rule][i]
    BY <2>1, <2>5, NewCall
  <2>7. t \in Seq(Calls) /\ t # <<>> /\ Len(t) = n - 1
    BY <2>2, <2>3, EmptyIff DEF Popped
  <2>8. \A T \in Rule : Kind[T] \in Timers /\ Within(x.rule, T) => Within(Top.rule, T)
    <3>1. \A T \in Rule : Within(x.rule, T) => Top.rule = T \/ Within(Top.rule, T)
      BY <2>1, <2>6, ParentWithin
    <3>2. Kind[Top.rule] \notin Timers
      BY <1>1 DEF Timers
    <3> QED
      BY <3>1, <3>2
  <2>9. \A T \in Inside[r] : T \in Rule
    BY <2>1, Inner
  <2>10. \A T \in Inside[r] : Kind[T] \in Timers /\ Within(x.rule, T) =>
            \E a \in 1..(n - 1) : stack[a].rule = T /\ stack[a].at = "timed"
    <3> SUFFICES ASSUME NEW T \in Inside[r], Kind[T] \in Timers, Within(x.rule, T)
                 PROVE  \E a \in 1..(n - 1) : stack[a].rule = T /\ stack[a].at = "timed"
      OBVIOUS
    <3>1. Within(stack[n].rule, T)
      BY <2>1, <2>8, <2>9
    <3>2. PICK a \in 1..n : a < n /\ stack[a].rule = T /\ stack[a].at = "timed"
      BY <2>1, <3>1 DEF TimerInv, TimersUp
    <3>3. a \in 1..(n - 1)
      BY <2>2, <3>2
    <3> QED
      BY <3>2, <3>3
  <2>20. /\ n - 1 \in 1..n /\ n - 1 \in 1..(n - 1)
         /\ \A a \in 1..(n - 1) : a \in 1..n /\ (a = n - 1 \/ a < n - 1)
    <3> HIDE DEF n
    <3> QED
      BY <2>1, <2>2
  <2>11. t[Len(t)] = stack[n - 1] /\ \A a \in 1..(n - 1) : t[a] = stack[a]
    <3>1. \A a \in 1..Len(t) : t[a] = stack[a]
      BY <2>3 DEF Popped
    <3>2. n - 1 \in 1..(n - 1)
      BY <2>20
    <3> QED
      BY <2>7, <3>1, <3>2
  <2>12. \A a \in 1..(n - 1) : a = n - 1 \/ Within(stack[n - 1].rule, stack[a].rule)
    <3>1. n - 1 \in 1..n /\ \A a \in 1..(n - 1) : a \in 1..n /\ (a = n - 1 \/ a < n - 1)
      BY <2>20
    <3> QED
      BY <2>1, <3>1 DEF Nest
  <2> HIDE DEF t, x, n
  <2>13. \A T \in Inside[r] : Kind[T] \in Timers /\ Within(x.rule, T) =>
            (t[Len(t)].rule = T /\ t[Len(t)].at = "timed") \/ Within(t[Len(t)].rule, T)
    BY <2>10, <2>11, <2>12
  <2>14. Pushed(t, Append(t, x), x)
    BY <2>6, <2>7, AppendPushes
  <2>15. TimersUp(Append(t, x), r) /\ TimersHeld(Append(t, x), ruleStates)
    BY <2>4, <2>13, <2>14, TimersPushed
  <2>16. Append(t, x) # <<>> /\ Append(t, x)[Len(Append(t, x))] = x
    BY <2>14, EmptyIff DEF Pushed
  <2>17. NothingBegun(Append(t, x), late)
    <3>1. \A k \in TimerKeys : late[k] = 1 => ~Within(x.rule, k[1])
      BY <1>1, <2>8, NotLate DEF TimerKeys
    <3> QED
      BY <2>16, <3>1 DEF NothingBegun
  <2>18. stack' = Append(t, x)
    BY <1>3 DEF t, x
  <2> QED
    BY <1>1, <2>15, <2>17, <2>18 DEF TimerInv
<1> QED
  BY <1>1, <1>2, <1>3

LEMMA TimersEnd ==
  ASSUME NEW r \in Roots, Calm(r), TimersApart(r), Inv(r), TimerInv(r),
         \/ EndIterate \/ LoopEnd \/ InputEnds \/ CutOff \/ Suspend
         \/ EndTimer \/ EndPadding \/ Join
  PROVE  TimerInv(r)'
<1>1. stack # <<>> /\ stack' = Front(stack) /\ clock' = clock /\ late' = late
  BY DEF EndIterate, LoopEnd, InputEnds, CutOff, Suspend, EndTimer, EndPadding, Join,
     Running, Return, timeVars
<1>2. /\ Nest(stack, r) /\ r \in Rule /\ Top = stack[Len(stack)] /\ Top.rule \in Inside[r]
      /\ Len(stack) \in 1..Len(stack)
  BY <1>1, TopCall DEF Inv, Top, CallOK
<1>3. DOMAIN ruleStates' \subseteq DOMAIN ruleStates
  <2>1. CASE EndIterate \/ InputEnds \/ EndTimer \/ EndPadding \/ Join
    <3>1. PICK k : Delete(k)
      BY <2>1 DEF EndIterate, InputEnds, EndTimer, EndPadding, Join
    <3> QED
      BY <3>1, Deleted
  <2>2. CASE LoopEnd
    BY <2>2 DEF LoopEnd
  <2>3. CASE CutOff
    BY <2>3, Deleted DEF CutOff, DropState
  <2>4. CASE Suspend
    BY <2>4, SteppedOn DEF Suspend
  <2> QED
    BY <2>1, <2>2, <2>3, <2>4
<1>4. ASSUME Kind[Top.rule] \in Timers PROVE Held \notin DOMAIN ruleStates'
  <2>1. Key(Top.rule) = Held
    BY <1>1, <1>4, KeyHeld DEF Forks, Parallel, Timers
  <2>2. CASE EndTimer \/ EndPadding
    <3>1. Delete(Held)
      BY <2>1, <2>2 DEF EndTimer, EndPadding
    <3> QED
      BY <3>1, Deleted
  <2>3. CASE CutOff
    <3>1. Delete(Held)
      BY <1>4, <2>1, <2>3 DEF CutOff, DropState, Timers
    <3> QED
      BY <3>1, Deleted
  <2>4. CASE Suspend
    <3>1. /\ Running(Checkers, "check") /\ Stopper # 0 /\ Kind[callbacks[Stopper]] \in Parallel
      BY <2>4 DEF Suspend
    <3>2. Top.at = "check" /\ ~Forks(Top) /\ callbacks \in Seq(Rule)
      BY <3>1, CheckersTop DEF Inv, Listed
    <3>3. Stopper \in 1..Len(callbacks) /\ Stopper >= Stopper
      BY <3>1, <3>2, StopperStops
    <3>4. PICK b \in 1..Len(stack) : b < Len(stack) /\ stack[b].rule = callbacks[Stopper]
      BY <1>1, <3>2, <3>3, Asked
    <3>5. Within(Top.rule, stack[b].rule) /\ stack[b].rule \in Rule
      BY <1>2, <3>4, Inner DEF Nest, CallOK
    <3>6. Top.rule \in Inside[Top.rule]
      <4>1. Top.rule \in Rule
        BY <1>2, Inner
      <4> QED
        BY <4>1, TreeAssumption
    <3>7. Top.rule \notin Inside[stack[b].rule]
      BY <1>2, <1>4, <3>1, <3>4, <3>5, <3>6, NotInParallel
    <3> QED
      BY <3>5, <3>7 DEF Within
  <2>5. CASE EndIterate \/ LoopEnd \/ InputEnds \/ Join
    BY <1>4, <2>5 DEF EndIterate, LoopEnd, InputEnds, Join, Running, Timers, Parallel
  <2> QED
    BY <2>2, <2>3, <2>4, <2>5
<1> QED
  BY <1>1, <1>3, <1>4, TimersReturn DEF TimerInv

\* A rule is done: a timer around it may have expired, but not before this rule
\* was begun.
LEMMA TimersPerform ==
  ASSUME NEW r \in Roots, Inv(r), TimerInv(r), Perform
  PROVE  TimerInv(r)'
<1>1. /\ stack # <<>> /\ Top.at = "enter" /\ Kind[Top.rule] = "step"
      /\ stack' = Front(stack) /\ ruleStates' = ruleStates /\ clock' = clock
      /\ late' = [k \in TimerKeys |->
                     IF k \in TimersAround(Top.rule) /\ clock[k] = "expired" /\ late[k] < 2
                     THEN late[k] + 1 ELSE late[k]]
  BY DEF Perform, Running, Return
<1>2. ASSUME NEW k \in TimerKeys, k \in TimersAround(Top.rule)
      PROVE  late[k] # 1 /\ Kind[k[1]] \in {"atmost", "exact"}
  <2>1. Kind[k[1]] \in {"atmost", "exact"} /\ Top.rule \in Inside[k[1]]
    BY <1>2 DEF TimersAround
  <2>2. Within(Top.rule, k[1])
    BY <1>1, <2>1 DEF Within
  <2> QED
    BY <1>1, <2>1, <2>2, NotLate
<1>3. Clocks(r, clock, late)
  BY DEF TimerInv
<1>4. ASSUME NEW k \in TimerKeys
      PROVE  /\ late'[k] \in 0..1
             /\ late'[k] = 1 => clock[k] = "expired" /\ Kind[k[1]] \in {"atmost", "exact"}
  <2>1. late[k] \in {0, 1}
    BY <1>3 DEF Clocks
  <2>2. CASE k \in TimersAround(Top.rule) /\ clock[k] = "expired"
    <3>1. late[k] = 0 /\ Kind[k[1]] \in {"atmost", "exact"}
      BY <1>2, <2>1, <2>2
    <3> QED
      BY <1>1, <2>2, <3>1
  <2>3. CASE ~(k \in TimersAround(Top.rule) /\ clock[k] = "expired")
    <3>1. late'[k] = late[k]
      BY <1>1, <2>3
    <3> QED
      BY <1>3, <3>1 DEF Clocks
  <2> QED
    BY <2>2, <2>3
<1>5. Clocks(r, clock', late')
  <2>1. late' \in [TimerKeys -> 0..1]
    BY <1>1, <1>4
  <2> QED
    BY <1>1, <1>3, <1>4, <2>1 DEF Clocks
<1> QED
  BY <1>1, <1>5, TimersReturn DEF Timers

LEMMA TimersGoOn ==
  ASSUME NEW r \in Roots, Inv(r), TimerInv(r), Poll \/ StartPadding \/ Pad
  PROVE  TimerInv(r)'
<1>1. /\ stack # <<>> /\ clock' = clock /\ late' = late
      /\ ruleStates' = ruleStates \/ Create
  BY DEF Poll, StartPadding, Pad, Running, timeVars
<1>2. PICK p \in {"check", "pad"} : stack' = [stack EXCEPT ![Len(stack)].at = p]
  BY DEF Poll, StartPadding, Pad, GoTo, AfterPoll
<1>3. DOMAIN ruleStates' \subseteq DOMAIN ruleStates \cup {Held}
  BY <1>1, Created
<1>4. p \in {"enter", "check", "timed", "pad"} /\ p # "enter"
  OBVIOUS
<1>5. TimersUp(stack', r) /\ TimersHeld(stack', ruleStates') /\ NothingBegun(stack', late)
  BY <1>1, <1>2, <1>3, <1>4, TimersGo
<1> QED
  BY <1>1, <1>5 DEF TimerInv

\* A list goes on only if no timer around it has expired.
LEMMA TimersCheck ==
  ASSUME NEW r \in Roots, TimersApart(r), Inv(r), TimerInv(r), CheckPasses
  PROVE  TimerInv(r)'
<1> DEFINE p == IF Kind[Top.rule] = "exact" THEN "pad" ELSE "enter"
<1>1. /\ Running(Checkers, "check") /\ StepOn /\ Stopper = 0
      /\ stack' = [stack EXCEPT ![Len(stack)].at = p]
      /\ clock' = clock /\ late' = late
  BY DEF CheckPasses, GoTo, timeVars
<1>2. stack # <<>> /\ ~Forks(Top) /\ Kind[Top.rule] \in Checkers
  BY <1>1, CheckersTop DEF Running
<1>3. p \in {"enter", "check", "timed", "pad"} /\ (Kind[Top.rule] \in Timers => p # "enter")
  BY <1>2 DEF Checkers, Timers
<1>4. DOMAIN ruleStates' \subseteq DOMAIN ruleStates \cup {Held}
  BY <1>1, SteppedOn
<1> HIDE DEF p
<1>5. /\ TimersUp(stack', r) /\ TimersHeld(stack', ruleStates')
      /\ stack' # <<>> /\ stack'[Len(stack')].rule = Top.rule
  BY <1>1, <1>2, <1>3, <1>4, TimersGo
<1>6. \A k \in TimerKeys : late[k] = 1 => ~Within(Top.rule, k[1])
  BY <1>1, <1>2, StopsInTime
<1>7. NothingBegun(stack', late)
  BY <1>5, <1>6 DEF NothingBegun
<1> QED
  BY <1>1, <1>5, <1>7 DEF TimerInv

\* A timer that begins had no state, so that its time begins as well.
LEMMA TimersStart ==
  ASSUME NEW r \in Roots, TimersApart(r), Inv(r), TimerInv(r), StartTimer
  PROVE  TimerInv(r)'
<1> DEFINE t == [stack EXCEPT ![Len(stack)].at = "timed"]
<1>1. /\ stack # <<>> /\ Top.at = "enter" /\ Kind[Top.rule] \in Timers /\ Create
      /\ stack' = Append(t, Frame(Body[Top.rule][1], world))
  BY DEF StartTimer, Running, Call
<1>2. /\ Nest(stack, r) /\ r \in Rule /\ Top = stack[Len(stack)] /\ Top.rule \in Rule
      /\ Len(stack) \in 1..Len(stack) /\ CallOK(Top, r) /\ Top.rule \in Inside[r]
      /\ Top.rule \in Inside[Top.rule] /\ Held = Place(Top)
  BY <1>1, TopCall, TreeAssumption DEF Inv, Top, CallOK, Held, Place
<1>3. Top.home = 0
  BY <1>1, <1>2, NotInParallel
<1>4. Held = <<Top.rule, 0>> /\ Held \in TimerKeys
  BY <1>1, <1>2, <1>3, RulesAssumption DEF Place, TimerKeys, World
<1>5. Held \notin DOMAIN ruleStates
  <2> SUFFICES ASSUME Held \in DOMAIN ruleStates PROVE FALSE
    OBVIOUS
  <2>1. PICK a \in 1..Len(stack) : Held = Place(stack[a]) /\ stack[a].at # "enter"
    BY <1>1, <1>4 DEF TimerInv, TimersHeld
  <2>2. stack[a].rule = Top.rule
    BY <1>4, <2>1 DEF Place
  <2>3. a = Len(stack)
    BY <1>2, <2>2, OneCall
  <2> QED
    BY <1>1, <1>2, <2>1, <2>3
<1>6. clock' = [clock EXCEPT ![Held] = "running"] /\ late' = [late EXCEPT ![Held] = 0]
  BY <1>5 DEF StartTimer
<1>7. Clocks(r, clock, late)
  BY DEF TimerInv
<1>8. /\ \A k \in TimerKeys : k # Held => clock'[k] = clock[k] /\ late'[k] = late[k]
      /\ clock'[Held] = "running" /\ late'[Held] = 0
      /\ clock' \in [TimerKeys -> {"off", "running", "expired"}]
      /\ late' \in [TimerKeys -> 0..1]
  BY <1>4, <1>6, <1>7 DEF Clocks
<1>9. Clocks(r, clock', late')
  <2> SUFFICES ASSUME NEW k \in TimerKeys
               PROVE  /\ clock'[k] # "off" => k[1] \in Inside[r] /\ k[2] = 0
                      /\ late'[k] = 1 => clock'[k] = "expired" /\ Kind[k[1]] \in {"atmost", "exact"}
    BY <1>8 DEF Clocks
  <2>1. CASE k = Held
    BY <1>2, <1>4, <1>8, <2>1
  <2>2. CASE k # Held
    BY <1>7, <1>8, <2>2 DEF Clocks
  <2> QED
    BY <2>1, <2>2
<1>10. \A k \in TimerKeys : late'[k] = 1 =>
           k[1] \in Rule /\ k[1] # Top.rule /\ ~Within(Top.rule, k[1])
  <2> SUFFICES ASSUME NEW k \in TimerKeys, late'[k] = 1
               PROVE  k[1] \in Rule /\ k[1] # Top.rule /\ ~Within(Top.rule, k[1])
    OBVIOUS
  <2>1. k # Held /\ late[k] = 1
    BY <1>8
  <2>2. k[2] = 0
    BY <1>7, <2>1 DEF Clocks
  <2>3. k[1] # Top.rule
    BY <1>4, <2>1, <2>2 DEF TimerKeys
  <2> QED
    BY <1>1, <2>1, <2>3, NotLate
<1>11. DOMAIN ruleStates' \subseteq DOMAIN ruleStates \cup {Held}
  BY <1>1, Created
<1>12. /\ TimersUp(t, r) /\ TimersHeld(t, ruleStates') /\ t \in Seq(Calls) /\ t # <<>>
       /\ t[Len(t)].rule = Top.rule /\ t[Len(t)].at = "timed"
  <2>1. "timed" \in {"enter", "check", "timed", "pad"} /\ "timed" # "enter"
    OBVIOUS
  <2> HIDE DEF t
  <2> QED
    BY <1>1, <1>11, <2>1, TimersGo DEF t
<1>13. 1 \in 1..Len(Body[Top.rule])
  BY <1>1, <1>2, RulesAssumption
<1> HIDE DEF t
<1>14. TimersUp(stack', r) /\ TimersHeld(stack', ruleStates') /\ NothingBegun(stack', late')
  BY <1>1, <1>2, <1>10, <1>12, <1>13, TimersCall
<1> QED
  BY <1>9, <1>14 DEF TimerInv

\* A parallel rule: no timer is around it or in it.
LEMMA TimersRound ==
  ASSUME NEW r \in Roots, Inv(r), Inv(r)', TimerInv(r), Fork \/ EndTurn
  PROVE  TimerInv(r)'
<1> DEFINE n == Len(stack)
<1>1. /\ stack # <<>> /\ Kind[Top.rule] \in Parallel /\ clock' = clock /\ late' = late
      /\ ruleStates' = ruleStates \/ Create
  BY DEF Fork, EndTurn, Running, timeVars
<1>2. /\ stack \in Seq(Calls) /\ Top = stack[n] /\ n \in 1..n /\ Top \in Calls
      /\ Held = Place(Top)
  BY <1>1, TopCall DEF Inv, Top, Held, Place
<1>3. PICK g : /\ stack' = [stack EXCEPT ![Len(stack)] = g]
               /\ g.rule = Top.rule /\ g.home = Top.home /\ g.at = "round"
  <2> DEFINE f == Top
  <2>1. f \in Calls
    BY <1>2
  <2>2. CASE Fork
    <3> DEFINE g == [f EXCEPT !.at = "round", !.todo = Branches(f.rule)]
    <3>1. stack' = [stack EXCEPT ![Len(stack)] = g]
      BY <1>2, <2>2 DEF Fork
    <3> HIDE DEF f
    <3>2. g.rule = f.rule /\ g.home = f.home /\ g.at = "round"
      BY <2>1 DEF Calls
    <3> HIDE DEF g
    <3> QED
      BY <3>1, <3>2 DEF f
  <2>3. CASE EndTurn
    <3>1. PICK todo2 : stack' = [stack EXCEPT ![Len(stack)] =
                          [f EXCEPT !.at = "round", !.turn = 0, !.todo = todo2]]
      BY <2>3 DEF EndTurn
    <3> DEFINE g == [f EXCEPT !.at = "round", !.turn = 0, !.todo = todo2]
    <3> HIDE DEF f
    <3>2. g.rule = f.rule /\ g.home = f.home /\ g.at = "round"
      BY <2>1 DEF Calls
    <3>3. stack' = [stack EXCEPT ![Len(stack)] = g]
      BY <3>1
    <3> HIDE DEF g
    <3> QED
      BY <3>2, <3>3 DEF f
  <2> QED
    BY <2>2, <2>3
<1>4. Changed(stack, stack', g)
  <2>1. stack' \in Seq(Calls)
    BY DEF Inv, Nest
  <2>2. DOMAIN stack' = DOMAIN stack /\ stack'[n] = g
    BY <1>2, <1>3
  <2>3. g \in Calls
    BY <1>2, <2>1, <2>2
  <2> QED
    BY <1>1, <1>2, <1>3, <2>3, ExceptChanges
<1>5. DOMAIN ruleStates' \subseteq DOMAIN ruleStates \cup {Held}
  BY <1>1, Created
<1>6. TimersUp(stack', r) /\ TimersHeld(stack', ruleStates')
  BY <1>2, <1>3, <1>4, <1>5, TimersChanged DEF TimerInv
<1>7. NothingBegun(stack', late)
  BY <1>3, <1>4 DEF Changed, NothingBegun
<1> QED
  BY <1>1, <1>6, <1>7 DEF TimerInv

LEMMA TimersTurn ==
  ASSUME NEW r \in Roots, TimersApart(r), Inv(r), Inv(r)', TimerInv(r),
         NEW w \in World, TakeTurn(w)
  PROVE  TimerInv(r)'
<1> DEFINE n == Len(stack)
<1>1. /\ stack # <<>> /\ Kind[Top.rule] \in Parallel /\ clock' = clock /\ late' = late
      /\ ruleStates' = ruleStates
  BY DEF TakeTurn, Running, timeVars
<1>2. /\ stack \in Seq(Calls) /\ Top = stack[n] /\ n \in 1..n /\ Top \in Calls /\ n \in Nat
      /\ r \in Rule /\ Top.rule \in Rule
  BY <1>1, TopCall DEF Inv, Top
<1>3. PICK g, x : /\ stack' = Append([stack EXCEPT ![Len(stack)] = g], x)
                  /\ g.rule = Top.rule /\ g.home = Top.home /\ g.at = "turn"
  <2> DEFINE f == Top
  <2>1. f \in Calls
    BY <1>2
  <2>2. PICK todo2, rnd, x : stack' = Append([stack EXCEPT ![Len(stack)] =
            [f EXCEPT !.at = "turn", !.turn = w, !.todo = todo2, !.round = rnd]], x)
    BY <1>2 DEF TakeTurn
  <2> DEFINE g == [f EXCEPT !.at = "turn", !.turn = w, !.todo = todo2, !.round = rnd]
  <2> HIDE DEF f
  <2>3. g.rule = f.rule /\ g.home = f.home /\ g.at = "turn"
    BY <2>1 DEF Calls
  <2>4. stack' = Append([stack EXCEPT ![Len(stack)] = g], x)
    BY <2>2
  <2> HIDE DEF g
  <2> QED
    BY <2>3, <2>4 DEF f
<1> DEFINE T == Calls \cup {g, x}
           u == [stack EXCEPT ![Len(stack)] = g]
<1>4. u \in Seq(T) /\ Len(u) = n /\ u[n] = g
  <2>1. stack \in Seq(T) /\ g \in T
    BY <1>2
  <2> HIDE DEF T
  <2> QED
    BY <1>1, <2>1, LastChanged
<1>5. /\ Len(stack') = n + 1 /\ stack'[n + 1] = x
      /\ \A i \in 1..n : stack'[i] = u[i]
  <2>1. x \in T
    OBVIOUS
  <2> HIDE DEF T, u
  <2>2. stack' = Append(u, x)
    BY <1>3 DEF u
  <2> HIDE DEF n
  <2> QED
    BY <1>4, <2>1, <2>2, OneMore
<1>6. Nest(stack', r) /\ stack' \in Seq(Calls)
  BY DEF Inv, Nest
<1>7. /\ n \in 1..Len(stack') /\ n + 1 \in 1..Len(stack') /\ n < n + 1
      /\ stack'[n] = g /\ stack'[n + 1] = x
  <2> HIDE DEF n
  <2> QED
    BY <1>2, <1>4, <1>5
<1>8. g \in Calls /\ x \in Calls /\ Within(x.rule, g.rule)
  BY <1>6, <1>7 DEF Nest
<1>9. Changed(stack, u, g)
  BY <1>1, <1>2, <1>8, ExceptChanges
<1> HIDE DEF u, T
<1>10. Pushed(u, stack', x)
  <2>1. u \in Seq(Calls) /\ u # <<>>
    BY <1>9 DEF Changed
  <2> QED
    BY <1>3, <1>8, <2>1, AppendPushes DEF u
<1>11. \A t \in Inside[r] : Kind[t] \in Timers => ~Within(x.rule, t)
  <2>1. x.rule \in Inside[Top.rule]
    BY <1>3, <1>8 DEF Within
  <2> QED
    BY <1>1, <1>2, <2>1, NotInParallel DEF Within
<1>12. TimersUp(u, r) /\ TimersHeld(u, ruleStates)
  BY <1>1, <1>2, <1>3, <1>9, TimersChanged DEF TimerInv
<1>13. TimersUp(stack', r) /\ TimersHeld(stack', ruleStates)
  BY <1>10, <1>11, <1>12, TimersPushed
<1>14. NothingBegun(stack', late)
  <2>1. stack' # <<>> => stack'[Len(stack')] = x
    BY <1>5
  <2>2. \A k \in TimerKeys : late[k] = 1 => k[1] \in Inside[r] /\ Kind[k[1]] \in Timers
    BY DEF TimerInv, Clocks, Timers
  <2> QED
    BY <1>11, <2>1, <2>2 DEF NothingBegun
<1> QED
  BY <1>1, <1>13, <1>14 DEF TimerInv

LEMMA TimersExpire ==
  ASSUME NEW r \in Roots, TimerInv(r), NEW k \in TimerKeys, Expire(k)
  PROVE  TimerInv(r)'
<1>1. /\ clock[k] = "running" /\ clock' = [clock EXCEPT ![k] = "expired"]
      /\ UNCHANGED <<stack, ruleStates, late>>
  BY DEF Expire
<1>2. Clocks(r, clock, late)
  BY DEF TimerInv
<1>3. Clocks(r, clock', late)
  <2>1. clock' \in [TimerKeys -> {"off", "running", "expired"}]
    BY <1>1, <1>2 DEF Clocks
  <2>2. \A j \in TimerKeys : clock'[j] = IF j = k THEN "expired" ELSE clock[j]
    BY <1>1, <1>2 DEF Clocks
  <2> QED
    BY <1>1, <1>2, <2>1, <2>2 DEF Clocks
<1> QED
  BY <1>1, <1>3 DEF TimerInv

\* Every step keeps the invariant of the timers.
LEMMA TimersStay ==
  ASSUME NEW r \in Roots, Calm(r), TimersApart(r), Inv(r), Inv(r)', TimerInv(r), [Next]_vars
  PROVE  TimerInv(r)'
<1>1. CASE Iterate \/ LoopAgain
  BY <1>1, TimersIterate
<1>2. CASE \/ EndIterate \/ LoopEnd \/ InputEnds \/ CutOff \/ Suspend
           \/ EndTimer \/ EndPadding \/ Join
  BY <1>2, TimersEnd
<1>3. CASE ChooseCase
  BY <1>3, TimersChoose
<1>4. CASE Perform
  BY <1>4, TimersPerform
<1>5. CASE Poll \/ StartPadding \/ Pad
  BY <1>5, TimersGoOn
<1>6. CASE CheckPasses
  BY <1>6, TimersCheck
<1>7. CASE CheckCrashes
  BY <1>7, CheckCrashesNever
<1>8. CASE StartTimer
  BY <1>8, TimersStart
<1>9. CASE Fork \/ EndTurn
  BY <1>9, TimersRound
<1>10. CASE \E w \in World : TakeTurn(w)
  BY <1>10, TimersTurn
<1>11. CASE \E k \in TimerKeys : Expire(k)
  BY <1>11, TimersExpire
<1>12. CASE Done \/ UNCHANGED vars
  BY <1>12 DEF Done, vars, TimerInv
<1> QED
  BY <1>1, <1>2, <1>3, <1>4, <1>5, <1>6, <1>7, <1>8, <1>9, <1>10, <1>11, <1>12
     DEF Next, Run

\* The invariant of a game that is calm and has its timers apart.
TimedInv == \E r \in Roots : /\ First(stack, r)
                             /\ stack = <<>> => ~crashed
                             /\ Inv(r) /\ TimerInv(r)

LEMMA InitTimed ==
  ASSUME \A r \in Roots : Calm(r), Init
  PROVE  TimedInv
<1>1. PICK r \in Roots : stack = <<Frame(r, 0)>>
  BY DEF Init
<1>2. PICK p \in Roots : First(stack, p) /\ (stack = <<>> => ~crashed) /\ Inv(p)
  BY InitGame DEF GameInv
<1>3. r \in Rule /\ Len(stack) = 1 /\ stack[1].rule = r
  BY <1>1, RulesAssumption DEF Frame
<1>4. p \in Rule /\ p = r
  <2>1. stack # <<>>
    BY <1>1
  <2> QED
    BY <1>2, <1>3, <2>1, FirstKind
<1>5. TimersUp(stack, r)
  <2> SUFFICES ASSUME NEW t \in Inside[r], Within(r, t) PROVE FALSE
    BY <1>3 DEF TimersUp
  <2> QED
    BY <1>3, NotBoth DEF Within
<1>6. TimersHeld(stack, ruleStates)
  BY NoItems DEF Init, TimersHeld
<1>7. NothingBegun(stack, late) /\ Clocks(r, clock, late)
  BY DEF Init, NothingBegun, Clocks
<1> QED
  BY <1>2, <1>4, <1>5, <1>6, <1>7 DEF TimedInv, TimerInv

\* TimersStop: a timer that is not in a branch, and has none in it, stops the
\* rules in it: after it has expired one of them at most is still done.
THEOREM StoppedInTime ==
  (\A r \in Roots : Calm(r) /\ TimersApart(r)) => (Spec => []TimersStop)
<1> SUFFICES ASSUME \A r \in Roots : Calm(r) /\ TimersApart(r)
             PROVE  Spec => []TimersStop
  OBVIOUS
<1>1. Init => TimedInv
  BY InitTimed
<1>2. TimedInv /\ [Next]_vars => TimedInv'
  <2> SUFFICES ASSUME TimedInv, [Next]_vars PROVE TimedInv'
    OBVIOUS
  <2>1. PICK r \in Roots : /\ First(stack, r)
                           /\ stack = <<>> => ~crashed
                           /\ Inv(r) /\ TimerInv(r)
    BY DEF TimedInv
  <2>2. First(stack', r) /\ (stack' = <<>> => ~crashed')
    BY <2>1, FirstStays
  <2>3. Inv(r)'
    BY <2>1, InvStays
  <2>4. TimerInv(r)'
    BY <2>1, <2>3, TimersStay
  <2>5. First(stack, r)'
    BY <2>2
  <2> QED
    BY <2>2, <2>3, <2>4, <2>5 DEF TimedInv
<1>3. TimedInv => TimersStop
  <2> SUFFICES ASSUME TimedInv, NEW k \in TimerKeys PROVE late[k] <= 1
    BY DEF TimersStop
  <2>1. late[k] \in 0..1
    BY DEF TimedInv, TimerInv, Clocks
  <2> QED
    BY <2>1
<1> QED
  BY <1>1, <1>2, <1>3, PTL DEF Spec

=============================================================================
