--------------------------------- MODULE Lists ---------------------------------
(***************************************************************************)
(* The variables of one game and the rules that work on its lists          *)
(* (lib/translator/translator.cpp 863-1022, 1287-1320, and variables.cpp): *)
(* extend, reverse, shuffle, discard, sort, deal, add, when and foreach.   *)
(*                                                                         *)
(* A list is a vector of variants in a buffer of the heap.  What makes the *)
(* rules delicate is that an element may be the address of another one, in *)
(* some buffer; that a list which grows may move to a new buffer; and that *)
(* a query whose result is not a variable puts it in one temporary, which  *)
(* the next such query overwrites.                                         *)
(*                                                                         *)
(* The rules run in one thread and are not suspended here; module          *)
(* Scheduler has that.                                                     *)
(***************************************************************************)
EXTENDS Integers, FiniteSets, SequencesExt

CONSTANTS
    Games           \* what is played: records with the fields lists, the lists
                    \* at the beginning; rules; and cards, the lists whose
                    \* elements are only moved about

ASSUME GamesAssumption ==
    \A g \in Games :
        /\ IsFiniteSet(DOMAIN g.lists)
        /\ g.lists = [l \in DOMAIN g.lists |->
              [buf |-> g.lists[l].buf, cap |-> g.lists[l].cap, items |-> g.lists[l].items]]
        /\ \A l \in DOMAIN g.lists : g.lists[l].items \in Seq(Range(g.lists[l].items))

VARIABLES
    lists,          \* the lists at the top level: each has a buffer, a capacity
                    \* and items
    returned,       \* Getter::returned, when it holds a list
    elements,       \* toplevel[element_name], for each element name
    frames,         \* the rules under way, innermost last, see Frame
    newest,         \* the newest buffer that was allocated
    game,           \* the game that is played
    crashed,        \* an address was used of what is not there any more
    over,           \* the game was ended by an exception
    before          \* history: the wins of the players before this round

vars == <<lists, returned, elements, frames, newest, game, crashed, over, before>>

\* An item is a value, or the address of the i-th item of a buffer.
Value(v) == [is |-> "value", v |-> v]
Pointer(buf, i) == [is |-> "pointer", buf |-> buf, at |-> i]

Temporary(buf, items) == [buf |-> buf, items |-> items]
Nothing == Temporary(0, <<>>)

\* A sequence of rules of which pos is the next; loop is NoLoop or ForEachState.
NoLoop == [buf |-> 0]
Frame(rules, loop) == [rules |-> rules, pos |-> 1, loop |-> loop]

Top == frames[Len(frames)]
Rule == Top.rules[Top.pos]
At(kind) ==
    /\ ~crashed /\ ~over /\ frames # <<>>
    /\ Top.pos <= Len(Top.rules) /\ Rule.rule = kind

Advanced == [frames EXCEPT ![Len(frames)].pos = @ + 1]
Advance == frames' = Advanced

Init ==
    /\ game \in Games
    /\ lists = game.lists
    /\ returned = Nothing
    /\ elements = [e \in {} |-> 0]
    /\ frames = <<Frame(game.rules, NoLoop)>>
    /\ newest = Cardinality(DOMAIN game.lists)
    /\ crashed = FALSE /\ over = FALSE
    /\ before = <<>>

-----------------------------------------------------------------------------
(* Addresses *)

Saved(loop) == loop.buf # 0 /\ loop.own

\* The buffers there are, each with its items.
Holders ==
    {Temporary(lists[l].buf, lists[l].items) : l \in DOMAIN lists}
        \cup {returned}
        \cup {Temporary(frames[i].loop.buf, frames[i].loop.items) :
                 i \in {i \in 1..Len(frames) : Saved(frames[i].loop)}}
IsLive(p) == \E h \in Holders : h.buf = p.buf /\ p.at \in 1..Len(h.items)
Slot(p) == LET h == CHOOSE h \in Holders : h.buf = p.buf IN h.items[p.at]

\* processPointer: what an address, or an address of an address, stands for.  No
\* address is taken of an address, and what is at a place seldom changes, so
\* there are no longer chains; they would count as leading nowhere.
Target(p) == IF Slot(p).is = "pointer" THEN Slot(p) ELSE p
Reaches(p) ==
    /\ IsLive(p)
    /\ Slot(p).is = "pointer" => IsLive(Slot(p)) /\ Slot(Slot(p)).is = "value"
Valid(item) == item.is = "value" \/ Reaches(item)
Read(item) == IF item.is = "pointer" THEN Slot(Target(item)).v ELSE item.v

-----------------------------------------------------------------------------
(* Faulty variants of the definitions below, one plausible slip each.      *)

AddressOf(item, buf, i) == Pointer(buf, i)      \* an address is not copied
LessOne(n, count) == IF count = 0 THEN n ELSE n - count + 1
LeftAll(s, k) == s                      \* no pop_back
AtTwo(loop) == loop.at + 2              \* the step after a suspension, always

-----------------------------------------------------------------------------
(* Queries *)

getReference(item, buf, i) == IF item.is = "pointer" THEN item ELSE Pointer(buf, i)
References(items, buf) == [i \in 1..Len(items) |-> getReference(items[i], buf, i)]

IsTemporary(q) == q.via # "itself"
NeedsToBeSaved(q) == IsTemporary(q)

\* The addresses of the players whose weapon the present one beats; the names
\* of the elements; 1, 2 and so on.
Beaten(list) ==
    LET refs == References(list.items, list.buf)
        beaten == {i \in 1..Len(refs) :
                      Read(refs[i]).weapon = Read(elements["weapon"]).beats} IN
    [n \in 1..Cardinality(beaten) |->
        refs[CHOOSE i \in beaten : Cardinality({j \in beaten : j <= i}) = n]]
Result(q) ==
    CASE q.via = "itself"   -> lists[q.of].items
      [] q.via = "collect"  -> Beaten(lists[q.of])
      [] q.via = "elements" -> [i \in 1..Len(lists[q.of].items) |->
                                   Value(Read(lists[q.of].items[i]).name)]
      [] q.via = "upfrom"   -> [i \in 1..q.to |-> Value(i)]

\* The buffer of the result: a temporary has one of its own.
BufferOf(q) == IF IsTemporary(q) THEN newest + 1 ELSE lists[q.of].buf

-----------------------------------------------------------------------------
(* Rules on lists *)

\* toplevel[name] = item, which collect does for each of the elements.
Bound(name, item) ==
    [e \in DOMAIN elements \cup {name} |-> IF e = name THEN item ELSE elements[e]]

ElementsAfter(q) ==
    IF q.via = "collect" /\ lists[q.of].items # <<>>
    THEN Bound(q.as, Last(References(lists[q.of].items, lists[q.of].buf)))
    ELSE elements

\* reserve, and the growth of a vector: a buffer that is too small is replaced.
Grown(l, n, buf) ==
    IF n <= l.cap THEN l ELSE [l EXCEPT !.buf = buf, !.cap = n]

\* The references are made after the target has been given room, so a list may
\* be extended by itself.
Extend ==
    /\ At("extend")
    /\ LET q == Rule.query
           t == lists[Rule.target]
           n == Len(t.items) + Len(Result(q))
           room == Grown(t, n, newest + 2)
           buf == IF ~IsTemporary(q) /\ q.of = Rule.target THEN room.buf ELSE BufferOf(q) IN
        /\ lists' = [lists EXCEPT
               ![Rule.target] = [room EXCEPT !.items = @ \o References(Result(q), buf)]]
        /\ returned' = IF IsTemporary(q) THEN Temporary(buf, Result(q)) ELSE returned
        /\ newest' = newest + 2
        /\ elements' = ElementsAfter(q)
    /\ Advance
    /\ UNCHANGED <<game, crashed, over, before>>

\* The count is a number, or the size of the list, a query whose result is a
\* temporary.  What is cut off is there no more.
Remaining(n, count) == n - count
Discard ==
    /\ At("discard")
    /\ LET l == lists[Rule.from]
           n == Len(l.items)
           count == IF Rule.all THEN n ELSE Rule.count IN
        /\ IF count \in 0..n
           THEN /\ lists' = [lists EXCEPT ![Rule.from].items =
                                SubSeq(@, 1, Remaining(n, count))]
                /\ UNCHANGED over
           ELSE over' = TRUE /\ UNCHANGED lists
        /\ returned' = IF Rule.all THEN Nothing ELSE returned
    /\ Advance
    /\ UNCHANGED <<elements, newest, game, crashed, before>>

\* One after the other from the back of one list to the back of the other, which
\* comes to nothing when they are the same.
Left(s, k) == SubSeq(s, 1, Len(s) - k)
Deal ==
    /\ At("deal")
    /\ LET s == lists[Rule.from].items
           k == IF Rule.count < Len(s) THEN Rule.count ELSE Len(s)
           dealt == [i \in 1..k |-> s[Len(s) + 1 - i]]
           t == lists[Rule.to] IN
        lists' = IF Rule.from = Rule.to THEN lists
                 ELSE [lists EXCEPT
                    ![Rule.from].items = Left(s, k),
                    ![Rule.to] = [Grown(t, Len(t.items) + k, newest + 1) EXCEPT
                                     !.items = @ \o dealt]]
    /\ newest' = newest + 1
    /\ Advance
    /\ UNCHANGED <<returned, elements, game, crashed, over, before>>

\* The elements change places; addresses stay what they are.
Rearrange(allowed(_)) ==
    /\ \E f \in Bijection(DOMAIN lists[Rule.list].items, DOMAIN lists[Rule.list].items) :
          LET items == [i \in DOMAIN f |-> lists[Rule.list].items[f[i]]] IN
          /\ allowed(items)
          /\ lists' = [lists EXCEPT ![Rule.list].items = items]
    /\ Advance
    /\ UNCHANGED <<returned, elements, newest, game, crashed, over, before>>

ReverseList ==
    /\ At("reverse")
    /\ LET s == lists[Rule.list].items IN
       Rearrange(LAMBDA items : \A i \in 1..Len(s) : items[i] = s[Len(s) + 1 - i])
Shuffle == At("shuffle") /\ Rearrange(LAMBDA items : TRUE)

\* By name, which only values have: get<Map> throws for an address.
Sort ==
    /\ At("sort")
    /\ \/ /\ \A i \in 1..Len(lists[Rule.list].items) : lists[Rule.list].items[i].is = "value"
          /\ Rearrange(LAMBDA items :
                \A i \in 1..(Len(items) - 1) : items[i].v.name <= items[i + 1].v.name)
       \/ /\ \E i \in 1..Len(lists[Rule.list].items) : lists[Rule.list].items[i].is = "pointer"
          /\ over' = TRUE
          /\ UNCHANGED <<lists, returned, elements, frames, newest, game, crashed, before>>

-----------------------------------------------------------------------------
(* add, when, and what the players choose *)

\* The list whose buffer this is has the item at that place changed.
Write(p, v) ==
    lists' = [l \in DOMAIN lists |->
                IF lists[l].buf = p.buf THEN [lists[l] EXCEPT !.items[p.at] = Value(v)]
                ELSE lists[l]]

Add ==
    /\ At("add")
    /\ LET p == elements[Rule.element] IN
        IF Reaches(p)
        THEN /\ Write(Target(p), [Read(p) EXCEPT !.wins = @ + 1])
             /\ Advance
             /\ UNCHANGED crashed
        ELSE crashed' = TRUE /\ UNCHANGED <<lists, frames>>
    /\ UNCHANGED <<returned, elements, newest, game, over, before>>

Weapons == {Read(lists["players"].items[i]).weapon : i \in 1..Len(lists["players"].items)}
Holds(condition) ==
    CASE condition = "unused" -> Read(elements["weapon"]).name \notin Weapons
      [] condition = "all"    -> Len(lists["winners"].items) = Len(lists["players"].items)
      [] condition = "none"   -> Len(lists["winners"].items) = 0
      [] condition = "true"   -> TRUE

\* The first case whose condition holds.  Conditions are queries, too.
When ==
    /\ At("when")
    /\ LET true == {i \in 1..Len(Rule.cases) : Holds(Rule.cases[i].condition)} IN
        frames' = IF true = {} THEN Advanced
                  ELSE Append(Advanced,
                              Frame(Rule.cases[CHOOSE i \in true : \A j \in true : i <= j].rules,
                                    NoLoop))
    /\ returned' = Nothing
    /\ UNCHANGED <<lists, elements, newest, game, crashed, over, before>>

\* The inputs of a round: every player takes some weapon.
Choose ==
    /\ At("choose")
    /\ LET s == lists["players"].items IN
        /\ \E w \in [1..Len(s) -> Rule.among] :
              lists' = [lists EXCEPT !["players"].items =
                           [i \in 1..Len(s) |-> Value([s[i].v EXCEPT !.weapon = w[i]])]]
        /\ before' = [i \in 1..Len(s) |-> s[i].v.wins]
    /\ Advance
    /\ UNCHANGED <<returned, elements, newest, game, crashed, over>>

-----------------------------------------------------------------------------
(* foreach *)

\* A result that is a temporary is moved into the state of the rule, buffer and
\* all; otherwise the state refers to the list itself.
BeginForEach ==
    /\ At("foreach")
    /\ LET q == Rule.query
           own == NeedsToBeSaved(q)
           loop == [buf |-> BufferOf(q), items |-> IF own THEN Result(q) ELSE <<>>,
                    own |-> own, query |-> q, element |-> Rule.element,
                    body |-> Rule.rules, at |-> 1, visited |-> <<>>, had |-> Result(q)] IN
        /\ frames' = Append(Advanced, Frame(<<>>, loop))
        /\ returned' = IF own THEN Nothing
                       ELSE IF IsTemporary(q) THEN Temporary(BufferOf(q), Result(q))
                       ELSE returned
        /\ newest' = newest + 1
        /\ elements' = ElementsAfter(q)
    /\ UNCHANGED <<lists, game, crashed, over, before>>

\* Where the iterator of a loop points now.
Elements(loop) ==
    IF loop.own THEN Temporary(loop.buf, loop.items)
    ELSE IF IsTemporary(loop.query) THEN returned
    ELSE Temporary(lists[loop.query.of].buf, lists[loop.query.of].items)

BodyDone(f) == f.pos > Len(f.rules)
Looping == ~crashed /\ ~over /\ frames # <<>> /\ Top.loop # NoLoop /\ BodyDone(Top)
NextAt(loop) == loop.at + 1

\* The next element, if there is one; the iterator may be one into a buffer
\* that is gone, or beyond the end.
Visit ==
    /\ Looping
    /\ LET l == Top.loop
           r == Elements(l) IN
        /\ r.buf = l.buf => l.at # Len(r.items) + 1
        /\ IF r.buf = l.buf /\ l.at <= Len(r.items)
           THEN /\ elements' = Bound(l.element, getReference(r.items[l.at], r.buf, l.at))
                /\ frames' = [frames EXCEPT ![Len(frames)] =
                     Frame(l.body, [l EXCEPT !.at = NextAt(l),
                                             !.visited = Append(@, r.items[l.at])])]
                /\ UNCHANGED crashed
           ELSE crashed' = TRUE /\ UNCHANGED <<elements, frames>>
    /\ UNCHANGED <<lists, returned, newest, game, over, before>>

\* The rules of a case, or of the game, have been run, or those of a foreach for
\* its last element.
EndRules ==
    /\ ~crashed /\ ~over /\ frames # <<>> /\ BodyDone(Top)
    /\ Top.loop # NoLoop => LET r == Elements(Top.loop) IN
                            r.buf = Top.loop.buf /\ Top.loop.at = Len(r.items) + 1
    /\ frames' = Front(frames)
    /\ UNCHANGED <<lists, returned, elements, newest, game, crashed, over, before>>

Done == (crashed \/ over \/ frames = <<>>) /\ UNCHANGED vars

Next ==
    \/ Extend \/ Discard \/ Deal \/ ReverseList \/ Shuffle \/ Sort \/ Add \/ When \/ Choose
    \/ BeginForEach \/ Visit \/ EndRules
    \/ Done

Spec == Init /\ [][Next]_vars

-----------------------------------------------------------------------------
(***************************************************************************)
(* What a game has to keep to for the theorems about it, as that of        *)
(* rock_paper_scissors.json does.  There are lists whose items may be      *)
(* pointed at: these are fixed, and only values in them change.  There are *)
(* views, lists of such addresses.  The items of other lists may be moved  *)
(* about, but not pointed at.  And a list is left alone by the rules of a  *)
(* foreach that goes over it.  Not every document in configs/games is      *)
(* orderly: shuffle_sort_test.json adds to the items of a list of values,  *)
(* which is neither fixed nor a view.                                      *)
(*                                                                         *)
(* parts are the rules of the game, and of what is inside each of them,    *)
(* with the names of the elements around them and the lists gone over.     *)
(***************************************************************************)
Part(rules, names, gone) == [rules |-> rules, names |-> names, gone |-> gone]

MayQuery(q, g, fixed, views, part) ==
    \/ q.via \in {"itself", "elements"} /\ q.of \in DOMAIN g.lists
    \/ q.via = "collect" /\ q.of \in fixed \cup views /\ q.as \notin part.names
    \/ q.via = "upfrom" /\ q.to \in Nat

GoneOver(q) == IF IsTemporary(q) THEN {} ELSE {q.of}

MayRun(r, g, fixed, views, part, parts) ==
    LET free == DOMAIN g.lists \ (fixed \cup part.gone) IN
    \/ /\ r.rule = "extend"
       /\ r.target \in free \ g.cards
       /\ MayQuery(r.query, g, fixed, views, part)
       /\ r.query.via \in {"itself", "collect"} /\ r.query.of \in fixed \cup views
    \/ r.rule = "discard" /\ r.from \in free \ g.cards
    \/ /\ r.rule = "deal" /\ {r.from, r.to} \subseteq free /\ r.count \in Nat
       /\ r.to \in views => r.from \in views
       /\ r.from \in g.cards <=> r.to \in g.cards
    \/ r.rule \in {"reverse", "shuffle", "sort"} /\ r.list \in DOMAIN g.lists \ part.gone
    \/ r.rule = "add" /\ r.element \in part.names /\ part.gone \subseteq views
    \/ r.rule = "choose" /\ "players" \in DOMAIN g.lists \ (views \cup part.gone \cup g.cards)
    \/ /\ r.rule = "when"
       /\ \A i \in 1..Len(r.cases) : Part(r.cases[i].rules, part.names, part.gone) \in parts
    \/ /\ r.rule = "foreach" /\ r.element \notin part.names
       /\ MayQuery(r.query, g, fixed, views, part)
       /\ Part(r.rules, part.names \cup {r.element}, part.gone \cup GoneOver(r.query)) \in parts

\* Every list has a buffer of its own, and there are no addresses at first.
Orderly(g, fixed, views, parts) ==
    /\ fixed \subseteq DOMAIN g.lists /\ views \subseteq DOMAIN g.lists \ fixed
    /\ g.cards \subseteq DOMAIN g.lists \ (fixed \cup views)
    /\ \A l \in DOMAIN g.lists :
          /\ g.lists[l].buf \in 1..Cardinality(DOMAIN g.lists)
          /\ \A m \in DOMAIN g.lists : g.lists[l].buf = g.lists[m].buf => l = m
          /\ \A i \in 1..Len(g.lists[l].items) : g.lists[l].items[i].is = "value"
          /\ l \in views => g.lists[l].items = <<>>
    /\ Part(g.rules, {}, {}) \in parts
    /\ \A part \in parts :
          /\ part.rules \in Seq(Range(part.rules))
          /\ \A i \in 1..Len(part.rules) :
                MayRun(part.rules[i], g, fixed, views, part, parts)

\* No two of the cards of a game are alike.
CardsApart(g) ==
    \A l, m \in g.cards :
        \A i \in 1..Len(g.lists[l].items), j \in 1..Len(g.lists[m].items) :
            g.lists[l].items[i] = g.lists[m].items[j] => l = m /\ i = j

-----------------------------------------------------------------------------
(***************************************************************************)
(* The rules of configs/games/rock_paper_scissors.json: in each round the  *)
(* players choose a weapon; for every weapon that nobody has, those are    *)
(* gathered whose weapon it beats; and each of them has one win more.      *)
(* There are three weapons in a circle, and any number of players and of   *)
(* rounds.  The messages and the scores in the end are left out.           *)
(***************************************************************************)
Itself(l) == [via |-> "itself", of |-> l]
Collect(l) == [via |-> "collect", of |-> l, as |-> "player"]
UpFrom(n) == [via |-> "upfrom", to |-> n]
ForEach(q, element, rules) ==
    [rule |-> "foreach", query |-> q, element |-> element, rules |-> rules]
ExtendBy(l, q) == [rule |-> "extend", target |-> l, query |-> q]
DiscardAll(l) == [rule |-> "discard", from |-> l, count |-> 0, all |-> TRUE]
Case(condition, rules) == [condition |-> condition, rules |-> rules]
Cases(cases) == [rule |-> "when", cases |-> cases]
AddTo(element) == [rule |-> "add", element |-> element]

GatherRules == <<ExtendBy("winners", Collect("players"))>>
WeaponRules == <<Cases(<<Case("unused", GatherRules)>>)>>
WinnerRules == <<AddTo("winner")>>
WonRules == <<ForEach(Itself("winners"), "winner", WinnerRules)>>
RoundRules(weapons) ==
    <<[rule |-> "choose", among |-> weapons],
      DiscardAll("winners"),
      ForEach(Itself("weapons"), "weapon", WeaponRules),
      Cases(<<Case("all", <<>>), Case("none", <<>>), Case("true", WonRules)>>)>>
GameRules(rounds, weapons) == <<ForEach(UpFrom(rounds), "round", RoundRules(weapons))>>

PlaysRounds(g) ==
    LET s == g.lists["weapons"].items
        p == g.lists["players"].items IN
    /\ {"players", "weapons", "winners"} \subseteq DOMAIN g.lists
    /\ Len(s) = 3
    /\ \A i, j \in 1..3 : s[i].v.name = s[j].v.name => i = j
    /\ s[1].v.beats = s[3].v.name /\ s[2].v.beats = s[1].v.name /\ s[3].v.beats = s[2].v.name
    /\ \A i \in 1..Len(p) :
          /\ p[i].v = [name |-> p[i].v.name, weapon |-> p[i].v.weapon, wins |-> p[i].v.wins]
          /\ p[i].v.wins \in Nat
    /\ g.rules = GameRules(g.rules[1].query.to, {s[i].v.name : i \in 1..3})

\* Nobody chooses anything.
WithoutChoice(parts) ==
    \A part \in parts : \A i \in 1..Len(part.rules) : part.rules[i].rule # "choose"

-----------------------------------------------------------------------------
(* Properties *)

\* Nothing that is gone is used, and whatever can still be reached is there: the
\* addresses in the lists, those in the elements a foreach has yet to visit, and
\* the element each foreach is at.
AddressesLive ==
    /\ ~crashed
    /\ \A l \in DOMAIN lists : \A i \in 1..Len(lists[l].items) : Valid(lists[l].items[i])
    /\ \A i \in 1..Len(frames) : frames[i].loop # NoLoop =>
          /\ \A j \in 1..Len(frames[i].loop.items) : Valid(frames[i].loop.items[j])
          /\ i < Len(frames) \/ ~BodyDone(frames[i]) =>
                Valid(elements[frames[i].loop.element])

\* A foreach visits the elements its list had when it began, each once and in
\* order, whatever queries its rules make.
EachVisited ==
    [][\A i \in 1..Len(frames) : Len(frames') < i /\ frames[i].loop # NoLoop =>
          frames[i].loop.visited = frames[i].loop.had]_vars

\* Rock, paper, scissors: at the end of a round those have one more win whose
\* weapon beats the other one that was chosen; if all three or only one were, it
\* is a tie.
Players == lists["players"].items
BeatsOf(w) ==
    LET s == lists["weapons"].items IN
    s[CHOOSE i \in 1..Len(s) : s[i].v.name = w].v.beats
Won(i) ==
    LET chosen == {Players[j].v.weapon : j \in 1..Len(Players)} IN
    Cardinality(chosen) = 2 /\ BeatsOf(Players[i].v.weapon) \in chosen
RoundEnds ==
    before # <<>> /\ Len(frames) = 2 /\ frames[2].loop # NoLoop /\ BodyDone(frames[2])
RoundsScored ==
    RoundEnds => \A i \in 1..Len(Players) :
                    Players[i].v.wins = before[i] + IF Won(i) THEN 1 ELSE 0

\* The cards of a game are each in one place, however they are dealt, shuffled,
\* turned over and sorted.
Places(card) ==
    UNION {{<<l, i>> : i \in {i \in 1..Len(lists[l].items) : lists[l].items[i] = card}} :
              l \in game.cards}
CardsKept ==
    \A l \in game.cards : \A i \in 1..Len(game.lists[l].items) :
        Cardinality(Places(game.lists[l].items[i])) = 1
=============================================================================
