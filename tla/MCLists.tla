------------------------------- MODULE MCLists -------------------------------
(***************************************************************************)
(* Games for Lists.  The first is the round of                             *)
(* configs/games/rock_paper_scissors.json; a weapon is a number.           *)
(***************************************************************************)
EXTENDS Lists, TLC

List(buf, values) == [buf |-> buf, cap |-> Len(values),
                      items |-> [i \in 1..Len(values) |-> Value(values[i])]]
Names(l) == [via |-> "elements", of |-> l]
DealTo(l, m, n) == [rule |-> "deal", from |-> l, to |-> m, count |-> n]
DiscardFrom(l, n) == [rule |-> "discard", from |-> l, count |-> n, all |-> FALSE]
Do(kind, l) == [rule |-> kind, list |-> l]

Player(n) == [name |-> n, weapon |-> 1, wins |-> 0]
Weapon(n) == [name |-> n, beats |-> 1 + ((n + 1) % 3)]
Card(n) == [name |-> n]

RockPaperScissors ==
    [lists |-> "players" :> List(1, <<Player(1), Player(2), Player(3)>>)
               @@ "weapons" :> List(2, <<Weapon(1), Weapon(2), Weapon(3)>>)
               @@ "winners" :> List(3, <<>>),
     cards |-> {},
     rules |-> GameRules(2, 1..3)]

Cards ==
    [lists |-> "players" :> List(1, <<>>) @@ "winners" :> List(2, <<>>)
               @@ "deck" :> List(3, <<Card(1), Card(2), Card(3), Card(4)>>)
               @@ "hand" :> List(4, <<>>),
     cards |-> {"deck", "hand"},
     rules |-> <<
        ForEach(Names("deck"), "name", <<
            Do("shuffle", "deck"), DealTo("deck", "hand", 2),
            Do("reverse", "hand"), DealTo("hand", "deck", 3),
            Cases(<<Case("all", <<Do("sort", "deck")>>)>>)>>)>>]

\* configs/games/for_each_test.json, and what is not allowed in the end.
Extending(last) ==
    [lists |-> "list" :> List(1, <<"a", "b">>) @@ "extension" :> List(2, <<"e">>),
     cards |-> {},
     rules |-> <<
        ExtendBy("extension", Itself("extension")),
        ForEach(UpFrom(2), "round", <<
            ForEach(Itself("list"), "element", <<>>),
            ExtendBy("list", Itself("extension"))>>),
        last>>]

\* The parts of some rules.
RECURSIVE Parts(_, _, _)
Parts(rules, names, gone) ==
    {Part(rules, names, gone)} \cup UNION {
        CASE rules[i].rule = "when" ->
                UNION {Parts(rules[i].cases[c].rules, names, gone) :
                          c \in 1..Len(rules[i].cases)}
          [] rules[i].rule = "foreach" ->
                Parts(rules[i].rules, names \cup {rules[i].element},
                      gone \cup GoneOver(rules[i].query))
          [] OTHER -> {} : i \in 1..Len(rules)}

ASSUME GamesAreOrderly ==
    /\ Orderly(RockPaperScissors, {"players", "weapons"}, {"winners"},
               Parts(RockPaperScissors.rules, {}, {}))
    /\ Orderly(Cards, {"players"}, {"winners"}, Parts(Cards.rules, {}, {}))
    /\ CardsApart(RockPaperScissors) /\ CardsApart(Cards)
    /\ PlaysRounds(RockPaperScissors) /\ WithoutChoice(Parts(Cards.rules, {}, {}))

MCGames == {RockPaperScissors, Cards,
            Extending(Do("sort", "list")), Extending(DiscardFrom("list", 7)),
            Extending(DiscardFrom("list", 1))}
=============================================================================
