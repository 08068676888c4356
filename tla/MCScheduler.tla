----------------------------- MODULE MCScheduler -----------------------------
(***************************************************************************)
(* Some games for Scheduler, as small as the rules in them allow.  A game  *)
(* is a tree; the row of each rule gives its kind, its subrules and the    *)
(* size of its list.                                                       *)
(***************************************************************************)
EXTENDS Scheduler

Row(kind, body, size) == [kind |-> kind, body |-> body, size |-> size]

Step == Row("step", <<>>, 0)
Input == Row("input", <<>>, 0)

Rows ==
    \* Branches: a foreach, an endless loop and an input.
    1 :> Row("list", <<2, 13>>, 0) @@
    2 :> Row("inparallel", <<3, 8, 11>>, 0) @@
    3 :> Row("foreach", <<4>>, 2) @@
    4 :> Row("list", <<5, 6>>, 0) @@
    5 :> Step @@
    6 :> Row("cases", <<7>>, 0) @@
    7 :> Row("list", <<12>>, 0) @@
    8 :> Row("loop", <<9>>, 0) @@
    9 :> Row("list", <<10>>, 0) @@
    10 :> Step @@ 11 :> Input @@ 12 :> Step @@ 13 :> Step @@
    \* The same rules for each of two elements, with branches inside.
    14 :> Row("list", <<15, 16>>, 0) @@
    15 :> Row("parallelfor", <<17>>, 2) @@
    16 :> Step @@
    17 :> Row("list", <<18>>, 0) @@
    18 :> Row("foreach", <<19>>, 2) @@
    19 :> Row("list", <<20, 21>>, 0) @@
    20 :> Input @@
    21 :> Row("inparallel", <<22, 25>>, 0) @@
    22 :> Row("foreach", <<23>>, 1) @@
    23 :> Row("list", <<24>>, 0) @@
    24 :> Step @@
    25 :> Row("cases", <<26>>, 0) @@
    26 :> Row("list", <<27>>, 0) @@
    27 :> Step @@
    \* Timers, in a loop that runs them again.
    28 :> Row("list", <<29, 30>>, 0) @@
    29 :> Row("loop", <<31>>, 0) @@
    30 :> Step @@
    31 :> Row("list", <<32>>, 0) @@
    32 :> Row("atmost", <<33>>, 0) @@
    33 :> Row("list", <<34, 38>>, 0) @@
    34 :> Row("foreach", <<35>>, 2) @@
    35 :> Row("list", <<36, 37>>, 0) @@
    36 :> Input @@ 37 :> Step @@
    38 :> Row("exact", <<39>>, 0) @@
    39 :> Row("list", <<40>>, 0) @@
    40 :> Row("track", <<41>>, 0) @@
    41 :> Row("list", <<42>>, 0) @@
    42 :> Step @@
    \* A timer in a branch.
    43 :> Row("list", <<44>>, 0) @@
    44 :> Row("inparallel", <<45, 49>>, 0) @@
    45 :> Row("atmost", <<46>>, 0) @@
    46 :> Row("list", <<47, 48, 50>>, 0) @@
    47 :> Step @@ 48 :> Step @@ 49 :> Step @@ 50 :> Step @@
    \* A parallelfor in a parallelfor.
    51 :> Row("list", <<52>>, 0) @@
    52 :> Row("parallelfor", <<53>>, 2) @@
    53 :> Row("list", <<54>>, 0) @@
    54 :> Row("parallelfor", <<55>>, 2) @@
    55 :> Row("list", <<56>>, 0) @@
    56 :> Row("foreach", <<57>>, 1) @@
    57 :> Row("list", <<58>>, 0) @@
    58 :> Step

MCRule == DOMAIN Rows
MCKind == [r \in MCRule |-> Rows[r].kind]
MCBody == [r \in MCRule |-> Rows[r].body]
MCSize == [r \in MCRule |-> Rows[r].size]
=============================================================================
