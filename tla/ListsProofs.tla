------------------------------ MODULE ListsProofs ------------------------------
(***************************************************************************)
(* Proofs about Lists, for every game that is orderly, whatever its rules, *)
(* lists and elements: no address outlives what it points to, a foreach    *)
(* visits what its list had, and no card is lost.  Of rock, paper,         *)
(* scissors, with any number of players and of rounds: each round gives    *)
(* its winners one win more, and nobody else.                              *)
(***************************************************************************)
EXTENDS Lists, SequenceTheorems, FiniteSetTheorems, WellFoundedInduction, TLAPS

IsSequence(s) == s \in Seq(Range(s))

-----------------------------------------------------------------------------
(* The invariant *)

\* An address of an item of a fixed list, and what may be in other lists.
Aims(p, ls, fixed) ==
    /\ p.is = "pointer"
    /\ \E l \in fixed : p.buf = ls[l].buf /\ p.at \in 1..Len(ls[l].items)
ItemOK(x, ls, fixed) == x.is = "value" \/ Aims(x, ls, fixed)

\* The lists, when n is the newest buffer.
ListOK(l, ls, n, fixed, views) ==
    /\ ls[l] = [buf |-> ls[l].buf, cap |-> ls[l].cap, items |-> ls[l].items]
    /\ ls[l].buf \in 1..n
    /\ IsSequence(ls[l].items)
    /\ \A i \in 1..Len(ls[l].items) :
          /\ ItemOK(ls[l].items[i], ls, fixed)
          /\ l \in fixed => ls[l].items[i].is = "value"
          /\ l \in views => Aims(ls[l].items[i], ls, fixed)
ListsOK(ls, n, g, fixed, views) ==
    /\ n \in Nat
    /\ ls = [l \in DOMAIN g.lists |-> ls[l]]
    /\ \A l \in DOMAIN g.lists : ListOK(l, ls, n, fixed, views)
    /\ \A l, m \in DOMAIN g.lists : ls[l].buf = ls[m].buf => l = m

IsLoop(f) == f.loop # NoLoop
NamesOf(fs, n) == {fs[i].loop.element : i \in {i \in 1..n : IsLoop(fs[i])}}
GoneOf(fs, n) ==
    {fs[i].loop.query.of : i \in {i \in 1..n : IsLoop(fs[i]) /\ ~fs[i].loop.own}}

\* Each frame runs a part of the game; only the foreach that was begun last may
\* have visited nothing yet.
FrameOK(fs, i, parts) ==
    LET f == fs[i] IN
    /\ f = [rules |-> f.rules, pos |-> f.pos, loop |-> f.loop]
    /\ IsSequence(f.rules)
    /\ f.pos \in 1..(Len(f.rules) + 1)
    /\ ~IsLoop(f) => Part(f.rules, NamesOf(fs, i), GoneOf(fs, i)) \in parts
    /\ IsLoop(f) =>
          /\ Part(f.loop.body, NamesOf(fs, i), GoneOf(fs, i)) \in parts
          /\ f.loop.element \notin NamesOf(fs, i - 1)
          /\ IF f.loop.at = 1 THEN i = Len(fs) /\ f.rules = <<>>
             ELSE f.rules = f.loop.body
FramesOK(fs, parts) ==
    /\ IsSequence(fs)
    /\ \A i \in 1..Len(fs) : FrameOK(fs, i, parts)

\* A foreach has visited what its list had, up to where it is.
LoopOK(p, ls, n, fixed) ==
    /\ p = [buf |-> p.buf, items |-> p.items, own |-> p.own, query |-> p.query,
            element |-> p.element, body |-> p.body, at |-> p.at,
            visited |-> p.visited, had |-> p.had]
    /\ p.buf \in 1..n
    /\ IsSequence(p.had)
    /\ p.at \in 1..(Len(p.had) + 1)
    /\ p.visited = SubSeq(p.had, 1, p.at - 1)
    /\ \A i \in 1..Len(p.had) : ItemOK(p.had[i], ls, fixed)
    /\ p.own \in BOOLEAN /\ p.own = IsTemporary(p.query)
    /\ IF p.own THEN p.items = p.had /\ \A l \in DOMAIN ls : p.buf # ls[l].buf
       ELSE /\ p.items = <<>>
            /\ p.query.of \in DOMAIN ls
            /\ p.buf = ls[p.query.of].buf /\ p.had = ls[p.query.of].items
LoopsOK(fs, ls, n, fixed) ==
    /\ \A i \in 1..Len(fs) : IsLoop(fs[i]) => LoopOK(fs[i].loop, ls, n, fixed)
    /\ \A i, j \in 1..Len(fs) :
          IsLoop(fs[i]) /\ fs[i].loop.own /\ IsLoop(fs[j]) /\ fs[j].loop.own
          /\ fs[i].loop.buf = fs[j].loop.buf => i = j

\* The element of a foreach is the address of an item of a fixed list, or of one
\* of what it goes over.
ElementOK(e, p, ls, fixed) ==
    \/ Aims(e, ls, fixed)
    \/ /\ e.is = "pointer" /\ e.buf = p.buf
       /\ e.at \in 1..Len(p.had) /\ p.had[e.at].is = "value"
ElementsOK(fs, els, ls, fixed) ==
    \A i \in 1..Len(fs) : IsLoop(fs[i]) /\ fs[i].loop.at # 1 =>
        /\ fs[i].loop.element \in DOMAIN els
        /\ ElementOK(els[fs[i].loop.element], fs[i].loop, ls, fixed)

\* The temporary is in a buffer of its own.
ReturnedOK(ret, fs, ls, n) ==
    /\ ret.buf \in 0..n
    /\ \A l \in DOMAIN ls : ret.buf # ls[l].buf
    /\ \A i \in 1..Len(fs) : IsLoop(fs[i]) /\ fs[i].loop.own => ret.buf # fs[i].loop.buf

Inv(fixed, views, parts) ==
    /\ ListsOK(lists, newest, game, fixed, views)
    /\ FramesOK(frames, parts)
    /\ LoopsOK(frames, lists, newest, fixed)
    /\ ElementsOK(frames, elements, lists, fixed)
    /\ ReturnedOK(returned, frames, lists, newest)
    /\ ~crashed

-----------------------------------------------------------------------------
(* Sequences of anything *)

LEMMA AnySequence ==
  ASSUME NEW s, IsSequence(s)
  PROVE  /\ Len(s) \in Nat /\ DOMAIN s = 1..Len(s)
         /\ s = [i \in 1..Len(s) |-> s[i]]
  BY DEF IsSequence

LEMMA MadeSequence ==
  ASSUME NEW n \in Nat, NEW f, f = [i \in 1..n |-> f[i]]
  PROVE  IsSequence(f) /\ Len(f) = n
<1>1. DOMAIN f = 1..n /\ \A i \in 1..n : f[i] \in Range(f)
  BY DEF Range
<1>2. f \in [1..n -> Range(f)]
  BY <1>1
<1>3. f \in Seq(Range(f)) /\ Len(f) = n
  BY <1>1, <1>2, IsASeq
<1> QED
  BY <1>3 DEF IsSequence

LEMMA WiderSequence ==
  ASSUME NEW T, NEW s \in Seq(T)
  PROVE  IsSequence(s)
<1>1. Len(s) \in Nat /\ s = [i \in 1..Len(s) |-> s[i]]
  OBVIOUS
<1> QED
  BY <1>1, MadeSequence

LEMMA SameSequence ==
  ASSUME NEW s, IsSequence(s), NEW t, IsSequence(t), Len(s) = Len(t),
         \A i \in 1..Len(s) : s[i] = t[i]
  PROVE  s = t
  BY AnySequence

LEMMA NoSequence == IsSequence(<<>>) /\ Len(<<>>) = 0
<1>1. <<>> \in Seq({}) /\ Len(<<>>) = 0
  OBVIOUS
<1> QED
  BY <1>1, WiderSequence

LEMMA EmptySequence ==
  ASSUME NEW s, IsSequence(s)
  PROVE  s = <<>> <=> Len(s) = 0
  BY NoSequence, SameSequence

\* Two sequences are over one set.
LEMMA OverBoth ==
  ASSUME NEW s, IsSequence(s), NEW t, IsSequence(t)
  PROVE  \E T : s \in Seq(T) /\ t \in Seq(T)
<1> DEFINE T == Range(s) \cup Range(t)
<1>1. s \in Seq(T) /\ t \in Seq(T)
  BY SeqMonotonic DEF IsSequence
<1> QED
  BY <1>1

LEMMA JoinedSequences ==
  ASSUME NEW s, IsSequence(s), NEW t, IsSequence(t)
  PROVE  /\ IsSequence(s \o t) /\ Len(s \o t) = Len(s) + Len(t)
         /\ \A i \in 1..Len(s) : (s \o t)[i] = s[i]
         /\ \A i \in 1..Len(t) : (s \o t)[Len(s) + i] = t[i]
<1>1. PICK T : s \in Seq(T) /\ t \in Seq(T)
  BY OverBoth
<1>2. /\ s \o t \in Seq(T) /\ Len(s \o t) = Len(s) + Len(t)
      /\ \A i \in 1..Len(s) : (s \o t)[i] = s[i]
      /\ \A i \in 1..Len(t) : (s \o t)[Len(s) + i] = t[i]
  BY <1>1
<1> QED
  BY <1>2, WiderSequence

LEMMA CutSequence ==
  ASSUME NEW s, IsSequence(s), NEW n \in 0..Len(s)
  PROVE  /\ IsSequence(SubSeq(s, 1, n)) /\ Len(SubSeq(s, 1, n)) = n
         /\ \A i \in 1..n : SubSeq(s, 1, n)[i] = s[i]
<1>0. Len(s) \in Nat /\ n \in Nat /\ s \in Seq(Range(s))
  BY AnySequence DEF IsSequence
<1>1. /\ SubSeq(s, 1, n) \in Seq(Range(s)) /\ Len(SubSeq(s, 1, n)) = n
      /\ \A i \in 1..n : SubSeq(s, 1, n)[i] = s[i]
  BY <1>0
<1> QED
  BY <1>1, WiderSequence

LEMMA LongerSequence ==
  ASSUME NEW s, IsSequence(s), NEW x
  PROVE  /\ IsSequence(Append(s, x)) /\ Len(Append(s, x)) = Len(s) + 1
         /\ \A i \in 1..Len(s) : Append(s, x)[i] = s[i]
         /\ Append(s, x)[Len(s) + 1] = x
<1> DEFINE T == Range(s) \cup {x}
<1>1. s \in Seq(T) /\ x \in T
  BY SeqMonotonic DEF IsSequence
<1> HIDE DEF T
<1>2. /\ Append(s, x) \in Seq(T) /\ Len(Append(s, x)) = Len(s) + 1
      /\ \A i \in 1..Len(s) : Append(s, x)[i] = s[i]
      /\ Append(s, x)[Len(s) + 1] = x
  BY <1>1
<1> QED
  BY <1>2, WiderSequence

LEMMA ShorterSequence ==
  ASSUME NEW s, IsSequence(s), s # <<>>
  PROVE  /\ Len(s) \in Nat \ {0}
         /\ IsSequence(Front(s)) /\ Len(Front(s)) = Len(s) - 1
         /\ \A i \in 1..(Len(s) - 1) : Front(s)[i] = s[i]
<1>1. Len(s) \in Nat \ {0}
  BY AnySequence, EmptySequence
<1>2. Len(s) - 1 \in 0..Len(s)
  BY <1>1
<1> QED
  BY <1>1, <1>2, CutSequence DEF Front

\* An element changed.
LEMMA ChangedSequence ==
  ASSUME NEW s, IsSequence(s), NEW k \in 1..Len(s), NEW x
  PROVE  LET t == [s EXCEPT ![k] = x] IN
         /\ IsSequence(t) /\ Len(t) = Len(s) /\ t[k] = x
         /\ \A i \in 1..Len(s) : i # k => t[i] = s[i]
<1> DEFINE t == [s EXCEPT ![k] = x]
<1>1. Len(s) \in Nat /\ t = [i \in 1..Len(s) |-> t[i]] /\ t[k] = x
      /\ \A i \in 1..Len(s) : i # k => t[i] = s[i]
  BY AnySequence
<1> HIDE DEF t
<1>2. IsSequence(t) /\ Len(t) = Len(s)
  BY <1>1, MadeSequence
<1> QED
  BY <1>1, <1>2 DEF t

LEMMA PartOfSequence ==
  ASSUME NEW s, IsSequence(s), NEW n \in 1..Len(s)
  PROVE  Append(SubSeq(s, 1, n - 1), s[n]) = SubSeq(s, 1, n)
<1> DEFINE a == SubSeq(s, 1, n - 1)
           b == SubSeq(s, 1, n)
           c == Append(a, s[n])
<1>0. Len(s) \in Nat /\ n - 1 \in 0..Len(s) /\ n \in 0..Len(s)
  BY AnySequence
<1>1. IsSequence(a) /\ Len(a) = n - 1 /\ \A i \in 1..(n - 1) : a[i] = s[i]
  BY <1>0, CutSequence
<1>2. IsSequence(b) /\ Len(b) = n /\ \A i \in 1..n : b[i] = s[i]
  BY <1>0, CutSequence
<1> HIDE DEF a, b
<1>3. IsSequence(c) /\ Len(c) = n - 1 + 1 /\ c[n - 1 + 1] = s[n]
      /\ \A i \in 1..(n - 1) : c[i] = a[i]
  BY <1>1, LongerSequence
<1> HIDE DEF c
<1>4. Len(c) = Len(b) /\ \A i \in 1..Len(c) : c[i] = b[i]
  BY <1>0, <1>1, <1>2, <1>3
<1>5. c = b
  BY <1>2, <1>3, <1>4, SameSequence
<1> QED
  BY <1>5 DEF a, b, c

\* What u has is from s or from t.
From(u, s, t) ==
    /\ IsSequence(u)
    /\ \A i \in 1..Len(u) :
          (\E j \in 1..Len(s) : u[i] = s[j]) \/ (\E j \in 1..Len(t) : u[i] = t[j])

LEMMA JoinedItems ==
  ASSUME NEW s, IsSequence(s), NEW t, IsSequence(t)
  PROVE  From(s \o t, s, t)
<1>1. Len(s) \in Nat /\ Len(t) \in Nat
  BY AnySequence
<1>2. /\ IsSequence(s \o t) /\ Len(s \o t) = Len(s) + Len(t)
      /\ \A i \in 1..Len(s) : (s \o t)[i] = s[i]
      /\ \A i \in 1..Len(t) : (s \o t)[Len(s) + i] = t[i]
  BY JoinedSequences
<1>3. ASSUME NEW i \in 1..(Len(s) + Len(t))
      PROVE  i \in 1..Len(s) \/ \E j \in 1..Len(t) : i = Len(s) + j
  <2>1. CASE i \in 1..Len(s)
    BY <2>1
  <2>2. CASE i \notin 1..Len(s)
    <3>1. i - Len(s) \in 1..Len(t) /\ i = Len(s) + (i - Len(s))
      BY <1>1, <2>2
    <3> QED
      BY <3>1
  <2> QED
    BY <2>1, <2>2
<1> DEFINE u == s \o t
<1>4. \A i \in 1..Len(u) :
         (\E j \in 1..Len(s) : u[i] = s[j]) \/ (\E j \in 1..Len(t) : u[i] = t[j])
  BY <1>2, <1>3
<1> QED
  BY <1>2, <1>4 DEF From

-----------------------------------------------------------------------------
(* Addresses *)

LEMMA OneHolder ==
  ASSUME NEW fixed, NEW views, NEW parts, Inv(fixed, views, parts),
         NEW p, NEW h \in Holders, NEW k \in Holders, h.buf = p.buf, k.buf = p.buf,
         p.buf # returned.buf
  PROVE  h = k
<1> DEFINE L == {Temporary(lists[l].buf, lists[l].items) : l \in DOMAIN lists}
           F == {Temporary(frames[i].loop.buf, frames[i].loop.items) :
                    i \in {i \in 1..Len(frames) : Saved(frames[i].loop)}}
<1>1. DOMAIN lists = DOMAIN game.lists
      /\ \A l, m \in DOMAIN lists : lists[l].buf = lists[m].buf => l = m
  BY DEF Inv, ListsOK
<1>2. \A i \in 1..Len(frames) : Saved(frames[i].loop) =>
         IsLoop(frames[i]) /\ frames[i].loop.own
  BY DEF Saved, IsLoop, NoLoop
<1>3. \A i, j \in 1..Len(frames) :
         Saved(frames[i].loop) /\ Saved(frames[j].loop)
         /\ frames[i].loop.buf = frames[j].loop.buf => i = j
  BY <1>2 DEF Inv, LoopsOK
<1>4. \A i \in 1..Len(frames) : Saved(frames[i].loop) =>
         \A l \in DOMAIN lists : frames[i].loop.buf # lists[l].buf
  BY <1>2 DEF Inv, LoopsOK, LoopOK
<1>5. h \in L \cup F /\ k \in L \cup F
  BY DEF Holders
<1>6. CASE h \in L /\ k \in L
  BY <1>1, <1>6 DEF Temporary
<1>7. CASE h \in F /\ k \in F
  BY <1>3, <1>7 DEF Temporary
<1>8. CASE h \in L /\ k \in F
  BY <1>4, <1>8 DEF Temporary
<1>9. CASE h \in F /\ k \in L
  BY <1>4, <1>9 DEF Temporary
<1> QED
  BY <1>5, <1>6, <1>7, <1>8, <1>9

\* What is at a place in a list, or in what a foreach has saved.
LEMMA InList ==
  ASSUME NEW fixed, NEW views, NEW parts, Inv(fixed, views, parts),
         NEW p, NEW l \in DOMAIN lists,
         p.buf = lists[l].buf, p.at \in 1..Len(lists[l].items)
  PROVE  IsLive(p) /\ Slot(p) = lists[l].items[p.at]
<1> DEFINE h == Temporary(lists[l].buf, lists[l].items)
<1>1. h \in Holders /\ h.buf = p.buf /\ h.items = lists[l].items
  BY DEF Holders, Temporary
<1>2. p.buf # returned.buf
  BY DEF Inv, ReturnedOK
<1> HIDE DEF h
<1>3. \A k \in Holders : k.buf = p.buf => k = h
  BY <1>1, <1>2, OneHolder
<1>4. (CHOOSE k \in Holders : k.buf = p.buf) = h
  BY <1>1, <1>3
<1> QED
  BY <1>1, <1>4 DEF IsLive, Slot

LEMMA InLoop ==
  ASSUME NEW fixed, NEW views, NEW parts, Inv(fixed, views, parts),
         NEW p, NEW i \in 1..Len(frames), IsLoop(frames[i]), frames[i].loop.own,
         p.buf = frames[i].loop.buf, p.at \in 1..Len(frames[i].loop.items)
  PROVE  IsLive(p) /\ Slot(p) = frames[i].loop.items[p.at]
<1> DEFINE h == Temporary(frames[i].loop.buf, frames[i].loop.items)
<1>0. frames[i].loop.buf # 0
  <2>1. LoopOK(frames[i].loop, lists, newest, fixed) /\ newest \in Nat
    BY DEF Inv, LoopsOK, ListsOK
  <2>2. frames[i].loop.buf \in 1..newest
    BY <2>1 DEF LoopOK
  <2> QED
    BY <2>1, <2>2
<1>1. h \in Holders /\ h.buf = p.buf /\ h.items = frames[i].loop.items
  BY <1>0 DEF Holders, Temporary, Saved
<1>2. p.buf # returned.buf
  BY DEF Inv, ReturnedOK
<1> HIDE DEF h
<1>3. \A k \in Holders : k.buf = p.buf => k = h
  BY <1>1, <1>2, OneHolder
<1>4. (CHOOSE k \in Holders : k.buf = p.buf) = h
  BY <1>1, <1>3
<1> QED
  BY <1>1, <1>4 DEF IsLive, Slot

\* An address of an item of a fixed list leads to a value.
LEMMA AimReaches ==
  ASSUME NEW fixed, NEW views, NEW parts, Inv(fixed, views, parts),
         Orderly(game, fixed, views, parts), NEW p, Aims(p, lists, fixed)
  PROVE  /\ Reaches(p) /\ Target(p) = p
         /\ \E l \in fixed : p.buf = lists[l].buf /\ p.at \in 1..Len(lists[l].items)
<1>1. PICK l \in fixed : p.buf = lists[l].buf /\ p.at \in 1..Len(lists[l].items)
  BY DEF Aims
<1>2. l \in DOMAIN lists /\ l \in DOMAIN game.lists
  BY DEF Orderly, Inv, ListsOK
<1>3. lists[l].items[p.at].is = "value"
  BY <1>1, <1>2 DEF Inv, ListsOK, ListOK
<1>4. IsLive(p) /\ Slot(p).is = "value"
  BY <1>1, <1>2, <1>3, InList
<1> QED
  BY <1>1, <1>4 DEF Reaches, Target

LEMMA ItemValid ==
  ASSUME NEW fixed, NEW views, NEW parts, Inv(fixed, views, parts),
         Orderly(game, fixed, views, parts), NEW x, ItemOK(x, lists, fixed)
  PROVE  Valid(x)
  BY AimReaches DEF ItemOK, Valid

\* So does the element of a foreach.
LEMMA ElementReaches ==
  ASSUME NEW fixed, NEW views, NEW parts, Inv(fixed, views, parts),
         Orderly(game, fixed, views, parts),
         NEW i \in 1..Len(frames), IsLoop(frames[i]),
         NEW e, ElementOK(e, frames[i].loop, lists, fixed)
  PROVE  /\ Reaches(e) /\ Target(e) = e
         /\ \/ Aims(e, lists, fixed)
            \/ e.buf = frames[i].loop.buf
<1>1. CASE Aims(e, lists, fixed)
  BY <1>1, AimReaches
<1>2. CASE /\ e.is = "pointer" /\ e.buf = frames[i].loop.buf
           /\ e.at \in 1..Len(frames[i].loop.had)
           /\ frames[i].loop.had[e.at].is = "value"
  <2>0. LoopOK(frames[i].loop, lists, newest, fixed)
    BY DEF Inv, LoopsOK
  <2>1. IsLive(e) /\ Slot(e).is = "value"
    <3>1. CASE frames[i].loop.own
      <4>1. frames[i].loop.items = frames[i].loop.had
        BY <2>0, <3>1 DEF LoopOK
      <4> QED
        BY <1>2, <3>1, <4>1, InLoop
    <3>2. CASE ~frames[i].loop.own
      <4> DEFINE l == frames[i].loop.query.of
      <4>1. l \in DOMAIN lists /\ frames[i].loop.buf = lists[l].buf
            /\ frames[i].loop.had = lists[l].items
        BY <2>0, <3>2 DEF LoopOK
      <4> QED
        BY <1>2, <4>1, InList
    <3> QED
      BY <3>1, <3>2
  <2> QED
    BY <1>2, <2>1 DEF Reaches, Target
<1> QED
  BY <1>1, <1>2 DEF ElementOK

LEMMA InvAddresses ==
  ASSUME NEW fixed, NEW views, NEW parts, Inv(fixed, views, parts),
         Orderly(game, fixed, views, parts)
  PROVE  AddressesLive
<1>1. \A l \in DOMAIN lists : \A i \in 1..Len(lists[l].items) : Valid(lists[l].items[i])
  <2> SUFFICES ASSUME NEW l \in DOMAIN lists, NEW i \in 1..Len(lists[l].items)
               PROVE  Valid(lists[l].items[i])
    OBVIOUS
  <2>1. ItemOK(lists[l].items[i], lists, fixed)
    BY DEF Inv, ListsOK, ListOK
  <2> QED
    BY <2>1, ItemValid
<1>2. ASSUME NEW i \in 1..Len(frames), frames[i].loop # NoLoop
      PROVE  /\ \A j \in 1..Len(frames[i].loop.items) : Valid(frames[i].loop.items[j])
             /\ i < Len(frames) \/ ~BodyDone(frames[i]) =>
                   Valid(elements[frames[i].loop.element])
  <2>0. IsLoop(frames[i]) /\ LoopOK(frames[i].loop, lists, newest, fixed)
        /\ FrameOK(frames, i, parts)
    BY <1>2 DEF IsLoop, Inv, LoopsOK, FramesOK
  <2>1. ASSUME NEW j \in 1..Len(frames[i].loop.items)
        PROVE  Valid(frames[i].loop.items[j])
    <3>1. frames[i].loop.items = frames[i].loop.had \/ frames[i].loop.items = <<>>
      BY <2>0 DEF LoopOK
    <3>2. frames[i].loop.items # <<>>
      BY NoSequence
    <3>3. ItemOK(frames[i].loop.items[j], lists, fixed)
      BY <2>0, <3>1, <3>2 DEF LoopOK
    <3> QED
      BY <3>3, ItemValid
  <2>2. ASSUME i < Len(frames) \/ ~BodyDone(frames[i])
        PROVE  Valid(elements[frames[i].loop.element])
    <3>1. frames[i].loop.at # 1
      <4> SUFFICES ASSUME frames[i].loop.at = 1 PROVE FALSE
        OBVIOUS
      <4>1. i = Len(frames) /\ frames[i].rules = <<>> /\ frames[i].pos \in 1..(Len(frames[i].rules) + 1)
        BY <2>0 DEF FrameOK
      <4>2. BodyDone(frames[i]) /\ ~(i < Len(frames))
        BY <4>1, NoSequence DEF BodyDone
      <4> QED
        BY <2>2, <4>2
    <3>2. ElementOK(elements[frames[i].loop.element], frames[i].loop, lists, fixed)
      BY <2>0, <3>1 DEF Inv, ElementsOK
    <3> QED
      BY <2>0, <3>2, ElementReaches DEF Valid
  <2> QED
    BY <2>1, <2>2
<1> QED
  BY <1>1, <1>2 DEF AddressesLive, Inv

-----------------------------------------------------------------------------
(* The lists change, and the rules under way stay where they are *)

LEMMA AimsKept ==
  ASSUME NEW ls, NEW ms, NEW fixed, NEW p,
         \A l \in fixed : ms[l].buf = ls[l].buf /\ Len(ms[l].items) = Len(ls[l].items),
         Aims(p, ls, fixed)
  PROVE  Aims(p, ms, fixed)
  BY DEF Aims

\* The list l has changed from ls to ms, and the newest buffer from n to k.
Changed(l, ls, ms, n, k, fixed, views) ==
    /\ ms[l] = [buf |-> ms[l].buf, cap |-> ms[l].cap, items |-> ms[l].items]
    /\ ms[l].buf = ls[l].buf \/ ms[l].buf \in (n + 1)..k
    /\ IsSequence(ms[l].items)
    /\ \A i \in 1..Len(ms[l].items) :
          /\ ItemOK(ms[l].items[i], ls, fixed)
          /\ l \in fixed => ms[l].items[i].is = "value"
          /\ l \in views => Aims(ms[l].items[i], ls, fixed)
    /\ l \in fixed => ms[l].buf = ls[l].buf /\ Len(ms[l].items) = Len(ls[l].items)

LEMMA ChangedLists ==
  ASSUME NEW g, NEW ls, NEW ms, NEW n, NEW k, NEW fixed, NEW views,
         fixed \subseteq DOMAIN g.lists,
         ListsOK(ls, n, g, fixed, views), k \in Nat, n <= k,
         ms = [l \in DOMAIN g.lists |-> ms[l]],
         \A l \in DOMAIN g.lists : Changed(l, ls, ms, n, k, fixed, views),
         \A l, m \in DOMAIN g.lists : ms[l].buf = ms[m].buf => l = m
  PROVE  /\ ListsOK(ms, k, g, fixed, views)
         /\ \A p : Aims(p, ls, fixed) => Aims(p, ms, fixed)
<1>1. n \in Nat
  BY DEF ListsOK
<1>2. \A p : Aims(p, ls, fixed) => Aims(p, ms, fixed)
  <2>1. \A l \in fixed : ms[l].buf = ls[l].buf /\ Len(ms[l].items) = Len(ls[l].items)
    BY DEF Changed
  <2> QED
    BY <2>1, AimsKept
<1>3. \A p : ItemOK(p, ls, fixed) => ItemOK(p, ms, fixed)
  BY <1>2 DEF ItemOK
<1>4. ASSUME NEW l \in DOMAIN g.lists
      PROVE  ListOK(l, ms, k, fixed, views)
  <2>1. Changed(l, ls, ms, n, k, fixed, views)
    OBVIOUS
  <2>2. ms[l].buf \in 1..k
    <3>1. ls[l].buf \in 1..n
      BY DEF ListsOK, ListOK
    <3>2. ms[l].buf = ls[l].buf \/ ms[l].buf \in (n + 1)..k
      BY <2>1 DEF Changed
    <3> QED
      BY <1>1, <3>1, <3>2
  <2>3. \A i \in 1..Len(ms[l].items) :
          /\ ItemOK(ms[l].items[i], ms, fixed)
          /\ l \in fixed => ms[l].items[i].is = "value"
          /\ l \in views => Aims(ms[l].items[i], ms, fixed)
    BY <1>2, <1>3, <2>1 DEF Changed
  <2>4. /\ ms[l] = [buf |-> ms[l].buf, cap |-> ms[l].cap, items |-> ms[l].items]
        /\ IsSequence(ms[l].items)
    BY <2>1 DEF Changed
  <2> QED
    BY <2>2, <2>3, <2>4 DEF ListOK
<1> QED
  BY <1>2, <1>4 DEF ListsOK

\* What is gone over has not changed.
LEMMA ChangedLoops ==
  ASSUME NEW g, NEW ls, NEW ms, NEW n, NEW k, NEW fixed, NEW views,
         ListsOK(ls, n, g, fixed, views), k \in Nat, n <= k,
         ms = [l \in DOMAIN g.lists |-> ms[l]],
         \A l \in DOMAIN g.lists : Changed(l, ls, ms, n, k, fixed, views),
         \A p : Aims(p, ls, fixed) => Aims(p, ms, fixed),
         NEW fs, LoopsOK(fs, ls, n, fixed), Len(fs) \in Nat,
         \A l \in GoneOf(fs, Len(fs)) : ms[l] = ls[l],
         NEW els, ElementsOK(fs, els, ls, fixed)
  PROVE  LoopsOK(fs, ms, k, fixed) /\ ElementsOK(fs, els, ms, fixed)
<1>1. n \in Nat /\ DOMAIN ls = DOMAIN g.lists /\ DOMAIN ms = DOMAIN g.lists
  BY DEF ListsOK
<1>2. ASSUME NEW i \in 1..Len(fs), IsLoop(fs[i])
      PROVE  LoopOK(fs[i].loop, ms, k, fixed)
  <2> DEFINE p == fs[i].loop
  <2>1. LoopOK(p, ls, n, fixed)
    BY <1>2 DEF LoopsOK
  <2>2. p.buf \in 1..n /\ p.buf \in 1..k
    <3>1. p.buf \in 1..n
      BY <2>1 DEF LoopOK
    <3> QED
      BY <1>1, <3>1
  <2>3. \A j \in 1..Len(p.had) : ItemOK(p.had[j], ms, fixed)
    BY <2>1 DEF LoopOK, ItemOK
  <2>4. IF p.own THEN p.items = p.had /\ \A l \in DOMAIN ms : p.buf # ms[l].buf
        ELSE /\ p.items = <<>>
             /\ p.query.of \in DOMAIN ms
             /\ p.buf = ms[p.query.of].buf /\ p.had = ms[p.query.of].items
    <3>1. CASE p.own
      <4>1. p.items = p.had /\ \A l \in DOMAIN ls : p.buf # ls[l].buf
        BY <2>1, <3>1 DEF LoopOK
      <4>2. ASSUME NEW l \in DOMAIN ms
            PROVE  p.buf # ms[l].buf
        <5>1. ms[l].buf = ls[l].buf \/ ms[l].buf \in (n + 1)..k
          BY <1>1 DEF Changed
        <5>2. p.buf # ls[l].buf
          BY <1>1, <4>1
        <5> HIDE DEF p
        <5> QED
          BY <1>1, <2>2, <5>1, <5>2
      <4> QED
        BY <3>1, <4>1, <4>2
    <3>2. CASE ~p.own
      <4>1. /\ p.items = <<>> /\ p.query.of \in DOMAIN ls
            /\ p.buf = ls[p.query.of].buf /\ p.had = ls[p.query.of].items
        BY <2>1, <3>2 DEF LoopOK
      <4>2. p.query.of \in GoneOf(fs, Len(fs))
        BY <1>2, <3>2 DEF GoneOf
      <4>3. ms[p.query.of] = ls[p.query.of]
        BY <4>2
      <4> QED
        BY <1>1, <3>2, <4>1, <4>3
    <3> QED
      BY <3>1, <3>2
  <2> HIDE DEF p
  <2>5. LoopOK(p, ms, k, fixed)
    BY <2>1, <2>2, <2>3, <2>4 DEF LoopOK
  <2> QED
    BY <2>5 DEF p
<1>3. LoopsOK(fs, ms, k, fixed)
  BY <1>2 DEF LoopsOK
<1>4. ElementsOK(fs, els, ms, fixed)
  BY DEF ElementsOK, ElementOK
<1> QED
  BY <1>3, <1>4

\* The frames have changed, but not the loops.
LEMMA SameNames ==
  ASSUME NEW fs, NEW gs, NEW n \in Nat, \A i \in 1..n : gs[i].loop = fs[i].loop
  PROVE  NamesOf(gs, n) = NamesOf(fs, n) /\ GoneOf(gs, n) = GoneOf(fs, n)
<1>1. {i \in 1..n : IsLoop(gs[i])} = {i \in 1..n : IsLoop(fs[i])}
  BY DEF IsLoop
<1>2. {i \in 1..n : IsLoop(gs[i]) /\ ~gs[i].loop.own}
      = {i \in 1..n : IsLoop(fs[i]) /\ ~fs[i].loop.own}
  BY DEF IsLoop
<1>3. NamesOf(gs, n) = NamesOf(fs, n)
  BY <1>1 DEF NamesOf
<1>4. GoneOf(gs, n) = GoneOf(fs, n)
  BY <1>2 DEF GoneOf
<1> QED
  BY <1>3, <1>4

LEMMA SameLoops ==
  ASSUME NEW fs, NEW gs, Len(gs) = Len(fs), Len(fs) \in Nat,
         \A i \in 1..Len(fs) : gs[i].loop = fs[i].loop,
         NEW ls, NEW n, NEW fixed, NEW els, NEW ret
  PROVE  /\ LoopsOK(fs, ls, n, fixed) => LoopsOK(gs, ls, n, fixed)
         /\ ElementsOK(fs, els, ls, fixed) => ElementsOK(gs, els, ls, fixed)
         /\ ReturnedOK(ret, fs, ls, n) => ReturnedOK(ret, gs, ls, n)
<1>1. \A i \in 1..Len(fs) : IsLoop(gs[i]) = IsLoop(fs[i])
  BY DEF IsLoop
<1>2. LoopsOK(fs, ls, n, fixed) => LoopsOK(gs, ls, n, fixed)
  BY <1>1 DEF LoopsOK
<1>3. ElementsOK(fs, els, ls, fixed) => ElementsOK(gs, els, ls, fixed)
  BY <1>1 DEF ElementsOK
<1>4. ReturnedOK(ret, fs, ls, n) => ReturnedOK(ret, gs, ls, n)
  BY <1>1 DEF ReturnedOK
<1> QED
  BY <1>2, <1>3, <1>4

LEMMA AdvancedFrames ==
  ASSUME NEW fs, NEW parts, FramesOK(fs, parts), fs # <<>>,
         fs[Len(fs)].pos <= Len(fs[Len(fs)].rules)
  PROVE  LET gs == [fs EXCEPT ![Len(fs)].pos = @ + 1] IN
         /\ FramesOK(gs, parts) /\ Len(gs) = Len(fs) /\ Len(fs) \in Nat \ {0}
         /\ \A i \in 1..Len(fs) : gs[i].loop = fs[i].loop /\ gs[i].rules = fs[i].rules
         /\ gs[Len(fs)].loop.at # 1 \/ ~IsLoop(gs[Len(fs)])
<1> DEFINE n == Len(fs)
           f == fs[n]
           h == [f EXCEPT !.pos = @ + 1]
           gs == [fs EXCEPT ![n].pos = @ + 1]
<1>1. IsSequence(fs) /\ n \in Nat \ {0} /\ n \in 1..Len(fs)
  BY AnySequence, EmptySequence DEF FramesOK
<1>2. FrameOK(fs, n, parts) /\ f.pos \in 1..(Len(f.rules) + 1) /\ IsSequence(f.rules)
      /\ Len(f.rules) \in Nat
  BY <1>1, AnySequence DEF FramesOK, FrameOK
<1>3. h = [rules |-> f.rules, pos |-> f.pos + 1, loop |-> f.loop]
  BY <1>2 DEF FrameOK
<1>4. gs = [fs EXCEPT ![n] = h]
  BY <1>1, AnySequence
<1> HIDE DEF gs, h
<1>5. /\ IsSequence(gs) /\ Len(gs) = Len(fs) /\ gs[n] = h
      /\ \A i \in 1..n : i # n => gs[i] = fs[i]
  <2> DEFINE t == [fs EXCEPT ![n] = h]
  <2>1. /\ IsSequence(t) /\ Len(t) = Len(fs) /\ t[n] = h
        /\ \A i \in 1..Len(fs) : i # n => t[i] = fs[i]
    <3> HIDE DEF n
    <3> QED
      BY <1>1, ChangedSequence
  <2> QED
    BY <1>4, <2>1
<1>6. \A i \in 1..n : gs[i].loop = fs[i].loop /\ gs[i].rules = fs[i].rules
  BY <1>1, <1>3, <1>5
<1>7. \A i \in 0..n : NamesOf(gs, i) = NamesOf(fs, i) /\ GoneOf(gs, i) = GoneOf(fs, i)
  <2> SUFFICES ASSUME NEW i \in 0..n
               PROVE  NamesOf(gs, i) = NamesOf(fs, i) /\ GoneOf(gs, i) = GoneOf(fs, i)
    OBVIOUS
  <2>1. i \in Nat /\ \A j \in 1..i : gs[j].loop = fs[j].loop
    BY <1>1, <1>6
  <2> QED
    BY <2>1, SameNames
<1>8. ASSUME NEW i \in 1..n
      PROVE  FrameOK(gs, i, parts)
  <2>0. i \in 0..n /\ i - 1 \in 0..n
    BY <1>1
  <2>1. FrameOK(fs, i, parts)
    BY DEF FramesOK
  <2>2. /\ IsLoop(gs[i]) = IsLoop(fs[i])
        /\ NamesOf(gs, i) = NamesOf(fs, i) /\ GoneOf(gs, i) = GoneOf(fs, i)
        /\ NamesOf(gs, i - 1) = NamesOf(fs, i - 1)
    BY <1>6, <1>7, <2>0 DEF IsLoop
  <2>3. /\ gs[i] = [rules |-> gs[i].rules, pos |-> gs[i].pos, loop |-> gs[i].loop]
        /\ IsSequence(gs[i].rules)
        /\ gs[i].pos \in 1..(Len(gs[i].rules) + 1)
    <3>1. CASE i = n
      <4>1. f.pos + 1 \in 1..(Len(f.rules) + 1)
        BY <1>2
      <4> QED
        BY <1>2, <1>3, <1>5, <3>1, <4>1
    <3>2. CASE i # n
      BY <1>5, <2>1, <3>2 DEF FrameOK
    <3> QED
      BY <3>1, <3>2
  <2>4. gs[i].loop = fs[i].loop /\ gs[i].rules = fs[i].rules /\ Len(gs) = Len(fs)
    BY <1>5, <1>6
  <2> QED
    BY <2>1, <2>2, <2>3, <2>4 DEF FrameOK
<1>9. gs[n].loop.at # 1 \/ ~IsLoop(gs[n])
  <2>1. f.rules # <<>>
    BY <1>2, NoSequence
  <2>2. IsLoop(f) => f.loop.at # 1
    BY <1>2, <2>1 DEF FrameOK
  <2> QED
    BY <1>1, <1>6, <2>2 DEF IsLoop
<1> QED
  BY <1>1, <1>5, <1>6, <1>8, <1>9 DEF FramesOK, gs

-----------------------------------------------------------------------------
(* The rule that is run is one that may be run *)

LEMMA RuleMayRun ==
  ASSUME NEW fixed, NEW views, NEW parts, Inv(fixed, views, parts),
         Orderly(game, fixed, views, parts),
         frames # <<>>, Top.pos <= Len(Top.rules)
  PROVE  LET n == Len(frames)
             part == Part(Top.rules, NamesOf(frames, n), GoneOf(frames, n)) IN
         /\ part \in parts /\ Top.pos \in 1..Len(Top.rules)
         /\ MayRun(Rule, game, fixed, views, part, parts)
<1> DEFINE n == Len(frames)
           part == Part(Top.rules, NamesOf(frames, n), GoneOf(frames, n))
<1>1. IsSequence(frames) /\ n \in 1..Len(frames)
  BY AnySequence, EmptySequence DEF Inv, FramesOK
<1>2. FrameOK(frames, n, parts)
  BY <1>1 DEF Inv, FramesOK
<1>3. IsSequence(Top.rules) /\ Top.pos \in 1..(Len(Top.rules) + 1) /\ Len(Top.rules) \in Nat
  BY <1>2, AnySequence DEF FrameOK, Top
<1>4. Top.pos \in 1..Len(Top.rules) /\ Top.rules # <<>>
  BY <1>3, NoSequence
<1>5. part \in parts
  <2>1. CASE ~IsLoop(Top)
    BY <1>2, <2>1 DEF FrameOK, Top
  <2>2. CASE IsLoop(Top)
    <3>1. Part(Top.loop.body, NamesOf(frames, n), GoneOf(frames, n)) \in parts
          /\ Top.rules = Top.loop.body
      BY <1>2, <1>4, <2>2 DEF FrameOK, Top
    <3> QED
      BY <3>1
  <2> QED
    BY <2>1, <2>2
<1>6. part.rules = Top.rules
  BY DEF Part
<1> HIDE DEF part
<1>7. MayRun(part.rules[Top.pos], game, fixed, views, part, parts)
  BY <1>4, <1>5, <1>6 DEF Orderly
<1> QED
  BY <1>4, <1>5, <1>6, <1>7 DEF Rule, part

\* The rules that only change lists.
LEMMA OnlyLists ==
  ASSUME NEW fixed, NEW views, NEW parts, Inv(fixed, views, parts),
         Orderly(game, fixed, views, parts),
         frames # <<>>, Top.pos <= Len(Top.rules),
         newest' \in Nat, newest <= newest',
         lists' = [l \in DOMAIN lists |-> lists'[l]],
         \A l \in DOMAIN lists : Changed(l, lists, lists', newest, newest', fixed, views),
         \A l, m \in DOMAIN lists : lists'[l].buf = lists'[m].buf => l = m,
         \A l \in GoneOf(frames, Len(frames)) : lists'[l] = lists[l],
         Advance, ElementsOK(frames, elements', lists, fixed),
         ReturnedOK(returned', frames, lists', newest'),
         game' = game, crashed' = crashed
  PROVE  Inv(fixed, views, parts)'
<1>0. newest \in Nat /\ DOMAIN lists = DOMAIN game.lists /\ fixed \subseteq DOMAIN game.lists
  BY DEF Inv, ListsOK, Orderly
<1>1. /\ ListsOK(lists', newest', game, fixed, views)
      /\ \A p : Aims(p, lists, fixed) => Aims(p, lists', fixed)
  BY <1>0, ChangedLists DEF Inv
<1>2. Len(frames) \in Nat
  BY AnySequence DEF Inv, FramesOK
<1>3. LoopsOK(frames, lists', newest', fixed) /\ ElementsOK(frames, elements', lists', fixed)
  BY <1>0, <1>1, <1>2, ChangedLoops DEF Inv
<1>4. /\ FramesOK(frames', parts) /\ Len(frames') = Len(frames)
      /\ \A i \in 1..Len(frames) : frames'[i].loop = frames[i].loop
  BY AdvancedFrames DEF Inv, Top, Advance, Advanced
<1>5. /\ LoopsOK(frames', lists', newest', fixed)
      /\ ElementsOK(frames', elements', lists', fixed)
      /\ ReturnedOK(returned', frames', lists', newest')
  BY <1>2, <1>3, <1>4, SameLoops
<1> QED
  BY <1>1, <1>4, <1>5 DEF Inv

-----------------------------------------------------------------------------
(* Queries *)

\* A set of numbers that is not empty has a least one.
LEMMA Least ==
  ASSUME NEW S, S \subseteq Nat, S # {}
  PROVE  \E m \in S : \A x \in S : m <= x
<1> DEFINE R == OpToRel(<, Nat)
<1>1. IsWellFoundedOn(R, Nat)
  BY NatLessThanWellFounded
<1>2. PICK m \in S : \A x \in S : ~(<<x, m>> \in R)
  <2> HIDE DEF R
  <2> QED
    BY <1>1, WFMin
<1>3. \A x \in S : ~(x < m)
  BY <1>2 DEF OpToRel
<1> QED
  BY <1>3

\* The elements of a set of numbers can be counted off.
UpTo(S, m) == {j \in S : j <= m}

LEMMA CountedOff ==
  ASSUME NEW n \in Nat, NEW S, S \subseteq 1..n, NEW k \in 1..Cardinality(S)
  PROVE  \E i \in S : Cardinality(UpTo(S, i)) = k
<1> DEFINE U(m) == {j \in S : j <= m}
           C(m) == Cardinality(U(m))
           B == {m \in 0..n : k <= C(m)}
<1>0. \A j \in S : j \in Int /\ 1 <= j /\ j <= n
  OBVIOUS
<1>1. IsFiniteSet(S) /\ Cardinality(S) \in Nat
  <2>1. IsFiniteSet(1..n)
    BY FS_Interval
  <2> QED
    BY <2>1, FS_Subset, FS_CardinalityType
<1>2. \A m \in 0..n : IsFiniteSet(U(m)) /\ C(m) \in Nat
  <2> SUFFICES ASSUME NEW m \in 0..n PROVE IsFiniteSet(U(m)) /\ C(m) \in Nat
    OBVIOUS
  <2>1. U(m) \subseteq S
    OBVIOUS
  <2> QED
    BY <1>1, <2>1, FS_Subset, FS_CardinalityType
<1>3. C(0) = 0
  <2>1. \A j \in S : ~(j <= 0)
    BY <1>0
  <2>2. U(0) = {}
    BY <2>1
  <2> QED
    BY <2>2, FS_EmptySet
<1>4. C(n) = Cardinality(S)
  <2>1. U(n) = S
    BY <1>0
  <2> QED
    BY <2>1
<1>5. B \subseteq Nat /\ n \in B
  BY <1>1, <1>4
<1>6. PICK m \in B : \A x \in B : m <= x
  <2> HIDE DEF B
  <2> QED
    BY <1>5, Least
<1>7. m \in 1..n /\ m - 1 \in 0..n /\ k <= C(m) /\ ~(k <= C(m - 1))
  <2>1. m \in 0..n /\ k <= C(m) /\ m # 0
    BY <1>3
  <2>2. m \in 1..n /\ m - 1 \in 0..n /\ m - 1 \in Int /\ ~(m <= m - 1)
    BY <2>1
  <2>3. m - 1 \notin B
    BY <1>6, <2>2
  <2> QED
    BY <2>1, <2>2, <2>3
<1>8. m \in S
  <2> SUFFICES ASSUME m \notin S PROVE FALSE
    OBVIOUS
  <2>1. \A j \in S : j <= m <=> j <= m - 1
    BY <1>0, <1>7
  <2>2. U(m) = U(m - 1)
    BY <2>1
  <2> QED
    BY <1>7, <2>2
<1>9. C(m) = C(m - 1) + 1
  <2>0. /\ \A j \in S : j <= m <=> j <= m - 1 \/ j = m
        /\ ~(m <= m - 1)
    BY <1>0, <1>7
  <2>1. U(m) = U(m - 1) \cup {m} /\ m \notin U(m - 1)
    BY <1>8, <2>0
  <2> HIDE DEF U
  <2>2. Cardinality(U(m - 1) \cup {m}) = Cardinality(U(m - 1)) + 1
    BY <1>2, <1>7, <2>1, FS_AddElement
  <2> QED
    BY <2>1, <2>2
<1>10. C(m) = k
  <2>0. m \in 0..n /\ m - 1 \in 0..n /\ k \in Nat
    BY <1>1, <1>7
  <2>1. C(m) \in Nat /\ C(m - 1) \in Nat /\ k \in Nat
    BY <1>2, <2>0
  <2> HIDE DEF C, B
  <2> QED
    BY <1>7, <1>9, <2>1
<1> QED
  BY <1>8, <1>10 DEF UpTo

LEMMA ReferencesOf ==
  ASSUME NEW items, IsSequence(items), NEW buf
  PROVE  /\ IsSequence(References(items, buf))
         /\ Len(References(items, buf)) = Len(items)
         /\ \A i \in 1..Len(items) : References(items, buf)[i] = getReference(items[i], buf, i)
<1> DEFINE r == References(items, buf)
<1>1. Len(items) \in Nat
  BY AnySequence
<1>2. r = [i \in 1..Len(items) |-> getReference(items[i], buf, i)]
  BY DEF References
<1> HIDE DEF r
<1>3. r = [i \in 1..Len(items) |-> r[i]]
  BY <1>2
<1>4. IsSequence(r) /\ Len(r) = Len(items)
  BY <1>1, <1>3, MadeSequence
<1> QED
  BY <1>2, <1>4 DEF r

\* The references to the items of a fixed list or a view.
LEMMA ReferencesAim ==
  ASSUME NEW fixed, NEW views, NEW parts, Inv(fixed, views, parts),
         Orderly(game, fixed, views, parts), NEW l \in fixed \cup views,
         NEW i \in 1..Len(lists[l].items), NEW b, l \in views \/ b = lists[l].buf
  PROVE  Aims(getReference(lists[l].items[i], b, i), lists, fixed)
<1>1. l \in DOMAIN game.lists
  BY DEF Orderly
<1>2. ListOK(l, lists, newest, fixed, views)
  BY <1>1 DEF Inv, ListsOK
<1>3. CASE l \in views
  BY <1>2, <1>3 DEF ListOK, getReference, Aims
<1>4. CASE l \in fixed /\ b = lists[l].buf
  BY <1>2, <1>4 DEF ListOK, getReference, Aims, Pointer
<1> QED
  BY <1>3, <1>4

LEMMA BeatenAim ==
  ASSUME NEW fixed, NEW views, NEW parts, Inv(fixed, views, parts),
         Orderly(game, fixed, views, parts), NEW l \in fixed \cup views
  PROVE  /\ IsSequence(Beaten(lists[l]))
         /\ \A k \in 1..Len(Beaten(lists[l])) : Aims(Beaten(lists[l])[k], lists, fixed)
<1> DEFINE refs == References(lists[l].items, lists[l].buf)
           S == {i \in 1..Len(refs) : Read(refs[i]).weapon = Read(elements["weapon"]).beats}
           A == Cardinality(S)
           b == Beaten(lists[l])
           At1(k) == CHOOSE i \in S : Cardinality({j \in S : j <= i}) = k
<1>1. l \in DOMAIN game.lists /\ IsSequence(lists[l].items)
  BY DEF Orderly, Inv, ListsOK, ListOK
<1>2. /\ Len(refs) = Len(lists[l].items) /\ Len(refs) \in Nat
      /\ \A i \in 1..Len(refs) : Aims(refs[i], lists, fixed)
  <2>1. /\ Len(refs) = Len(lists[l].items) /\ Len(refs) \in Nat
        /\ \A i \in 1..Len(refs) :
              refs[i] = getReference(lists[l].items[i], lists[l].buf, i)
    BY <1>1, ReferencesOf, AnySequence
  <2>2. \A i \in 1..Len(refs) :
           Aims(getReference(lists[l].items[i], lists[l].buf, i), lists, fixed)
    BY <2>1, ReferencesAim
  <2> HIDE DEF refs
  <2> QED
    BY <2>1, <2>2
<1>3. b = [k \in 1..A |-> refs[At1(k)]]
  BY DEF Beaten
<1>4. S \subseteq 1..Len(refs)
  OBVIOUS
<1> HIDE DEF refs, S
<1>5. A \in Nat
  <2>1. IsFiniteSet(1..Len(refs))
    BY <1>2, FS_Interval
  <2> QED
    BY <1>4, <2>1, FS_Subset, FS_CardinalityType
<1>6. \A k \in 1..A : At1(k) \in S
  <2> SUFFICES ASSUME NEW k \in 1..A PROVE At1(k) \in S
    OBVIOUS
  <2>1. \E i \in S : Cardinality(UpTo(S, i)) = k
    BY <1>2, <1>4, CountedOff
  <2> QED
    BY ONLY <2>1 DEF UpTo
<1> HIDE DEF A, At1, b
<1>7. b = [k \in 1..A |-> b[k]]
  BY <1>3
<1>8. IsSequence(b) /\ Len(b) = A
  BY <1>5, <1>7, MadeSequence
<1>9. \A k \in 1..A : Aims(b[k], lists, fixed)
  BY <1>2, <1>3, <1>4, <1>6
<1> QED
  BY <1>8, <1>9 DEF b

\* The result of a query.
LEMMA ResultOK ==
  ASSUME NEW fixed, NEW views, NEW parts, Inv(fixed, views, parts),
         Orderly(game, fixed, views, parts), NEW q, NEW part,
         MayQuery(q, game, fixed, views, part)
  PROVE  /\ IsSequence(Result(q))
         /\ \A i \in 1..Len(Result(q)) : ItemOK(Result(q)[i], lists, fixed)
<1>0. DOMAIN lists = DOMAIN game.lists
  BY DEF Inv, ListsOK
<1>1. CASE q.via = "itself" /\ q.of \in DOMAIN game.lists
  <2>1. Result(q) = lists[q.of].items
    BY <1>1 DEF Result
  <2>2. ListOK(q.of, lists, newest, fixed, views)
    BY <1>1 DEF Inv, ListsOK
  <2> QED
    BY <2>1, <2>2 DEF ListOK
<1>2. CASE q.via = "elements" /\ q.of \in DOMAIN game.lists
  <2> DEFINE n == Len(lists[q.of].items)
             s == Result(q)
  <2>1. s = [i \in 1..n |-> Value(Read(lists[q.of].items[i]).name)]
    BY <1>2 DEF Result
  <2>2. IsSequence(lists[q.of].items) /\ n \in Nat
    BY <1>2, AnySequence DEF Inv, ListsOK, ListOK
  <2> HIDE DEF s, n
  <2>3. s = [i \in 1..n |-> s[i]] /\ \A i \in 1..n : s[i].is = "value"
    BY <2>1 DEF Value
  <2>4. IsSequence(s) /\ Len(s) = n
    BY <2>2, <2>3, MadeSequence
  <2> QED
    BY <2>3, <2>4 DEF s, ItemOK
<1>3. CASE q.via = "collect" /\ q.of \in fixed \cup views
  <2>1. Result(q) = Beaten(lists[q.of])
    BY <1>3 DEF Result
  <2> QED
    BY <1>3, <2>1, BeatenAim DEF ItemOK
<1>4. CASE q.via = "upfrom" /\ q.to \in Nat
  <2> DEFINE s == Result(q)
  <2>1. s = [i \in 1..q.to |-> Value(i)]
    BY <1>4 DEF Result
  <2> HIDE DEF s
  <2>2. s = [i \in 1..q.to |-> s[i]] /\ \A i \in 1..q.to : s[i].is = "value"
    BY <2>1 DEF Value
  <2>3. IsSequence(s) /\ Len(s) = q.to
    BY <1>4, <2>2, MadeSequence
  <2> QED
    BY <2>2, <2>3 DEF s, ItemOK
<1> QED
  BY <1>1, <1>2, <1>3, <1>4 DEF MayQuery

\* collect binds a name that is not that of the element of a foreach.
LEMMA StillElements ==
  ASSUME NEW fixed, NEW views, NEW parts, Inv(fixed, views, parts),
         NEW q, NEW part, MayQuery(q, game, fixed, views, part),
         part.names = NamesOf(frames, Len(frames))
  PROVE  ElementsOK(frames, ElementsAfter(q), lists, fixed)
<1>1. CASE ElementsAfter(q) = elements
  BY <1>1 DEF Inv
<1>2. CASE /\ q.via = "collect"
           /\ \E x : ElementsAfter(q) = Bound(q.as, x)
  <2>1. q.as \notin NamesOf(frames, Len(frames))
    BY <1>2 DEF MayQuery
  <2>2. PICK x : ElementsAfter(q) = Bound(q.as, x)
    BY <1>2
  <2>3. ASSUME NEW i \in 1..Len(frames), IsLoop(frames[i]), frames[i].loop.at # 1
        PROVE  /\ frames[i].loop.element \in DOMAIN ElementsAfter(q)
               /\ ElementOK(ElementsAfter(q)[frames[i].loop.element], frames[i].loop,
                            lists, fixed)
    <3>1. frames[i].loop.element # q.as
      BY <2>1, <2>3 DEF NamesOf
    <3>2. /\ frames[i].loop.element \in DOMAIN elements
          /\ ElementOK(elements[frames[i].loop.element], frames[i].loop, lists, fixed)
      BY <2>3 DEF Inv, ElementsOK
    <3>3. /\ frames[i].loop.element \in DOMAIN ElementsAfter(q)
          /\ ElementsAfter(q)[frames[i].loop.element] = elements[frames[i].loop.element]
      BY <2>2, <3>1, <3>2 DEF Bound
    <3> QED
      BY <3>2, <3>3
  <2> QED
    BY <2>3 DEF ElementsOK
<1> QED
  BY <1>1, <1>2 DEF ElementsAfter

-----------------------------------------------------------------------------
(* The rules on lists *)

LEMMA UnchangedList ==
  ASSUME NEW g, NEW ls, NEW n, NEW fixed, NEW views, ListsOK(ls, n, g, fixed, views),
         NEW ms, NEW l \in DOMAIN g.lists, ms[l] = ls[l], NEW k
  PROVE  Changed(l, ls, ms, n, k, fixed, views)
<1>1. ListOK(l, ls, n, fixed, views)
  BY DEF ListsOK
<1>2. /\ ms[l] = [buf |-> ms[l].buf, cap |-> ms[l].cap, items |-> ms[l].items]
      /\ ms[l].buf = ls[l].buf /\ ms[l].items = ls[l].items
  BY <1>1 DEF ListOK
<1> QED
  BY <1>1, <1>2 DEF ListOK, Changed

\* Only the list d has changed, and is now x.
LEMMA OneChanged ==
  ASSUME NEW g, NEW ls, NEW n, NEW fixed, NEW views, ListsOK(ls, n, g, fixed, views),
         NEW k \in Nat, n <= k, NEW d \in DOMAIN g.lists, NEW x, NEW ms,
         ms = [l \in DOMAIN ls |-> ms[l]], ms[d] = x,
         \A l \in DOMAIN ls : l # d => ms[l] = ls[l],
         x = [buf |-> x.buf, cap |-> x.cap, items |-> x.items],
         x.buf = ls[d].buf \/ x.buf \in (n + 1)..k,
         IsSequence(x.items),
         \A i \in 1..Len(x.items) :
            /\ ItemOK(x.items[i], ls, fixed)
            /\ d \in fixed => x.items[i].is = "value"
            /\ d \in views => Aims(x.items[i], ls, fixed),
         d \in fixed => x.buf = ls[d].buf /\ Len(x.items) = Len(ls[d].items)
  PROVE  /\ \A l \in DOMAIN ls : Changed(l, ls, ms, n, k, fixed, views)
         /\ \A l, m \in DOMAIN ls : ms[l].buf = ms[m].buf => l = m
<1>1. DOMAIN ls = DOMAIN g.lists /\ n \in Nat /\ ls = [l \in DOMAIN ls |-> ls[l]]
  BY DEF ListsOK
<1>3. Changed(d, ls, ms, n, k, fixed, views)
  BY DEF Changed
<1>4. \A l \in DOMAIN ls : Changed(l, ls, ms, n, k, fixed, views)
  BY <1>1, <1>3, UnchangedList
<1>5. \A l \in DOMAIN ls : ls[l].buf \in 1..n
  BY <1>1 DEF ListsOK, ListOK
<1>6. \A l, m \in DOMAIN ls : ls[l].buf = ls[m].buf => l = m
  BY <1>1 DEF ListsOK
<1>7. \A l \in DOMAIN ls : l # d => x.buf # ls[l].buf
  <2> SUFFICES ASSUME NEW l \in DOMAIN ls, l # d PROVE x.buf # ls[l].buf
    OBVIOUS
  <2>1. CASE x.buf = ls[d].buf
    BY <1>1, <1>6, <2>1
  <2>2. CASE x.buf \in (n + 1)..k
    BY <1>1, <1>5, <2>2
  <2> QED
    BY <2>1, <2>2
<1>8. \A l, m \in DOMAIN ls : ms[l].buf = ms[m].buf => l = m
  BY <1>6, <1>7
<1> QED
  BY <1>4, <1>8

\* The temporary stays, or is a new one, or nothing.
LEMMA ReturnedAs ==
  ASSUME NEW g, NEW ls, NEW n, NEW fixed, NEW views, ListsOK(ls, n, g, fixed, views),
         NEW k \in Nat, n <= k, NEW fs, LoopsOK(fs, ls, n, fixed),
         NEW ret, ReturnedOK(ret, fs, ls, n),
         NEW ms, DOMAIN ms = DOMAIN ls,
         \A l \in DOMAIN ls : ms[l].buf = ls[l].buf \/ ms[l].buf \in (n + 1)..k,
         NEW new,
         \/ new = ret
         \/ new = Nothing
         \/ new.buf \in (n + 1)..k /\ \A l \in DOMAIN ls : ms[l].buf # new.buf
  PROVE  ReturnedOK(new, fs, ms, k)
<1>1. DOMAIN ls = DOMAIN g.lists /\ n \in Nat /\ \A l \in DOMAIN ls : ls[l].buf \in 1..n
  BY DEF ListsOK, ListOK
<1>2. \A i \in 1..Len(fs) : IsLoop(fs[i]) => fs[i].loop.buf \in 1..n
  BY DEF LoopsOK, LoopOK
<1>3. \A x \in 1..n : x # 0 /\ x \notin (n + 1)..k
  BY <1>1
<1>4. \A x \in (n + 1)..k : x # 0 /\ x \in 0..k /\ x \notin 0..n
  BY <1>1
<1>5. CASE new = ret
  <2>1. ret.buf \in 0..n /\ \A l \in DOMAIN ls : ret.buf # ls[l].buf
    BY DEF ReturnedOK
  <2>2. ret.buf \in 0..k
    BY <1>1, <2>1
  <2>3. \A l \in DOMAIN ms : ret.buf # ms[l].buf
    BY <1>4, <2>1
  <2> QED
    BY <1>5, <2>2, <2>3 DEF ReturnedOK
<1>6. CASE new = Nothing
  <2>1. new.buf = 0
    BY <1>6 DEF Nothing, Temporary
  <2>2. \A l \in DOMAIN ms : 0 # ms[l].buf
    BY <1>1, <1>3, <1>4
  <2>3. \A i \in 1..Len(fs) : IsLoop(fs[i]) => 0 # fs[i].loop.buf
    BY <1>2, <1>3
  <2> QED
    BY <2>1, <2>2, <2>3 DEF ReturnedOK
<1>7. CASE new.buf \in (n + 1)..k /\ \A l \in DOMAIN ls : ms[l].buf # new.buf
  BY <1>2, <1>3, <1>4, <1>7 DEF ReturnedOK
<1> QED
  BY <1>5, <1>6, <1>7

\* A rule that is there may be run.
LEMMA RuleThere ==
  ASSUME NEW fixed, NEW views, NEW parts, Inv(fixed, views, parts),
         Orderly(game, fixed, views, parts), NEW kind, At(kind)
  PROVE  LET n == Len(frames)
             part == Part(Top.rules, NamesOf(frames, n), GoneOf(frames, n)) IN
         /\ frames # <<>> /\ Top.pos <= Len(Top.rules) /\ Rule.rule = kind
         /\ MayRun(Rule, game, fixed, views, part, parts)
         /\ part.names = NamesOf(frames, n) /\ part.gone = GoneOf(frames, n)
  BY RuleMayRun DEF At, Part

\* The rules that change one list that is not gone over.
LEMMA OneList ==
  ASSUME NEW fixed, NEW views, NEW parts, Inv(fixed, views, parts),
         Orderly(game, fixed, views, parts),
         frames # <<>>, Top.pos <= Len(Top.rules),
         NEW d \in DOMAIN game.lists \ GoneOf(frames, Len(frames)), NEW x,
         lists' = [l \in DOMAIN lists |-> lists'[l]], lists'[d] = x,
         \A l \in DOMAIN lists : l # d => lists'[l] = lists[l],
         newest' \in Nat, newest <= newest',
         x = [buf |-> x.buf, cap |-> x.cap, items |-> x.items],
         x.buf = lists[d].buf \/ x.buf \in (newest + 1)..newest',
         IsSequence(x.items),
         \A i \in 1..Len(x.items) :
            /\ ItemOK(x.items[i], lists, fixed)
            /\ d \in fixed => x.items[i].is = "value"
            /\ d \in views => Aims(x.items[i], lists, fixed),
         d \in fixed => x.buf = lists[d].buf /\ Len(x.items) = Len(lists[d].items),
         Advance, ElementsOK(frames, elements', lists, fixed),
         \/ returned' = returned
         \/ returned' = Nothing
         \/ /\ returned'.buf \in (newest + 1)..newest' /\ x.buf # returned'.buf,
         game' = game, crashed' = crashed
  PROVE  Inv(fixed, views, parts)'
<1>1. /\ ListsOK(lists, newest, game, fixed, views)
      /\ LoopsOK(frames, lists, newest, fixed)
      /\ ReturnedOK(returned, frames, lists, newest)
      /\ DOMAIN lists = DOMAIN game.lists /\ newest \in Nat
      /\ \A l \in DOMAIN lists : lists[l].buf \in 1..newest
      /\ FramesOK(frames, parts)
      /\ lists = [l \in DOMAIN lists |-> lists[l]]
  BY DEF Inv, ListsOK, ListOK
<1>2. /\ lists' = [l \in DOMAIN lists |-> lists'[l]]
      /\ lists'[d] = x /\ \A l \in DOMAIN lists : l # d => lists'[l] = lists[l]
      /\ \A l \in DOMAIN lists : Changed(l, lists, lists', newest, newest', fixed, views)
      /\ \A l, m \in DOMAIN lists : lists'[l].buf = lists'[m].buf => l = m
  <2> DEFINE ms == lists'
             k == newest'
  <2>1. /\ ListsOK(lists, newest, game, fixed, views)
        /\ k \in Nat /\ newest <= k /\ d \in DOMAIN game.lists
        /\ ms = [l \in DOMAIN lists |-> ms[l]] /\ ms[d] = x
        /\ \A l \in DOMAIN lists : l # d => ms[l] = lists[l]
        /\ x = [buf |-> x.buf, cap |-> x.cap, items |-> x.items]
        /\ x.buf = lists[d].buf \/ x.buf \in (newest + 1)..k
        /\ IsSequence(x.items)
        /\ \A i \in 1..Len(x.items) :
              /\ ItemOK(x.items[i], lists, fixed)
              /\ d \in fixed => x.items[i].is = "value"
              /\ d \in views => Aims(x.items[i], lists, fixed)
        /\ d \in fixed => x.buf = lists[d].buf /\ Len(x.items) = Len(lists[d].items)
    BY <1>1
  <2> HIDE DEF ms, k
  <2>2. /\ \A l \in DOMAIN lists : Changed(l, lists, ms, newest, k, fixed, views)
        /\ \A l, m \in DOMAIN lists : ms[l].buf = ms[m].buf => l = m
    BY ONLY <2>1, OneChanged
  <2> QED
    BY <2>1, <2>2 DEF ms, k
<1>3. \A l \in GoneOf(frames, Len(frames)) : lists'[l] = lists[l]
  <2>1. GoneOf(frames, Len(frames)) \subseteq DOMAIN lists
    BY <1>1 DEF GoneOf, LoopsOK, LoopOK
  <2> QED
    BY <2>1
<1>4. ReturnedOK(returned', frames, lists', newest')
  <2>1. DOMAIN lists' = DOMAIN lists
    BY <1>2
  <2>2. \A l \in DOMAIN lists : lists'[l].buf = lists[l].buf
                                \/ lists'[l].buf \in (newest + 1)..newest'
    BY <1>2 DEF Changed
  <2>3. \/ returned' = returned
        \/ returned' = Nothing
        \/ /\ returned'.buf \in (newest + 1)..newest'
           /\ \A l \in DOMAIN lists : lists'[l].buf # returned'.buf
    <3> SUFFICES ASSUME returned'.buf \in (newest + 1)..newest', x.buf # returned'.buf,
                        NEW l \in DOMAIN lists
                 PROVE  lists'[l].buf # returned'.buf
      OBVIOUS
    <3>1. \A y \in 1..newest : y # returned'.buf
      BY <1>1
    <3> QED
      BY <1>1, <1>2, <3>1
  <2> DEFINE ms == lists'
             k == newest'
             new == returned'
  <2>4. k \in Nat /\ newest <= k /\ DOMAIN ms = DOMAIN lists
    BY <2>1
  <2>5. /\ \A l \in DOMAIN lists : ms[l].buf = lists[l].buf
                                   \/ ms[l].buf \in (newest + 1)..k
        /\ \/ new = returned
           \/ new = Nothing
           \/ /\ new.buf \in (newest + 1)..k
              /\ \A l \in DOMAIN lists : ms[l].buf # new.buf
    BY <2>2, <2>3
  <2> HIDE DEF ms, k, new
  <2>6. ReturnedOK(new, frames, ms, k)
    BY ONLY <1>1, <2>4, <2>5, ReturnedAs
  <2> QED
    BY <2>6 DEF ms, k, new
<1> QED
  BY <1>2, <1>3, <1>4, OnlyLists

LEMMA ItemsReplaced ==
  ASSUME NEW r, r = [buf |-> r.buf, cap |-> r.cap, items |-> r.items], NEW s
  PROVE  [r EXCEPT !.items = s] = [buf |-> r.buf, cap |-> r.cap, items |-> s]
<1> DEFINE a == r.buf
           b == r.cap
           c == r.items
<1>1. r = [buf |-> a, cap |-> b, items |-> c]
  OBVIOUS
<1> HIDE DEF a, b, c
<1>2. [[buf |-> a, cap |-> b, items |-> c] EXCEPT !.items = s]
      = [buf |-> a, cap |-> b, items |-> s]
  OBVIOUS
<1>3. [r EXCEPT !.items = s] = [buf |-> a, cap |-> b, items |-> s]
  BY <1>1, <1>2
<1> QED
  BY <1>3 DEF a, b

LEMMA ExtendKeeps ==
  ASSUME NEW fixed, NEW views, NEW parts, Inv(fixed, views, parts),
         Orderly(game, fixed, views, parts), Extend
  PROVE  Inv(fixed, views, parts)'
<1> DEFINE n == Len(frames)
           part == Part(Top.rules, NamesOf(frames, n), GoneOf(frames, n))
           q == Rule.query
           d == Rule.target
           r == Result(q)
           t == lists[d].items
           room == Grown(lists[d], Len(t) + Len(r), newest + 2)
           b == IF ~IsTemporary(q) /\ q.of = d THEN room.buf ELSE BufferOf(q)
           refs == References(r, b)
           x == [buf |-> room.buf, cap |-> room.cap, items |-> t \o refs]
<1>1. /\ frames # <<>> /\ Top.pos <= Len(Top.rules)
      /\ part.names = NamesOf(frames, n)
      /\ d \in DOMAIN game.lists /\ d \notin fixed /\ d \notin GoneOf(frames, n)
      /\ MayQuery(q, game, fixed, views, part)
      /\ q.via \in {"itself", "collect"} /\ q.of \in fixed \cup views
  <2>1. At("extend")
    BY DEF Extend
  <2>2. /\ frames # <<>> /\ Top.pos <= Len(Top.rules) /\ Rule.rule = "extend"
        /\ MayRun(Rule, game, fixed, views, part, parts)
        /\ part.names = NamesOf(frames, n) /\ part.gone = GoneOf(frames, n)
    BY <2>1, RuleThere
  <2> HIDE DEF part
  <2> QED
    BY <2>2 DEF MayRun
<1>2. /\ newest \in Nat /\ DOMAIN lists = DOMAIN game.lists
      /\ lists = [l \in DOMAIN lists |-> lists[l]]
      /\ ListOK(d, lists, newest, fixed, views)
  BY <1>1 DEF Inv, ListsOK
<1>3. IsSequence(r) /\ IsSequence(t)
  <2> HIDE DEF part, q
  <2> QED
    BY <1>1, <1>2, ResultOK DEF ListOK
<1>4. /\ IsSequence(refs)
      /\ \A i \in 1..Len(refs) : Aims(refs[i], lists, fixed)
  <2>1. /\ IsSequence(refs) /\ Len(refs) = Len(r)
        /\ \A i \in 1..Len(refs) : refs[i] = getReference(r[i], b, i)
    BY <1>3, ReferencesOf
  <2>2. CASE q.via = "itself"
    <3>1. r = lists[q.of].items
      BY <2>2 DEF Result
    <3>2. q.of \in views \/ b = lists[q.of].buf
      BY <1>1, <2>2 DEF IsTemporary, BufferOf
    <3> HIDE DEF b, refs, q, r
    <3>3. \A i \in 1..Len(lists[q.of].items) :
             Aims(getReference(lists[q.of].items[i], b, i), lists, fixed)
      BY <1>1, <3>2, ReferencesAim
    <3> QED
      BY <2>1, <3>1, <3>3
  <2>3. CASE q.via = "collect"
    <3>1. r = Beaten(lists[q.of])
      BY <2>3 DEF Result
    <3> HIDE DEF refs, b, r, q
    <3>2. \A i \in 1..Len(r) : Aims(r[i], lists, fixed)
      BY <1>1, <3>1, BeatenAim
    <3> QED
      BY <2>1, <3>2 DEF Aims, getReference
  <2> QED
    BY <1>1, <2>2, <2>3
<1>5. /\ room = [buf |-> room.buf, cap |-> room.cap, items |-> t]
      /\ room.buf = lists[d].buf \/ room.buf = newest + 2
  BY <1>2 DEF Grown, ListOK
<1>6. /\ lists' = [lists EXCEPT ![d] = [room EXCEPT !.items = @ \o refs]]
      /\ newest' = newest + 2
      /\ returned' = (IF IsTemporary(q) THEN Temporary(b, r) ELSE returned)
      /\ elements' = ElementsAfter(q)
      /\ Advance /\ game' = game /\ crashed' = crashed
  BY DEF Extend
<1>7. returned' = returned \/ returned'.buf = newest + 1
  BY <1>6 DEF BufferOf, Temporary
<1>8. ElementsOK(frames, elements', lists, fixed)
  <2> HIDE DEF part, q
  <2> QED
    BY <1>1, <1>6, StillElements
<1> HIDE DEF refs, room, t, r, b
<1>9. [room EXCEPT !.items = @ \o refs] = x
  <2>1. room = [buf |-> room.buf, cap |-> room.cap, items |-> room.items] /\ room.items = t
    BY <1>5
  <2>2. [room EXCEPT !.items = t \o refs]
        = [buf |-> room.buf, cap |-> room.cap, items |-> t \o refs]
    BY ONLY <2>1, ItemsReplaced
  <2> QED
    BY <2>1, <2>2
<1> HIDE DEF x, d
<1>10. /\ lists'[d] = x
       /\ \A l \in DOMAIN lists : l # d => lists'[l] = lists[l]
       /\ lists' = [l \in DOMAIN lists |-> lists'[l]]
  BY <1>1, <1>2, <1>6, <1>9
<1>11. x.items = t \o refs /\ x.buf = room.buf
       /\ x = [buf |-> x.buf, cap |-> x.cap, items |-> x.items]
  BY DEF x
<1>12. /\ IsSequence(x.items)
       /\ \A i \in 1..Len(x.items) :
              \/ \E j \in 1..Len(t) : x.items[i] = t[j]
              \/ \E j \in 1..Len(refs) : x.items[i] = refs[j]
  <2>1. IsSequence(t) /\ IsSequence(refs)
    BY <1>3, <1>4
  <2>2. From(t \o refs, t, refs)
    <3> HIDE DEF t, refs
    <3> QED
      BY ONLY <2>1, JoinedItems
  <2>3. x.items = t \o refs
    BY <1>11
  <2> HIDE DEF x, t, refs
  <2> QED
    BY ONLY <2>2, <2>3 DEF From
<1>13. \A i \in 1..Len(x.items) :
            /\ ItemOK(x.items[i], lists, fixed)
            /\ d \in views => Aims(x.items[i], lists, fixed)
  BY <1>2, <1>4, <1>12 DEF ListOK, ItemOK, t
<1>14. /\ newest' \in Nat /\ newest <= newest'
       /\ x.buf = lists[d].buf \/ x.buf \in (newest + 1)..newest'
       /\ \/ returned' = returned
          \/ returned' = Nothing
          \/ returned'.buf \in (newest + 1)..newest' /\ x.buf # returned'.buf
  <2>1. \A y \in 1..newest : y # newest + 1
    BY <1>2
  <2>2. lists[d].buf \in 1..newest
    BY <1>2 DEF ListOK
  <2> QED
    BY <1>2, <1>5, <1>6, <1>7, <1>11, <2>1, <2>2
<1> QED
  BY <1>1, <1>6, <1>8, <1>10, <1>11, <1>12, <1>13, <1>14, OneList

LEMMA DiscardKeeps ==
  ASSUME NEW fixed, NEW views, NEW parts, Inv(fixed, views, parts),
         Orderly(game, fixed, views, parts), Discard
  PROVE  Inv(fixed, views, parts)'
<1> DEFINE d == Rule.from
           t == lists[d].items
           n == Len(t)
           count == IF Rule.all THEN n ELSE Rule.count
           x == lists'[d]
<1>1. /\ frames # <<>> /\ Top.pos <= Len(Top.rules)
      /\ d \in DOMAIN game.lists \ GoneOf(frames, Len(frames)) /\ d \notin fixed
  <2> DEFINE part == Part(Top.rules, NamesOf(frames, Len(frames)), GoneOf(frames, Len(frames)))
  <2>1. At("discard")
    BY DEF Discard
  <2>2. /\ frames # <<>> /\ Top.pos <= Len(Top.rules) /\ Rule.rule = "discard"
        /\ MayRun(Rule, game, fixed, views, part, parts)
        /\ part.gone = GoneOf(frames, Len(frames))
    BY <2>1, RuleThere
  <2> HIDE DEF part
  <2> QED
    BY <2>2 DEF MayRun
<1>2. /\ newest \in Nat /\ DOMAIN lists = DOMAIN game.lists
      /\ lists = [l \in DOMAIN lists |-> lists[l]]
      /\ ListOK(d, lists, newest, fixed, views)
      /\ ElementsOK(frames, elements, lists, fixed)
  BY <1>1 DEF Inv, ListsOK
<1>3. /\ \/ count \in 0..n
            /\ lists' = [lists EXCEPT ![d].items = SubSeq(@, 1, n - count)]
         \/ lists' = lists
      /\ returned' = returned \/ returned' = Nothing
      /\ Advance
      /\ newest' = newest /\ elements' = elements /\ game' = game /\ crashed' = crashed
  BY DEF Discard, Remaining
<1>4. /\ lists' = [l \in DOMAIN lists |-> lists'[l]]
      /\ \A l \in DOMAIN lists : l # d => lists'[l] = lists[l]
      /\ x = [buf |-> lists[d].buf, cap |-> lists[d].cap, items |-> x.items]
      /\ IsSequence(x.items)
      /\ \A i \in 1..Len(x.items) : \E j \in 1..Len(t) : x.items[i] = t[j]
  <2>1. /\ lists[d] = [buf |-> lists[d].buf, cap |-> lists[d].cap, items |-> lists[d].items]
        /\ IsSequence(t) /\ Len(t) \in Nat
    BY <1>2, AnySequence DEF ListOK
  <2>2. CASE lists' = lists
    BY <1>2, <2>1, <2>2
  <2>3. CASE /\ count \in 0..n
             /\ lists' = [lists EXCEPT ![d].items = SubSeq(@, 1, n - count)]
    <3> DEFINE s == SubSeq(t, 1, n - count)
    <3>1. n - count \in 0..n
      BY <2>1, <2>3
    <3>2. /\ IsSequence(s) /\ Len(s) = n - count
          /\ \A i \in 1..Len(s) : s[i] = t[i]
      BY <2>1, <3>1, CutSequence
    <3>3. \A i \in 1..Len(s) : i \in 1..Len(t)
      BY <2>1, <3>1, <3>2
    <3>4. lists' = [lists EXCEPT ![d] = [lists[d] EXCEPT !.items = s]]
      BY <2>3
    <3>5. [lists[d] EXCEPT !.items = s]
          = [buf |-> lists[d].buf, cap |-> lists[d].cap, items |-> s]
      BY <2>1, ItemsReplaced
    <3> HIDE DEF s, count, n, t
    <3>6. x = [buf |-> lists[d].buf, cap |-> lists[d].cap, items |-> s]
      BY <1>1, <1>2, <3>4, <3>5
    <3> HIDE DEF d
    <3> QED
      BY <1>1, <1>2, <3>2, <3>3, <3>4, <3>6
  <2> QED
    BY <1>3, <2>2, <2>3
<1>5. \A i \in 1..Len(x.items) :
          /\ ItemOK(x.items[i], lists, fixed)
          /\ d \in views => Aims(x.items[i], lists, fixed)
  BY <1>2, <1>4 DEF ListOK
<1>6. x = [buf |-> x.buf, cap |-> x.cap, items |-> x.items] /\ x.buf = lists[d].buf
  BY <1>4
<1>7. newest' \in Nat /\ newest <= newest'
  BY <1>2, <1>3
<1>8. ElementsOK(frames, elements', lists, fixed)
  BY <1>2, <1>3
<1> HIDE DEF t, n, count, d
<1> QED
  BY <1>1, <1>3, <1>4, <1>5, <1>6, <1>7, <1>8, OneList

\* From the back of one list to the back of the other.
LEMMA DealKeeps ==
  ASSUME NEW fixed, NEW views, NEW parts, Inv(fixed, views, parts),
         Orderly(game, fixed, views, parts), Deal
  PROVE  Inv(fixed, views, parts)'
<1> DEFINE a == Rule.from
           d == Rule.to
           s == lists[a].items
           t == lists[d].items
           k == IF Rule.count < Len(s) THEN Rule.count ELSE Len(s)
           dealt == [i \in 1..k |-> s[Len(s) + 1 - i]]
           room == Grown(lists[d], Len(t) + k, newest + 1)
           left == SubSeq(s, 1, Len(s) - k)
           x == [buf |-> lists[a].buf, cap |-> lists[a].cap, items |-> left]
           y == [buf |-> room.buf, cap |-> room.cap, items |-> t \o dealt]
<1>1. /\ frames # <<>> /\ Top.pos <= Len(Top.rules)
      /\ a \in DOMAIN game.lists \ GoneOf(frames, Len(frames)) /\ a \notin fixed
      /\ d \in DOMAIN game.lists \ GoneOf(frames, Len(frames)) /\ d \notin fixed
      /\ d \in views => a \in views
      /\ Rule.count \in Nat
  <2> DEFINE part == Part(Top.rules, NamesOf(frames, Len(frames)), GoneOf(frames, Len(frames)))
  <2>1. At("deal")
    BY DEF Deal
  <2>2. /\ frames # <<>> /\ Top.pos <= Len(Top.rules) /\ Rule.rule = "deal"
        /\ MayRun(Rule, game, fixed, views, part, parts)
        /\ part.gone = GoneOf(frames, Len(frames))
    BY <2>1, RuleThere
  <2> HIDE DEF part
  <2> QED
    BY <2>2 DEF MayRun
<1>2. /\ newest \in Nat /\ DOMAIN lists = DOMAIN game.lists
      /\ lists = [l \in DOMAIN lists |-> lists[l]]
      /\ ListOK(a, lists, newest, fixed, views)
      /\ ListOK(d, lists, newest, fixed, views)
      /\ ListsOK(lists, newest, game, fixed, views)
      /\ ElementsOK(frames, elements, lists, fixed)
      /\ LoopsOK(frames, lists, newest, fixed)
      /\ ReturnedOK(returned, frames, lists, newest)
  BY <1>1 DEF Inv, ListsOK
<1>3. /\ lists' = IF a = d THEN lists
                  ELSE [lists EXCEPT ![a].items = left, ![d] = [room EXCEPT !.items = @ \o dealt]]
      /\ newest' = newest + 1
      /\ Advance
      /\ returned' = returned /\ elements' = elements /\ game' = game /\ crashed' = crashed
  BY DEF Deal, Left
<1>4. /\ IsSequence(s) /\ IsSequence(t) /\ Len(s) \in Nat /\ Len(t) \in Nat
      /\ k \in 0..Len(s) /\ k \in Nat
      /\ lists[a] = [buf |-> lists[a].buf, cap |-> lists[a].cap, items |-> s]
      /\ lists[d] = [buf |-> lists[d].buf, cap |-> lists[d].cap, items |-> t]
  <2>1. /\ IsSequence(s) /\ IsSequence(t)
        /\ lists[a] = [buf |-> lists[a].buf, cap |-> lists[a].cap, items |-> s]
        /\ lists[d] = [buf |-> lists[d].buf, cap |-> lists[d].cap, items |-> t]
    BY <1>2 DEF ListOK
  <2>2. Len(s) \in Nat /\ Len(t) \in Nat
    BY <2>1, AnySequence
  <2> QED
    BY <1>1, <2>1, <2>2
<1>5. /\ IsSequence(left)
      /\ \A i \in 1..Len(left) : \E j \in 1..Len(s) : left[i] = s[j]
  <2>1. Len(s) - k \in 0..Len(s) /\ \A i \in 1..(Len(s) - k) : i \in 1..Len(s)
    BY <1>4
  <2>2. /\ IsSequence(left) /\ Len(left) = Len(s) - k
        /\ \A i \in 1..(Len(s) - k) : left[i] = s[i]
    BY <1>4, <2>1, CutSequence
  <2> QED
    BY <2>1, <2>2
<1>6. /\ IsSequence(dealt) /\ Len(dealt) = k
      /\ \A i \in 1..Len(dealt) : \E j \in 1..Len(s) : dealt[i] = s[j]
  <2>1. \A i \in 1..k : Len(s) + 1 - i \in 1..Len(s)
    BY <1>4
  <2>2. dealt = [i \in 1..k |-> dealt[i]] /\ \A i \in 1..k : dealt[i] = s[Len(s) + 1 - i]
    OBVIOUS
  <2> HIDE DEF dealt, k
  <2>3. IsSequence(dealt) /\ Len(dealt) = k
    BY <1>4, <2>2, MadeSequence
  <2> QED
    BY <2>1, <2>2, <2>3
<1>7. /\ room = [buf |-> room.buf, cap |-> room.cap, items |-> t]
      /\ room.buf = lists[d].buf \/ room.buf = newest + 1
  BY <1>4 DEF Grown
<1> HIDE DEF left, dealt, room, k
<1>8. [room EXCEPT !.items = @ \o dealt] = y
  <2>1. room = [buf |-> room.buf, cap |-> room.cap, items |-> room.items] /\ room.items = t
    BY <1>7
  <2>2. [room EXCEPT !.items = t \o dealt]
        = [buf |-> room.buf, cap |-> room.cap, items |-> t \o dealt]
    BY ONLY <2>1, ItemsReplaced
  <2> QED
    BY <2>1, <2>2
<1>9. [lists[a] EXCEPT !.items = left] = x
  BY <1>4, ItemsReplaced
<1>10. /\ IsSequence(y.items)
       /\ \A i \in 1..Len(y.items) :
              \/ \E j \in 1..Len(t) : y.items[i] = t[j]
              \/ \E j \in 1..Len(dealt) : y.items[i] = dealt[j]
  <2>1. IsSequence(t) /\ IsSequence(dealt)
    BY <1>4, <1>6
  <2>2. From(t \o dealt, t, dealt)
    <3> HIDE DEF t, dealt
    <3> QED
      BY ONLY <2>1, JoinedItems
  <2>3. y.items = t \o dealt
    OBVIOUS
  <2> HIDE DEF y, t, dealt
  <2> QED
    BY ONLY <2>2, <2>3 DEF From
<1>11. /\ x.buf = lists[a].buf /\ y.buf = room.buf /\ x.items = left
       /\ x = [buf |-> x.buf, cap |-> x.cap, items |-> x.items]
       /\ y = [buf |-> y.buf, cap |-> y.cap, items |-> y.items]
  OBVIOUS
<1> HIDE DEF x, y
<1>12. \A i \in 1..Len(x.items) :
           /\ ItemOK(x.items[i], lists, fixed)
           /\ a \in views => Aims(x.items[i], lists, fixed)
  BY <1>2, <1>5, <1>11 DEF ListOK
<1>13. \A i \in 1..Len(y.items) :
           /\ ItemOK(y.items[i], lists, fixed)
           /\ d \in views => Aims(y.items[i], lists, fixed)
  <2>1. \A j \in 1..Len(s) :
           ItemOK(s[j], lists, fixed) /\ (a \in views => Aims(s[j], lists, fixed))
    BY <1>2 DEF ListOK
  <2>2. \A j \in 1..Len(t) :
           ItemOK(t[j], lists, fixed) /\ (d \in views => Aims(t[j], lists, fixed))
    BY <1>2 DEF ListOK
  <2>3. \A j \in 1..Len(dealt) :
           ItemOK(dealt[j], lists, fixed) /\ (d \in views => Aims(dealt[j], lists, fixed))
    BY <1>1, <1>6, <2>1
  <2> HIDE DEF a, d, s, t
  <2> QED
    BY <1>10, <2>2, <2>3
<1>14. newest' \in Nat /\ newest <= newest' /\ (newest + 1) \in (newest + 1)..newest'
       /\ \A z \in 1..newest : z # newest + 1
  BY <1>2, <1>3
<1>15. CASE a # d
  <2>1. lists' = [lists EXCEPT ![a] = x, ![d] = y]
    BY <1>3, <1>8, <1>9, <1>15
  <2> HIDE DEF a, d, s, t
  <2>2. /\ lists' = [l \in DOMAIN lists |-> lists'[l]]
        /\ lists'[a] = x /\ lists'[d] = y
        /\ \A l \in DOMAIN lists : l # a /\ l # d => lists'[l] = lists[l]
    BY <1>1, <1>2, <1>15, <2>1
  <2>3. Changed(a, lists, lists', newest, newest', fixed, views)
    BY <1>1, <1>5, <1>11, <1>12, <2>2 DEF Changed
  <2>4. Changed(d, lists, lists', newest, newest', fixed, views)
    BY <1>1, <1>7, <1>10, <1>11, <1>13, <1>14, <2>2 DEF Changed
  <2>5. \A l \in DOMAIN lists : Changed(l, lists, lists', newest, newest', fixed, views)
    <3> DEFINE ms == lists'
               n1 == newest'
    <3>1. \A l \in DOMAIN lists : l # a /\ l # d => ms[l] = lists[l]
      BY <2>2
    <3> HIDE DEF ms, n1
    <3>2. \A l \in DOMAIN lists : l # a /\ l # d =>
             Changed(l, lists, ms, newest, n1, fixed, views)
      BY <1>2, <3>1, UnchangedList
    <3> QED
      BY <2>3, <2>4, <3>2 DEF ms, n1
  <2>6. /\ \A l \in DOMAIN lists : lists[l].buf \in 1..newest
        /\ \A l, m \in DOMAIN lists : lists[l].buf = lists[m].buf => l = m
    BY <1>2 DEF ListsOK, ListOK
  <2>7. /\ \A l \in DOMAIN lists : l # d => lists'[l].buf = lists[l].buf
        /\ lists'[d].buf = lists[d].buf \/ lists'[d].buf = newest + 1
    BY <1>7, <1>11, <2>2
  <2>8. \A l, m \in DOMAIN lists : lists'[l].buf = lists'[m].buf => l = m
    BY <1>1, <1>2, <1>14, <2>6, <2>7
  <2>9. \A l \in GoneOf(frames, Len(frames)) : lists'[l] = lists[l]
    <3>1. GoneOf(frames, Len(frames)) \subseteq DOMAIN lists
      BY <1>2 DEF GoneOf, LoopsOK, LoopOK
    <3> QED
      BY <1>1, <2>2, <3>1
  <2>10. ReturnedOK(returned', frames, lists', newest')
    <3> DEFINE ms == lists'
               n1 == newest'
               new == returned'
    <3>1. /\ n1 \in Nat /\ newest <= n1 /\ DOMAIN ms = DOMAIN lists
          /\ \A l \in DOMAIN lists : ms[l].buf = lists[l].buf
                                     \/ ms[l].buf \in (newest + 1)..n1
          /\ new = returned
      BY <1>3, <1>14, <2>2, <2>7
    <3> HIDE DEF ms, n1, new
    <3>2. ReturnedOK(new, frames, ms, n1)
      BY ONLY <1>2, <3>1, ReturnedAs
    <3> QED
      BY <3>2 DEF ms, n1, new
  <2>11. ElementsOK(frames, elements', lists, fixed)
    BY <1>2, <1>3
  <2> QED
    BY <1>1, <1>3, <1>14, <2>2, <2>5, <2>8, <2>9, <2>10, <2>11, OnlyLists
<1>16. CASE a = d
  <2>1. lists' = lists
    BY <1>3, <1>16
  <2>2. \A i \in 1..Len(t) :
            /\ ItemOK(t[i], lists, fixed)
            /\ d \in views => Aims(t[i], lists, fixed)
    BY <1>2 DEF ListOK
  <2>3. ElementsOK(frames, elements', lists, fixed)
    BY <1>2, <1>3
  <2>4. lists[d] = [buf |-> lists[d].buf, cap |-> lists[d].cap, items |-> lists[d].items]
        /\ IsSequence(lists[d].items)
    BY <1>4
  <2> HIDE DEF d
  <2> QED
    BY <1>1, <1>2, <1>3, <1>14, <2>1, <2>2, <2>3, <2>4, OneList DEF t
<1> QED
  BY <1>15, <1>16

\* The items of a list have changed places.
Rearranged(d) ==
    /\ \E f \in Bijection(DOMAIN lists[d].items, DOMAIN lists[d].items) :
          lists' = [lists EXCEPT ![d].items = [i \in DOMAIN f |-> lists[d].items[f[i]]]]
    /\ Advance
    /\ UNCHANGED <<returned, elements, newest, game, crashed, over, before>>

LEMMA RearrangedByRules ==
  /\ ReverseList => Rearranged(Rule.list)
  /\ Shuffle => Rearranged(Rule.list)
  /\ Sort => Rearranged(Rule.list)
             \/ UNCHANGED <<lists, returned, elements, frames, newest, game, crashed, before>>
<1>1. Shuffle => Rearranged(Rule.list)
  BY Zenon DEF Shuffle, Rearrange, Rearranged
<1>2. ReverseList => Rearranged(Rule.list)
  BY Zenon DEF ReverseList, Rearrange, Rearranged
<1>3. Sort => Rearranged(Rule.list)
              \/ UNCHANGED <<lists, returned, elements, frames, newest, game, crashed, before>>
  BY Zenon DEF Sort, Rearrange, Rearranged
<1> QED
  BY <1>1, <1>2, <1>3

LEMMA RearrangedKeeps ==
  ASSUME NEW fixed, NEW views, NEW parts, Inv(fixed, views, parts),
         Orderly(game, fixed, views, parts),
         frames # <<>>, Top.pos <= Len(Top.rules),
         NEW d \in DOMAIN game.lists \ GoneOf(frames, Len(frames)), Rearranged(d)
  PROVE  Inv(fixed, views, parts)'
<1> DEFINE t == lists[d].items
           x == lists'[d]
<1>1. /\ newest \in Nat /\ DOMAIN lists = DOMAIN game.lists
      /\ lists = [l \in DOMAIN lists |-> lists[l]]
      /\ ListOK(d, lists, newest, fixed, views)
      /\ ElementsOK(frames, elements, lists, fixed)
  BY DEF Inv, ListsOK
<1>2. PICK f \in Bijection(DOMAIN t, DOMAIN t) :
         lists' = [lists EXCEPT ![d].items = [i \in DOMAIN f |-> t[f[i]]]]
  BY DEF Rearranged
<1>3. /\ lists[d] = [buf |-> lists[d].buf, cap |-> lists[d].cap, items |-> lists[d].items]
      /\ IsSequence(t) /\ Len(t) \in Nat /\ DOMAIN t = 1..Len(t)
  BY <1>1, AnySequence DEF ListOK
<1> DEFINE s == [i \in DOMAIN f |-> t[f[i]]]
<1>4. IsSequence(s) /\ Len(s) = Len(t) /\ \A i \in 1..Len(s) : \E j \in 1..Len(t) : s[i] = t[j]
  <2>1. f \in [1..Len(t) -> 1..Len(t)]
    BY <1>2, <1>3 DEF Bijection, Injection
  <2>2. s = [i \in 1..Len(t) |-> s[i]] /\ \A i \in 1..Len(t) : s[i] = t[f[i]]
    BY <2>1
  <2> HIDE DEF s, t
  <2>3. IsSequence(s) /\ Len(s) = Len(t)
    BY <1>3, <2>2, MadeSequence
  <2> QED
    BY <2>1, <2>2, <2>3
<1>5. lists' = [lists EXCEPT ![d] = [lists[d] EXCEPT !.items = s]]
  BY <1>2
<1> HIDE DEF s, t
<1>6. [lists[d] EXCEPT !.items = s]
      = [buf |-> lists[d].buf, cap |-> lists[d].cap, items |-> s]
  BY <1>3, ItemsReplaced
<1>7. x = [buf |-> lists[d].buf, cap |-> lists[d].cap, items |-> s]
  BY <1>1, <1>5, <1>6
<1>8. /\ lists' = [l \in DOMAIN lists |-> lists'[l]]
      /\ \A l \in DOMAIN lists : l # d => lists'[l] = lists[l]
  BY <1>1, <1>5
<1>9. x = [buf |-> x.buf, cap |-> x.cap, items |-> x.items] /\ x.buf = lists[d].buf
      /\ x.items = s
  BY <1>7
<1>10. \A i \in 1..Len(x.items) :
          /\ ItemOK(x.items[i], lists, fixed)
          /\ d \in fixed => x.items[i].is = "value"
          /\ d \in views => Aims(x.items[i], lists, fixed)
  BY <1>1, <1>4, <1>9 DEF ListOK, t
<1>11. /\ newest' \in Nat /\ newest <= newest'
       /\ ElementsOK(frames, elements', lists, fixed)
       /\ returned' = returned /\ game' = game /\ crashed' = crashed /\ Advance
  BY <1>1 DEF Rearranged
<1>12. IsSequence(x.items) /\ Len(x.items) = Len(lists[d].items)
  BY <1>4, <1>9 DEF t
<1> QED
  BY <1>8, <1>9, <1>10, <1>11, <1>12, OneList

LEMMA RearrangeKeeps ==
  ASSUME NEW fixed, NEW views, NEW parts, Inv(fixed, views, parts),
         Orderly(game, fixed, views, parts), ReverseList \/ Shuffle \/ Sort
  PROVE  Inv(fixed, views, parts)'
<1>1. /\ frames # <<>> /\ Top.pos <= Len(Top.rules)
      /\ Rule.list \in DOMAIN game.lists \ GoneOf(frames, Len(frames))
  <2> DEFINE part == Part(Top.rules, NamesOf(frames, Len(frames)), GoneOf(frames, Len(frames)))
  <2>1. PICK kind \in {"reverse", "shuffle", "sort"} : At(kind)
    BY DEF ReverseList, Shuffle, Sort
  <2>2. /\ frames # <<>> /\ Top.pos <= Len(Top.rules) /\ Rule.rule = kind
        /\ MayRun(Rule, game, fixed, views, part, parts)
        /\ part.gone = GoneOf(frames, Len(frames))
    BY <2>1, RuleThere
  <2> HIDE DEF part
  <2>3. \/ Rule.list \in DOMAIN game.lists \ part.gone
    BY <2>1, <2>2 DEF MayRun
  <2> QED
    BY <2>2, <2>3
<1>2. CASE Rearranged(Rule.list)
  BY <1>1, <1>2, RearrangedKeeps
<1>3. CASE UNCHANGED <<lists, returned, elements, frames, newest, game, crashed, before>>
  BY <1>3 DEF Inv
<1> QED
  BY <1>2, <1>3, RearrangedByRules

-----------------------------------------------------------------------------
(* add, when, and what the players choose *)

LEMMA NamedElement ==
  ASSUME NEW fixed, NEW views, NEW parts, Inv(fixed, views, parts),
         frames # <<>>, Top.pos <= Len(Top.rules),
         NEW e \in NamesOf(frames, Len(frames))
  PROVE  \E i \in 1..Len(frames) :
            IsLoop(frames[i]) /\ ElementOK(elements[e], frames[i].loop, lists, fixed)
<1>1. PICK i \in 1..Len(frames) : IsLoop(frames[i]) /\ frames[i].loop.element = e
  BY DEF NamesOf
<1>2. FrameOK(frames, i, parts)
  BY DEF Inv, FramesOK
<1>3. frames[i].loop.at # 1
  <2> SUFFICES ASSUME frames[i].loop.at = 1 PROVE FALSE
    OBVIOUS
  <2>1. i = Len(frames) /\ frames[i].rules = <<>> /\ frames[i].pos \in 1..(Len(frames[i].rules) + 1)
    BY <1>1, <1>2 DEF FrameOK
  <2>2. Len(Top.rules) = 0 /\ Top.pos \in 1..1
    BY <2>1, NoSequence DEF Top
  <2> QED
    BY <2>2
<1>4. ElementOK(elements[e], frames[i].loop, lists, fixed)
  BY <1>1, <1>3 DEF Inv, ElementsOK
<1> QED
  BY <1>1, <1>4

\* add changes an item of a fixed list, or what some foreach has saved.
LEMMA AddWrites ==
  ASSUME NEW fixed, NEW views, NEW parts, Inv(fixed, views, parts),
         Orderly(game, fixed, views, parts), Add
  PROVE  /\ frames # <<>> /\ Top.pos <= Len(Top.rules) /\ Advance /\ ~crashed'
         /\ GoneOf(frames, Len(frames)) \subseteq views
         /\ \/ lists' = lists
            \/ \E d \in fixed : \E v :
                  \E k \in 1..Len(lists[d].items) :
                     lists' = [lists EXCEPT ![d] =
                                  [lists[d] EXCEPT !.items = [lists[d].items EXCEPT ![k] = Value(v)]]]
<1> DEFINE n == Len(frames)
           e == Rule.element
           p == elements[e]
<1>1. /\ frames # <<>> /\ Top.pos <= Len(Top.rules)
      /\ e \in NamesOf(frames, n) /\ GoneOf(frames, n) \subseteq views
  <2> DEFINE part == Part(Top.rules, NamesOf(frames, n), GoneOf(frames, n))
  <2>1. At("add")
    BY DEF Add
  <2>2. /\ frames # <<>> /\ Top.pos <= Len(Top.rules) /\ Rule.rule = "add"
        /\ MayRun(Rule, game, fixed, views, part, parts)
        /\ part.names = NamesOf(frames, n) /\ part.gone = GoneOf(frames, n)
    BY <2>1, RuleThere
  <2> HIDE DEF part
  <2> QED
    BY <2>2 DEF MayRun
<1> HIDE DEF e
<1>2. PICK i \in 1..n : IsLoop(frames[i]) /\ ElementOK(p, frames[i].loop, lists, fixed)
  BY <1>1, NamedElement
<1>3. Reaches(p) /\ Target(p) = p
  BY <1>2, ElementReaches
<1>4. /\ DOMAIN lists = DOMAIN game.lists /\ lists = [l \in DOMAIN lists |-> lists[l]]
      /\ \A l, m \in DOMAIN lists : lists[l].buf = lists[m].buf => l = m
      /\ fixed \subseteq DOMAIN lists /\ views \subseteq DOMAIN lists \ fixed
      /\ LoopOK(frames[i].loop, lists, newest, fixed)
      /\ \A l \in DOMAIN lists : ListOK(l, lists, newest, fixed, views)
  BY <1>2 DEF Inv, ListsOK, Orderly, LoopsOK
<1> HIDE DEF p
<1>5. /\ \E v : Write(p, v)
      /\ Advance /\ ~crashed'
  BY <1>3 DEF Add, Inv, p, e
<1>6. PICK v : Write(p, v)
  BY <1>5
<1>7. CASE Aims(p, lists, fixed)
  <2>1. PICK d \in fixed : p.buf = lists[d].buf /\ p.at \in 1..Len(lists[d].items)
    BY <1>7 DEF Aims
  <2>2. \A l \in DOMAIN lists : lists[l].buf = p.buf <=> l = d
    BY <1>4, <2>1
  <2> DEFINE x == [lists[d] EXCEPT !.items = [lists[d].items EXCEPT ![p.at] = Value(v)]]
  <2>3. lists' = [l \in DOMAIN lists |->
                    IF lists[l].buf = p.buf
                    THEN [lists[l] EXCEPT !.items[p.at] = Value(v)] ELSE lists[l]]
    BY <1>6 DEF Write
  <2>4. lists' = [l \in DOMAIN lists |-> IF l = d THEN x ELSE lists[l]]
    BY <2>2, <2>3
  <2> HIDE DEF x
  <2>5. lists' = [lists EXCEPT ![d] = x]
    BY <1>4, <2>4
  <2> QED
    BY <1>1, <1>5, <2>1, <2>5 DEF x
<1>8. CASE ~Aims(p, lists, fixed)
  <2>1. /\ p.buf = frames[i].loop.buf
        /\ p.at \in 1..Len(frames[i].loop.had) /\ frames[i].loop.had[p.at].is = "value"
    BY <1>2, <1>8 DEF ElementOK
  <2>2. frames[i].loop.own
    <3> SUFFICES ASSUME ~frames[i].loop.own PROVE FALSE
      BY <1>4 DEF LoopOK
    <3> DEFINE l == frames[i].loop.query.of
    <3>1. l \in DOMAIN lists /\ frames[i].loop.had = lists[l].items
      BY <1>4 DEF LoopOK
    <3>2. l \in GoneOf(frames, n)
      BY <1>2 DEF GoneOf
    <3>3. l \in views
      BY <1>1, <3>2
    <3> HIDE DEF l
    <3>4. Aims(lists[l].items[p.at], lists, fixed)
      BY <1>4, <2>1, <3>1, <3>3 DEF ListOK
    <3> QED
      BY <2>1, <3>1, <3>4 DEF Aims
  <2>3. \A l \in DOMAIN lists : lists[l].buf # p.buf
    BY <1>4, <2>1, <2>2 DEF LoopOK
  <2>4. lists' = [l \in DOMAIN lists |->
                    IF lists[l].buf = p.buf
                    THEN [lists[l] EXCEPT !.items[p.at] = Value(v)] ELSE lists[l]]
    BY <1>6 DEF Write
  <2>5. lists' = [l \in DOMAIN lists |-> lists[l]]
    BY <2>3, <2>4
  <2>6. lists' = lists
    BY <1>4, <2>5
  <2> QED
    BY <1>1, <1>5, <2>6
<1> QED
  BY <1>7, <1>8

\* The rules that leave the lists as they are.
LEMMA SameLists ==
  ASSUME NEW fixed, NEW views, NEW parts, Inv(fixed, views, parts),
         Orderly(game, fixed, views, parts),
         frames # <<>>, Top.pos <= Len(Top.rules),
         lists' = lists, newest' = newest, Advance,
         ElementsOK(frames, elements', lists, fixed), returned' = returned,
         game' = game, crashed' = crashed
  PROVE  Inv(fixed, views, parts)'
<1>1. newest \in Nat /\ lists = [l \in DOMAIN lists |-> lists[l]]
      /\ DOMAIN lists = DOMAIN game.lists
      /\ ListsOK(lists, newest, game, fixed, views)
      /\ \A l, m \in DOMAIN lists : lists[l].buf = lists[m].buf => l = m
  BY DEF Inv, ListsOK
<1>2. \A l \in DOMAIN lists : Changed(l, lists, lists, newest, newest, fixed, views)
  BY <1>1, UnchangedList
<1>3. ReturnedOK(returned', frames, lists', newest')
  BY DEF Inv
<1>4. /\ newest' \in Nat /\ newest <= newest' /\ lists' = [l \in DOMAIN lists |-> lists'[l]]
      /\ \A l \in DOMAIN lists : Changed(l, lists, lists', newest, newest', fixed, views)
      /\ \A l, m \in DOMAIN lists : lists'[l].buf = lists'[m].buf => l = m
      /\ \A l \in GoneOf(frames, Len(frames)) : lists'[l] = lists[l]
  BY <1>1, <1>2
<1> QED
  BY <1>3, <1>4, OnlyLists

LEMMA AddKeeps ==
  ASSUME NEW fixed, NEW views, NEW parts, Inv(fixed, views, parts),
         Orderly(game, fixed, views, parts), Add
  PROVE  Inv(fixed, views, parts)'
<1>1. /\ frames # <<>> /\ Top.pos <= Len(Top.rules) /\ Advance /\ ~crashed'
      /\ GoneOf(frames, Len(frames)) \subseteq views
      /\ \/ lists' = lists
         \/ \E d \in fixed : \E v :
                  \E k \in 1..Len(lists[d].items) :
                     lists' = [lists EXCEPT ![d] =
                                  [lists[d] EXCEPT !.items = [lists[d].items EXCEPT ![k] = Value(v)]]]
  BY AddWrites
<1>2. /\ returned' = returned /\ elements' = elements /\ newest' = newest /\ game' = game
      /\ crashed' = crashed
  BY <1>1 DEF Add, Inv
<1>3. ElementsOK(frames, elements', lists, fixed)
  BY <1>2 DEF Inv
<1>4. CASE lists' = lists
  BY <1>1, <1>2, <1>3, <1>4, SameLists
<1>5. ASSUME NEW d \in fixed, NEW v, NEW k \in 1..Len(lists[d].items),
             lists' = [lists EXCEPT ![d] =
                          [lists[d] EXCEPT !.items = [lists[d].items EXCEPT ![k] = Value(v)]]]
      PROVE  Inv(fixed, views, parts)'
  <2> DEFINE t == lists[d].items
             s == [t EXCEPT ![k] = Value(v)]
             x == [buf |-> lists[d].buf, cap |-> lists[d].cap, items |-> s]
  <2>1. /\ DOMAIN lists = DOMAIN game.lists /\ lists = [l \in DOMAIN lists |-> lists[l]]
        /\ d \in DOMAIN game.lists \ GoneOf(frames, Len(frames)) /\ d \notin views
        /\ ListOK(d, lists, newest, fixed, views) /\ newest \in Nat
    BY <1>1 DEF Inv, ListsOK, Orderly
  <2>2. IsSequence(t) /\ (\A i \in 1..Len(t) : t[i].is = "value")
        /\ lists[d] = [buf |-> lists[d].buf, cap |-> lists[d].cap, items |-> lists[d].items]
    BY <2>1 DEF ListOK
  <2>3. IsSequence(s) /\ Len(s) = Len(t) /\ s[k] = Value(v)
        /\ \A i \in 1..Len(t) : i # k => s[i] = t[i]
    <3> HIDE DEF t
    <3> QED
      BY <1>5, <2>2, ChangedSequence DEF t
  <2> HIDE DEF s
  <2>4. \A i \in 1..Len(s) : s[i].is = "value"
    BY <2>2, <2>3 DEF Value
  <2> HIDE DEF t
  <2>5. [lists[d] EXCEPT !.items = s] = x
    BY <2>2, ItemsReplaced
  <2>6. lists' = [lists EXCEPT ![d] = x]
    BY <1>5, <2>5 DEF s, t
  <2>7. x = [buf |-> x.buf, cap |-> x.cap, items |-> x.items] /\ x.buf = lists[d].buf
        /\ x.items = s
    OBVIOUS
  <2> HIDE DEF x
  <2>8. /\ lists' = [l \in DOMAIN lists |-> lists'[l]] /\ lists'[d] = x
        /\ \A l \in DOMAIN lists : l # d => lists'[l] = lists[l]
    BY <2>1, <2>6
  <2>9. \A i \in 1..Len(x.items) :
          /\ ItemOK(x.items[i], lists, fixed)
          /\ d \in fixed => x.items[i].is = "value"
          /\ d \in views => Aims(x.items[i], lists, fixed)
    BY <2>1, <2>4, <2>7 DEF ItemOK
  <2>10. newest' \in Nat /\ newest <= newest'
    BY <1>2, <2>1
  <2>11. IsSequence(x.items) /\ Len(x.items) = Len(lists[d].items)
    BY <2>3, <2>7 DEF t
  <2> QED
    BY <1>1, <1>2, <1>3, <2>1, <2>7, <2>8, <2>9, <2>10, <2>11, OneList
<1> QED
  BY <1>1, <1>4, <1>5

LEMMA ChooseKeeps ==
  ASSUME NEW fixed, NEW views, NEW parts, Inv(fixed, views, parts),
         Orderly(game, fixed, views, parts), Choose
  PROVE  Inv(fixed, views, parts)'
<1> DEFINE d == "players"
           t == lists[d].items
<1>1. /\ frames # <<>> /\ Top.pos <= Len(Top.rules)
      /\ d \in DOMAIN game.lists \ GoneOf(frames, Len(frames)) /\ d \notin views
  <2> DEFINE part == Part(Top.rules, NamesOf(frames, Len(frames)), GoneOf(frames, Len(frames)))
  <2>1. At("choose")
    BY DEF Choose
  <2>2. /\ frames # <<>> /\ Top.pos <= Len(Top.rules) /\ Rule.rule = "choose"
        /\ MayRun(Rule, game, fixed, views, part, parts)
        /\ part.gone = GoneOf(frames, Len(frames))
    BY <2>1, RuleThere
  <2> HIDE DEF part
  <2> QED
    BY <2>2 DEF MayRun
<1>2. /\ newest \in Nat /\ DOMAIN lists = DOMAIN game.lists
      /\ lists = [l \in DOMAIN lists |-> lists[l]]
      /\ ListOK(d, lists, newest, fixed, views)
      /\ ElementsOK(frames, elements, lists, fixed)
  BY <1>1 DEF Inv, ListsOK
<1>3. /\ lists[d] = [buf |-> lists[d].buf, cap |-> lists[d].cap, items |-> lists[d].items]
      /\ IsSequence(t) /\ Len(t) \in Nat
  BY <1>2, AnySequence DEF ListOK
<1>4. PICK w : lists' = [lists EXCEPT ![d].items =
                           [i \in 1..Len(t) |-> Value([t[i].v EXCEPT !.weapon = w[i]])]]
  BY DEF Choose
<1> DEFINE s == [i \in 1..Len(t) |-> Value([t[i].v EXCEPT !.weapon = w[i]])]
           x == [buf |-> lists[d].buf, cap |-> lists[d].cap, items |-> s]
<1>5. IsSequence(s) /\ Len(s) = Len(t) /\ \A i \in 1..Len(s) : s[i].is = "value"
  <2>1. s = [i \in 1..Len(t) |-> s[i]] /\ \A i \in 1..Len(t) : s[i].is = "value"
    BY DEF Value
  <2> HIDE DEF s, t
  <2>2. IsSequence(s) /\ Len(s) = Len(t)
    BY <1>3, <2>1, MadeSequence
  <2> QED
    BY <2>1, <2>2
<1>6. lists' = [lists EXCEPT ![d] = [lists[d] EXCEPT !.items = s]]
  BY <1>4
<1> HIDE DEF s, t
<1>7. [lists[d] EXCEPT !.items = s] = x
  BY <1>3, ItemsReplaced
<1>8. lists' = [lists EXCEPT ![d] = x]
  BY <1>6, <1>7
<1>9. x = [buf |-> x.buf, cap |-> x.cap, items |-> x.items] /\ x.buf = lists[d].buf
      /\ x.items = s
  OBVIOUS
<1> HIDE DEF x
<1>10. /\ lists' = [l \in DOMAIN lists |-> lists'[l]] /\ lists'[d] = x
       /\ \A l \in DOMAIN lists : l # d => lists'[l] = lists[l]
  BY <1>1, <1>2, <1>8
<1>11. \A i \in 1..Len(x.items) :
          /\ ItemOK(x.items[i], lists, fixed)
          /\ d \in fixed => x.items[i].is = "value"
          /\ d \in views => Aims(x.items[i], lists, fixed)
  BY <1>1, <1>5, <1>9 DEF ItemOK
<1>12. IsSequence(x.items) /\ Len(x.items) = Len(lists[d].items)
  BY <1>5, <1>9 DEF t
<1>13. /\ newest' \in Nat /\ newest <= newest'
       /\ ElementsOK(frames, elements', lists, fixed)
       /\ returned' = returned /\ game' = game /\ crashed' = crashed /\ Advance
  BY <1>2 DEF Choose
<1> HIDE DEF d
<1> QED
  BY <1>1, <1>9, <1>10, <1>11, <1>12, <1>13, OneList

-----------------------------------------------------------------------------
(* Rules begin, and rules end *)

\* f is begun inside the rules of fs.
Begun(f, fs, parts) ==
    LET n == Len(fs) IN
    /\ f = [rules |-> f.rules, pos |-> f.pos, loop |-> f.loop]
    /\ IsSequence(f.rules) /\ f.pos = 1
    /\ ~IsLoop(f) => Part(f.rules, NamesOf(fs, n), GoneOf(fs, n)) \in parts
    /\ IsLoop(f) =>
          /\ f.rules = <<>> /\ f.loop.at = 1
          /\ f.loop.element \notin NamesOf(fs, n)
          /\ Part(f.loop.body, NamesOf(fs, n) \cup {f.loop.element},
                  GoneOf(fs, n) \cup (IF f.loop.own THEN {} ELSE {f.loop.query.of})) \in parts

LEMMA MoreNames ==
  ASSUME NEW gs, NEW n \in Nat
  PROVE  /\ NamesOf(gs, n + 1) = NamesOf(gs, n) \cup
               (IF IsLoop(gs[n + 1]) THEN {gs[n + 1].loop.element} ELSE {})
         /\ GoneOf(gs, n + 1) = GoneOf(gs, n) \cup
               (IF IsLoop(gs[n + 1]) /\ ~gs[n + 1].loop.own
                THEN {gs[n + 1].loop.query.of} ELSE {})
<1>1. 1..(n + 1) = (1..n) \cup {n + 1}
  OBVIOUS
<1>2. {i \in 1..(n + 1) : IsLoop(gs[i])}
      = {i \in 1..n : IsLoop(gs[i])} \cup (IF IsLoop(gs[n + 1]) THEN {n + 1} ELSE {})
  BY <1>1
<1>3. {i \in 1..(n + 1) : IsLoop(gs[i]) /\ ~gs[i].loop.own}
      = {i \in 1..n : IsLoop(gs[i]) /\ ~gs[i].loop.own}
        \cup (IF IsLoop(gs[n + 1]) /\ ~gs[n + 1].loop.own THEN {n + 1} ELSE {})
  BY <1>1
<1>4. NamesOf(gs, n + 1) = NamesOf(gs, n) \cup
               (IF IsLoop(gs[n + 1]) THEN {gs[n + 1].loop.element} ELSE {})
  BY <1>2 DEF NamesOf
<1>5. GoneOf(gs, n + 1) = GoneOf(gs, n) \cup
               (IF IsLoop(gs[n + 1]) /\ ~gs[n + 1].loop.own
                THEN {gs[n + 1].loop.query.of} ELSE {})
  BY <1>3 DEF GoneOf
<1> QED
  BY <1>4, <1>5

LEMMA BegunFrames ==
  ASSUME NEW fs, NEW parts, FramesOK(fs, parts), fs # <<>>,
         fs[Len(fs)].pos <= Len(fs[Len(fs)].rules),
         NEW f, Begun(f, fs, parts)
  PROVE  LET gs == Append([fs EXCEPT ![Len(fs)].pos = @ + 1], f) IN
         /\ FramesOK(gs, parts) /\ Len(gs) = Len(fs) + 1 /\ Len(fs) \in Nat
         /\ \A i \in 1..Len(fs) : gs[i].loop = fs[i].loop
         /\ gs[Len(fs) + 1] = f
<1> DEFINE n == Len(fs)
           hs == [fs EXCEPT ![n].pos = @ + 1]
           gs == Append(hs, f)
<1>1. /\ FramesOK(hs, parts) /\ Len(hs) = n /\ n \in Nat \ {0}
      /\ \A i \in 1..n : hs[i].loop = fs[i].loop
      /\ hs[n].loop.at # 1 \/ ~IsLoop(hs[n])
  BY AdvancedFrames
<1> HIDE DEF hs, n
<1>2. IsSequence(hs)
  BY <1>1 DEF FramesOK
<1>3. /\ IsSequence(gs) /\ Len(gs) = n + 1 /\ gs[n + 1] = f
      /\ \A i \in 1..n : gs[i] = hs[i]
  BY <1>1, <1>2, LongerSequence
<1> HIDE DEF gs
<1>4. \A i \in 0..n : /\ NamesOf(gs, i) = NamesOf(fs, i) /\ GoneOf(gs, i) = GoneOf(fs, i)
                      /\ NamesOf(gs, i) = NamesOf(hs, i) /\ GoneOf(gs, i) = GoneOf(hs, i)
  <2> SUFFICES ASSUME NEW i \in 0..n
               PROVE  /\ NamesOf(gs, i) = NamesOf(fs, i) /\ GoneOf(gs, i) = GoneOf(fs, i)
                      /\ NamesOf(gs, i) = NamesOf(hs, i) /\ GoneOf(gs, i) = GoneOf(hs, i)
    OBVIOUS
  <2>1. i \in Nat /\ (\A j \in 1..i : gs[j].loop = fs[j].loop)
        /\ \A j \in 1..i : gs[j].loop = hs[j].loop
    BY <1>1, <1>3
  <2> QED
    BY <2>1, SameNames
<1>5. ASSUME NEW i \in 1..n
      PROVE  FrameOK(gs, i, parts)
  <2>1. FrameOK(hs, i, parts) /\ gs[i] = hs[i]
    BY <1>1, <1>3 DEF FramesOK
  <2>2. /\ NamesOf(gs, i) = NamesOf(hs, i) /\ GoneOf(gs, i) = GoneOf(hs, i)
        /\ NamesOf(gs, i - 1) = NamesOf(hs, i - 1)
    <3>1. i \in 0..n /\ i - 1 \in 0..n
      BY <1>1
    <3> QED
      BY <1>4, <3>1
  <2>3. IsLoop(gs[i]) => gs[i].loop.at # 1
    <3>1. CASE i = n
      BY <1>1, <2>1, <3>1
    <3>2. CASE i # n
      BY <1>1, <2>1, <3>2 DEF FrameOK
    <3> QED
      BY <3>1, <3>2
  <2> QED
    BY <2>1, <2>2, <2>3 DEF FrameOK
<1>6. FrameOK(gs, n + 1, parts)
  <2>1. /\ NamesOf(gs, n + 1) = NamesOf(fs, n) \cup
               (IF IsLoop(f) THEN {f.loop.element} ELSE {})
        /\ GoneOf(gs, n + 1) = GoneOf(fs, n) \cup
               (IF IsLoop(f) /\ ~f.loop.own THEN {f.loop.query.of} ELSE {})
        /\ NamesOf(gs, n) = NamesOf(fs, n)
    <3>1. n \in Nat /\ n \in 0..n
      BY <1>1
    <3>2. NamesOf(gs, n) = NamesOf(fs, n) /\ GoneOf(gs, n) = GoneOf(fs, n)
      BY <1>4, <3>1
    <3>3. /\ NamesOf(gs, n + 1) = NamesOf(gs, n) \cup
               (IF IsLoop(gs[n + 1]) THEN {gs[n + 1].loop.element} ELSE {})
          /\ GoneOf(gs, n + 1) = GoneOf(gs, n) \cup
               (IF IsLoop(gs[n + 1]) /\ ~gs[n + 1].loop.own
                THEN {gs[n + 1].loop.query.of} ELSE {})
      BY <3>1, MoreNames
    <3> QED
      BY <1>3, <3>2, <3>3
  <2>2. /\ f = [rules |-> f.rules, pos |-> f.pos, loop |-> f.loop]
        /\ IsSequence(f.rules) /\ f.pos = 1
        /\ ~IsLoop(f) => Part(f.rules, NamesOf(fs, n), GoneOf(fs, n)) \in parts
        /\ IsLoop(f) =>
              /\ f.rules = <<>> /\ f.loop.at = 1
              /\ f.loop.element \notin NamesOf(fs, n)
              /\ Part(f.loop.body, NamesOf(fs, n) \cup {f.loop.element},
                      GoneOf(fs, n) \cup (IF f.loop.own THEN {} ELSE {f.loop.query.of})) \in parts
    BY DEF Begun, n
  <2>3. f.pos \in 1..(Len(f.rules) + 1)
    <3>1. Len(f.rules) \in Nat
      BY <2>2, AnySequence
    <3> QED
      BY <2>2, <3>1
  <2>4. n + 1 - 1 = n
    BY <1>1
  <2>5. ~IsLoop(f) => Part(f.rules, NamesOf(gs, n + 1), GoneOf(gs, n + 1)) \in parts
    BY <2>1, <2>2
  <2>6. IsLoop(f) => /\ Part(f.loop.body, NamesOf(gs, n + 1), GoneOf(gs, n + 1)) \in parts
                     /\ f.loop.element \notin NamesOf(gs, n)
                     /\ f.loop.at = 1 /\ f.rules = <<>>
    BY <2>1, <2>2
  <2> DEFINE m == n + 1
  <2>7. gs[m] = f /\ Len(gs) = m /\ m - 1 = n
    <3>1. gs[m] = f /\ Len(gs) = m
      BY <1>3
    <3>2. m - 1 = n
      BY <1>1
    <3> QED
      BY <3>1, <3>2
  <2>8. /\ ~IsLoop(f) => Part(f.rules, NamesOf(gs, m), GoneOf(gs, m)) \in parts
        /\ IsLoop(f) => /\ Part(f.loop.body, NamesOf(gs, m), GoneOf(gs, m)) \in parts
                        /\ f.loop.element \notin NamesOf(gs, n)
                        /\ f.loop.at = 1 /\ f.rules = <<>>
    BY <2>5, <2>6
  <2> HIDE DEF m
  <2>9. FrameOK(gs, m, parts)
    BY <2>2, <2>3, <2>7, <2>8 DEF FrameOK
  <2> QED
    BY <2>9 DEF m
<1>7. FramesOK(gs, parts)
  <2>1. \A i \in 1..(n + 1) : i \in 1..n \/ i = n + 1
    BY <1>1
  <2> QED
    BY <1>3, <1>5, <1>6, <2>1 DEF FramesOK
<1> QED
  BY <1>1, <1>3, <1>7 DEF gs, hs, n

LEMMA BegunLoops ==
  ASSUME NEW fs, NEW gs, Len(fs) \in Nat, Len(gs) = Len(fs) + 1,
         \A i \in 1..Len(fs) : gs[i].loop = fs[i].loop,
         NEW f, gs[Len(fs) + 1] = f,
         NEW ls, NEW k, NEW fixed, NEW els, NEW ret,
         LoopsOK(fs, ls, k, fixed), ElementsOK(fs, els, ls, fixed), ReturnedOK(ret, fs, ls, k),
         IsLoop(f) => /\ LoopOK(f.loop, ls, k, fixed) /\ f.loop.at = 1
                      /\ f.loop.own => /\ ret.buf # f.loop.buf
                                       /\ \A i \in 1..Len(fs) :
                                             IsLoop(fs[i]) => fs[i].loop.buf # f.loop.buf
  PROVE  LoopsOK(gs, ls, k, fixed) /\ ElementsOK(gs, els, ls, fixed) /\ ReturnedOK(ret, gs, ls, k)
<1>1. \A i \in 1..Len(gs) : i \in 1..Len(fs) \/ i = Len(fs) + 1
  OBVIOUS
<1>2. \A i \in 1..Len(fs) : IsLoop(gs[i]) = IsLoop(fs[i])
  BY DEF IsLoop
<1>3. LoopsOK(gs, ls, k, fixed)
  <2>1. \A i \in 1..Len(gs) : IsLoop(gs[i]) => LoopOK(gs[i].loop, ls, k, fixed)
    BY <1>1, <1>2 DEF LoopsOK
  <2>2. \A i, j \in 1..Len(gs) :
          IsLoop(gs[i]) /\ gs[i].loop.own /\ IsLoop(gs[j]) /\ gs[j].loop.own
          /\ gs[i].loop.buf = gs[j].loop.buf => i = j
    BY <1>1, <1>2 DEF LoopsOK
  <2> QED
    BY <2>1, <2>2 DEF LoopsOK
<1>4. ElementsOK(gs, els, ls, fixed)
  BY <1>1, <1>2 DEF ElementsOK
<1>5. ReturnedOK(ret, gs, ls, k)
  BY <1>1, <1>2 DEF ReturnedOK
<1> QED
  BY <1>3, <1>4, <1>5

\* The buffers there are stay what they are when new ones are counted.
LEMMA MoreBuffers ==
  ASSUME NEW g, NEW ls, NEW n, NEW fixed, NEW views, ListsOK(ls, n, g, fixed, views),
         NEW k \in Nat, n <= k, NEW fs, LoopsOK(fs, ls, n, fixed)
  PROVE  ListsOK(ls, k, g, fixed, views) /\ LoopsOK(fs, ls, k, fixed)
<1>1. n \in Nat /\ \A x \in 1..n : x \in 1..k
  BY DEF ListsOK
<1>2. \A l : ListOK(l, ls, n, fixed, views) => ListOK(l, ls, k, fixed, views)
  BY <1>1 DEF ListOK
<1>3. \A p : LoopOK(p, ls, n, fixed) => LoopOK(p, ls, k, fixed)
  BY <1>1 DEF LoopOK
<1>4. ListsOK(ls, k, g, fixed, views)
  BY <1>2 DEF ListsOK
<1>5. LoopsOK(fs, ls, k, fixed)
  BY <1>3 DEF LoopsOK
<1> QED
  BY <1>4, <1>5

\* The rules that begin others.
LEMMA BegunKeeps ==
  ASSUME NEW fixed, NEW views, NEW parts, Inv(fixed, views, parts),
         Orderly(game, fixed, views, parts),
         frames # <<>>, Top.pos <= Len(Top.rules),
         NEW f, Begun(f, frames, parts), frames' = Append(Advanced, f),
         lists' = lists, newest' \in Nat, newest <= newest',
         ElementsOK(frames, elements', lists, fixed),
         returned' = returned \/ returned' = Nothing,
         IsLoop(f) => /\ LoopOK(f.loop, lists, newest', fixed)
                      /\ f.loop.own => f.loop.buf = newest + 1,
         game' = game, crashed' = crashed
  PROVE  Inv(fixed, views, parts)'
<1>1. /\ ListsOK(lists, newest, game, fixed, views)
      /\ LoopsOK(frames, lists, newest, fixed)
      /\ ReturnedOK(returned, frames, lists, newest)
      /\ FramesOK(frames, parts) /\ newest \in Nat
  BY DEF Inv, ListsOK
<1>2. /\ FramesOK(frames', parts)
      /\ Len(frames') = Len(frames) + 1 /\ Len(frames) \in Nat
      /\ \A i \in 1..Len(frames) : frames'[i].loop = frames[i].loop
      /\ frames'[Len(frames) + 1] = f
  BY <1>1, BegunFrames DEF Advanced, Top
<1> DEFINE k == newest'
           gs == frames'
           ret == returned'
<1>3. /\ k \in Nat /\ newest <= k
      /\ ret = returned \/ ret = Nothing
      /\ \A l \in DOMAIN lists : lists[l].buf = lists[l].buf \/ lists[l].buf \in (newest + 1)..k
      /\ Len(gs) = Len(frames) + 1 /\ Len(frames) \in Nat
      /\ \A i \in 1..Len(frames) : gs[i].loop = frames[i].loop
      /\ gs[Len(frames) + 1] = f
  BY <1>2
<1>4. /\ IsLoop(f) => LoopOK(f.loop, lists, k, fixed) /\ f.loop.at = 1
      /\ IsLoop(f) /\ f.loop.own =>
            /\ ret.buf # f.loop.buf
            /\ \A i \in 1..Len(frames) : IsLoop(frames[i]) => frames[i].loop.buf # f.loop.buf
  <2>1. IsLoop(f) => LoopOK(f.loop, lists, k, fixed) /\ f.loop.at = 1
    BY DEF Begun
  <2>2. ret.buf # newest + 1
    <3>1. returned.buf \in 0..newest
      BY <1>1 DEF ReturnedOK
    <3>2. returned.buf # newest + 1 /\ 0 # newest + 1
      BY <1>1, <3>1
    <3> QED
      BY <3>2 DEF Nothing, Temporary
  <2>3. \A i \in 1..Len(frames) : IsLoop(frames[i]) => frames[i].loop.buf # newest + 1
    <3>1. \A i \in 1..Len(frames) : IsLoop(frames[i]) => frames[i].loop.buf \in 1..newest
      BY <1>1 DEF LoopsOK, LoopOK
    <3> QED
      BY <1>1, <3>1
  <2> QED
    BY <2>1, <2>2, <2>3
<1>5. ElementsOK(frames, elements', lists, fixed)
  OBVIOUS
<1> HIDE DEF k, gs, ret
<1>6. ListsOK(lists, k, game, fixed, views) /\ LoopsOK(frames, lists, k, fixed)
  BY <1>1, <1>3, MoreBuffers
<1>7. ReturnedOK(ret, frames, lists, k)
  BY ONLY <1>1, <1>3, ReturnedAs
<1> DEFINE els == elements'
<1>8. ElementsOK(frames, els, lists, fixed)
  BY <1>5
<1> HIDE DEF els
<1>9. LoopsOK(gs, lists, k, fixed) /\ ElementsOK(gs, els, lists, fixed)
      /\ ReturnedOK(ret, gs, lists, k)
  <2>1. IsLoop(f) => /\ LoopOK(f.loop, lists, k, fixed) /\ f.loop.at = 1
                     /\ f.loop.own => /\ ret.buf # f.loop.buf
                                      /\ \A i \in 1..Len(frames) :
                                            IsLoop(frames[i]) => frames[i].loop.buf # f.loop.buf
    BY <1>4
  <2>2. /\ Len(gs) = Len(frames) + 1 /\ Len(frames) \in Nat
        /\ \A i \in 1..Len(frames) : gs[i].loop = frames[i].loop
        /\ gs[Len(frames) + 1] = f
    BY <1>3
  <2> QED
    BY ONLY <2>1, <2>2, <1>6, <1>7, <1>8, BegunLoops
<1> QED
  BY <1>2, <1>6, <1>9 DEF Inv, k, gs, ret, els

LEMMA WhenKeeps ==
  ASSUME NEW fixed, NEW views, NEW parts, Inv(fixed, views, parts),
         Orderly(game, fixed, views, parts), When
  PROVE  Inv(fixed, views, parts)'
<1> DEFINE n == Len(frames)
           part == Part(Top.rules, NamesOf(frames, n), GoneOf(frames, n))
           cases == Rule.cases
           true == {i \in 1..Len(cases) : Holds(cases[i].condition)}
           i0 == CHOOSE i \in true : \A j \in true : i <= j
           f == Frame(cases[i0].rules, NoLoop)
<1>1. /\ frames # <<>> /\ Top.pos <= Len(Top.rules)
      /\ \A i \in 1..Len(cases) :
            Part(cases[i].rules, NamesOf(frames, n), GoneOf(frames, n)) \in parts
  <2>1. At("when")
    BY DEF When
  <2>2. /\ frames # <<>> /\ Top.pos <= Len(Top.rules) /\ Rule.rule = "when"
        /\ MayRun(Rule, game, fixed, views, part, parts)
        /\ part.names = NamesOf(frames, n) /\ part.gone = GoneOf(frames, n)
    BY <2>1, RuleThere
  <2> HIDE DEF part
  <2> QED
    BY <2>2 DEF MayRun
<1>2. /\ frames' = (IF true = {} THEN Advanced ELSE Append(Advanced, f))
      /\ returned' = Nothing
      /\ lists' = lists /\ elements' = elements /\ newest' = newest
      /\ game' = game /\ crashed' = crashed
  BY DEF When
<1>3. /\ ListsOK(lists, newest, game, fixed, views)
      /\ newest \in Nat
      /\ ElementsOK(frames, elements', lists, fixed)
  BY <1>2 DEF Inv, ListsOK
<1>4. CASE true = {}
  <2>1. frames' = Advanced
    BY <1>2, <1>4
  <2>2. /\ FramesOK(frames', parts) /\ Len(frames') = Len(frames) /\ Len(frames) \in Nat
        /\ \A i \in 1..Len(frames) : frames'[i].loop = frames[i].loop
    BY <1>1, <2>1, AdvancedFrames DEF Inv, Advanced, Top
  <2>3. ReturnedOK(returned', frames, lists, newest)
    <3>1. /\ ListsOK(lists, newest, game, fixed, views)
          /\ LoopsOK(frames, lists, newest, fixed)
          /\ ReturnedOK(returned, frames, lists, newest)
          /\ newest \in Nat /\ newest <= newest
          /\ \A l \in DOMAIN lists : lists[l].buf = lists[l].buf
                                     \/ lists[l].buf \in (newest + 1)..newest
      BY <1>3 DEF Inv
    <3>2. ReturnedOK(Nothing, frames, lists, newest)
      BY ONLY <3>1, ReturnedAs
    <3> QED
      BY <1>2, <3>2
  <2>4. /\ LoopsOK(frames', lists, newest, fixed)
        /\ ElementsOK(frames', elements', lists, fixed)
        /\ ReturnedOK(returned', frames', lists, newest)
    BY <1>3, <2>2, <2>3, SameLoops DEF Inv
  <2> QED
    BY <1>2, <1>3, <2>2, <2>4 DEF Inv
<1>5. CASE true # {}
  <2>1. i0 \in 1..Len(cases)
    <3>1. true \subseteq Nat
      OBVIOUS
    <3> HIDE DEF true
    <3>2. \E i \in true : \A j \in true : i <= j
      BY <1>5, <3>1, Least
    <3>3. i0 \in true
      BY <3>2
    <3> QED
      BY <3>3 DEF true
  <2>2. frames' = Append(Advanced, f)
    BY <1>2, <1>5
  <2> HIDE DEF i0, true
  <2>3. Part(cases[i0].rules, NamesOf(frames, n), GoneOf(frames, n)) \in parts
    BY <1>1, <2>1
  <2>4. IsSequence(cases[i0].rules)
    BY <2>3 DEF Orderly, IsSequence, Part
  <2>5. f = [rules |-> cases[i0].rules, pos |-> 1, loop |-> NoLoop]
    BY DEF Frame
  <2>6. ~IsLoop(f) /\ f = [rules |-> f.rules, pos |-> f.pos, loop |-> f.loop]
        /\ f.pos = 1 /\ f.rules = cases[i0].rules
    BY <2>5 DEF IsLoop
  <2> HIDE DEF f, cases
  <2>7. Begun(f, frames, parts)
    BY <2>3, <2>4, <2>6 DEF Begun
  <2> QED
    BY <1>1, <1>2, <1>3, <2>2, <2>6, <2>7, BegunKeeps
<1> QED
  BY <1>4, <1>5

LEMMA BeginForEachKeeps ==
  ASSUME NEW fixed, NEW views, NEW parts, Inv(fixed, views, parts),
         Orderly(game, fixed, views, parts), BeginForEach
  PROVE  Inv(fixed, views, parts)'
<1> DEFINE n == Len(frames)
           part == Part(Top.rules, NamesOf(frames, n), GoneOf(frames, n))
           q == Rule.query
           own == IsTemporary(q)
           p == [buf |-> BufferOf(q), items |-> IF own THEN Result(q) ELSE <<>>,
                 own |-> own, query |-> q, element |-> Rule.element,
                 body |-> Rule.rules, at |-> 1, visited |-> <<>>, had |-> Result(q)]
           f == [rules |-> <<>>, pos |-> 1, loop |-> p]
<1>1. /\ frames # <<>> /\ Top.pos <= Len(Top.rules)
      /\ part.names = NamesOf(frames, n)
      /\ Rule.element \notin NamesOf(frames, n)
      /\ MayQuery(q, game, fixed, views, part)
      /\ Part(Rule.rules, NamesOf(frames, n) \cup {Rule.element},
              GoneOf(frames, n) \cup GoneOver(q)) \in parts
  <2>1. At("foreach")
    BY DEF BeginForEach
  <2>2. /\ frames # <<>> /\ Top.pos <= Len(Top.rules) /\ Rule.rule = "foreach"
        /\ MayRun(Rule, game, fixed, views, part, parts)
        /\ part.names = NamesOf(frames, n) /\ part.gone = GoneOf(frames, n)
    BY <2>1, RuleThere
  <2> HIDE DEF part
  <2> QED
    BY <2>2 DEF MayRun
<1>2. /\ newest \in Nat /\ DOMAIN lists = DOMAIN game.lists
      /\ \A l \in DOMAIN lists : ListOK(l, lists, newest, fixed, views)
  BY DEF Inv, ListsOK
<1>3. /\ frames' = Append(Advanced, f)
      /\ returned' = returned \/ returned' = Nothing
      /\ newest' = newest + 1 /\ elements' = ElementsAfter(q)
      /\ lists' = lists /\ game' = game /\ crashed' = crashed
  BY DEF BeginForEach, Frame, NeedsToBeSaved
<1>4. /\ IsSequence(Result(q))
      /\ \A i \in 1..Len(Result(q)) : ItemOK(Result(q)[i], lists, fixed)
  <2> HIDE DEF part, q
  <2> QED
    BY <1>1, ResultOK
<1>5. ElementsOK(frames, elements', lists, fixed)
  <2> HIDE DEF part, q
  <2> QED
    BY <1>1, <1>3, StillElements
<1>6. ~own => /\ q.of \in DOMAIN lists /\ Result(q) = lists[q.of].items
              /\ BufferOf(q) = lists[q.of].buf
  BY <1>1, <1>2 DEF MayQuery, IsTemporary, Result, BufferOf
<1>7. own => BufferOf(q) = newest + 1
  BY DEF BufferOf
<1>8. own \in BOOLEAN
  BY DEF IsTemporary
<1> DEFINE r == Result(q)
           b == BufferOf(q)
<1>9. GoneOver(q) = IF own THEN {} ELSE {q.of}
  BY DEF GoneOver
<1>10. IsLoop(f)
  <2>1. p # NoLoop
    <3>1. b # 0
      <4>1. ~own => b \in 1..newest
        BY <1>2, <1>6 DEF ListOK
      <4>2. CASE own
        BY <1>2, <1>7, <4>2
      <4>3. CASE ~own
        BY <1>2, <4>1, <4>3
      <4> QED
        BY <4>2, <4>3
    <3>2. p.buf = b /\ NoLoop.buf = 0
      BY DEF NoLoop
    <3> HIDE DEF p, b
    <3> QED
      BY <3>1, <3>2
  <2> HIDE DEF p
  <2> QED
    BY <2>1 DEF IsLoop
<1> HIDE DEF r, b, own, q
<1>11. /\ p.buf = b /\ p.items = (IF own THEN r ELSE <<>>) /\ p.own = own /\ p.query = q
       /\ p.element = Rule.element /\ p.body = Rule.rules /\ p.at = 1 /\ p.visited = <<>>
       /\ p.had = r
       /\ p = [buf |-> p.buf, items |-> p.items, own |-> p.own, query |-> p.query,
               element |-> p.element, body |-> p.body, at |-> p.at,
               visited |-> p.visited, had |-> p.had]
  BY DEF r, b
<1> HIDE DEF p
<1>12. /\ f.loop = p /\ f.rules = <<>> /\ f.pos = 1
       /\ f = [rules |-> f.rules, pos |-> f.pos, loop |-> f.loop]
  OBVIOUS
<1> HIDE DEF f
<1>13. LoopOK(p, lists, newest', fixed)
  <2>1. p.buf \in 1..newest'
    <3>1. CASE own
      BY <1>2, <1>3, <1>7, <1>11, <3>1 DEF b
    <3>2. CASE ~own
      <4>1. b \in 1..newest
        BY <1>2, <1>6, <3>2 DEF ListOK, b
      <4> QED
        BY <1>2, <1>3, <1>11, <4>1
    <3> QED
      BY <3>1, <3>2
  <2>2. IsSequence(p.had) /\ Len(p.had) \in Nat
    BY <1>4, <1>11, AnySequence DEF r
  <2>3. p.at \in 1..(Len(p.had) + 1)
    BY <1>11, <2>2
  <2>4. p.visited = SubSeq(p.had, 1, p.at - 1)
    <3>1. p.at - 1 = 0 /\ 0 \in 0..Len(p.had)
      BY <1>11, <2>2
    <3>2. IsSequence(SubSeq(p.had, 1, 0)) /\ Len(SubSeq(p.had, 1, 0)) = 0
      BY <2>2, <3>1, CutSequence
    <3>3. SubSeq(p.had, 1, 0) = <<>>
      BY <3>2, EmptySequence
    <3> QED
      BY <1>11, <3>1, <3>3
  <2>5. \A i \in 1..Len(p.had) : ItemOK(p.had[i], lists, fixed)
    BY <1>4, <1>11 DEF r
  <2>6. IF p.own THEN p.items = p.had /\ \A l \in DOMAIN lists : p.buf # lists[l].buf
        ELSE /\ p.items = <<>>
             /\ p.query.of \in DOMAIN lists
             /\ p.buf = lists[p.query.of].buf /\ p.had = lists[p.query.of].items
    <3>1. CASE own
      <4>1. \A l \in DOMAIN lists : lists[l].buf \in 1..newest
        BY <1>2 DEF ListOK
      <4>2. \A l \in DOMAIN lists : lists[l].buf # newest + 1
        BY <1>2, <4>1
      <4> QED
        BY <1>7, <1>11, <3>1, <4>2 DEF b
    <3>2. CASE ~own
      BY <1>6, <1>11, <3>2 DEF r, b
    <3> QED
      BY <3>1, <3>2
  <2>7. p.own \in BOOLEAN /\ p.own = IsTemporary(p.query)
    BY <1>8, <1>11 DEF own
  <2> QED
    BY <1>11, <2>1, <2>2, <2>3, <2>4, <2>5, <2>6, <2>7 DEF LoopOK
<1>14. Begun(f, frames, parts)
  <2>1. Part(p.body, NamesOf(frames, n) \cup {p.element},
             GoneOf(frames, n) \cup (IF p.own THEN {} ELSE {p.query.of})) \in parts
    BY <1>1, <1>9, <1>11
  <2>2. p.element \notin NamesOf(frames, n) /\ p.at = 1
    BY <1>1, <1>11
  <2> QED
    BY <1>10, <1>12, <2>1, <2>2, NoSequence DEF Begun
<1>15. IsLoop(f) => /\ LoopOK(f.loop, lists, newest', fixed)
                    /\ f.loop.own => f.loop.buf = newest + 1
  BY <1>7, <1>11, <1>12, <1>13 DEF b
<1>16. newest' \in Nat /\ newest <= newest'
  BY <1>2, <1>3
<1> QED
  BY <1>1, <1>3, <1>5, <1>14, <1>15, <1>16, BegunKeeps

\* What the iterator of a foreach goes over is what its list had.
LEMMA ElementsHad ==
  ASSUME NEW p, NEW fixed, LoopOK(p, lists, newest, fixed)
  PROVE  Elements(p).buf = p.buf /\ Elements(p).items = p.had
  BY DEF LoopOK, Elements, Temporary

LEMMA VisitedLoop ==
  ASSUME NEW p,
         p = [buf |-> p.buf, items |-> p.items, own |-> p.own, query |-> p.query,
              element |-> p.element, body |-> p.body, at |-> p.at,
              visited |-> p.visited, had |-> p.had],
         NEW a, NEW v
  PROVE  [p EXCEPT !.at = a, !.visited = v]
         = [buf |-> p.buf, items |-> p.items, own |-> p.own, query |-> p.query,
            element |-> p.element, body |-> p.body, at |-> a, visited |-> v, had |-> p.had]
<1> DEFINE p1 == p.buf
           p2 == p.items
           p3 == p.own
           p4 == p.query
           p5 == p.element
           p6 == p.body
           p7 == p.at
           p8 == p.visited
           p9 == p.had
           r == [buf |-> p1, items |-> p2, own |-> p3, query |-> p4, element |-> p5,
                 body |-> p6, at |-> p7, visited |-> p8, had |-> p9]
<1>1. p = r
  OBVIOUS
<1> HIDE DEF p1, p2, p3, p4, p5, p6, p7, p8, p9
<1>2. [r EXCEPT !.at = a, !.visited = v]
      = [buf |-> p1, items |-> p2, own |-> p3, query |-> p4, element |-> p5,
         body |-> p6, at |-> a, visited |-> v, had |-> p9]
  <2>1. [r EXCEPT !.at = a]
        = [buf |-> p1, items |-> p2, own |-> p3, query |-> p4, element |-> p5,
           body |-> p6, at |-> a, visited |-> p8, had |-> p9]
    OBVIOUS
  <2>2. [[buf |-> p1, items |-> p2, own |-> p3, query |-> p4, element |-> p5,
          body |-> p6, at |-> a, visited |-> p8, had |-> p9] EXCEPT !.visited = v]
        = [buf |-> p1, items |-> p2, own |-> p3, query |-> p4, element |-> p5,
           body |-> p6, at |-> a, visited |-> v, had |-> p9]
    OBVIOUS
  <2>3. [r EXCEPT !.at = a, !.visited = v] = [[r EXCEPT !.at = a] EXCEPT !.visited = v]
    <3> HIDE DEF r
    <3> QED
      OBVIOUS
  <2> QED
    BY <2>1, <2>2, <2>3
<1> HIDE DEF r
<1>3. [p EXCEPT !.at = a, !.visited = v]
      = [buf |-> p1, items |-> p2, own |-> p3, query |-> p4, element |-> p5,
         body |-> p6, at |-> a, visited |-> v, had |-> p9]
  BY <1>1, <1>2
<1> QED
  BY <1>3 DEF p1, p2, p3, p4, p5, p6, p9

LEMMA VisitKeeps ==
  ASSUME NEW fixed, NEW views, NEW parts, Inv(fixed, views, parts),
         Orderly(game, fixed, views, parts), Visit
  PROVE  Inv(fixed, views, parts)'
<1> DEFINE n == Len(frames)
           p == Top.loop
           k == p.at
           q == [p EXCEPT !.at = k + 1, !.visited = Append(@, p.had[k])]
           f == [rules |-> p.body, pos |-> 1, loop |-> q]
           x == getReference(p.had[k], p.buf, k)
<1>1. /\ frames # <<>> /\ IsLoop(frames[n]) /\ frames[n].loop = p /\ p = Top.loop
  BY DEF Visit, Looping, IsLoop, Top
<1>2. /\ IsSequence(frames) /\ n \in Nat \ {0} /\ n \in 1..Len(frames)
      /\ \A i \in 1..n : FrameOK(frames, i, parts)
  BY <1>1, AnySequence, EmptySequence DEF Inv, FramesOK
<1>3. /\ LoopOK(p, lists, newest, fixed) /\ FrameOK(frames, n, parts)
  BY <1>1, <1>2 DEF Inv, LoopsOK
<1>4. Elements(p).buf = p.buf /\ Elements(p).items = p.had
  BY <1>3, ElementsHad
<1>5. /\ IsSequence(p.had) /\ Len(p.had) \in Nat /\ p.at \in 1..(Len(p.had) + 1)
      /\ p = [buf |-> p.buf, items |-> p.items, own |-> p.own, query |-> p.query,
              element |-> p.element, body |-> p.body, at |-> p.at,
              visited |-> p.visited, had |-> p.had]
      /\ p.visited = SubSeq(p.had, 1, p.at - 1)
      /\ \A i \in 1..Len(p.had) : ItemOK(p.had[i], lists, fixed)
  BY <1>3, AnySequence DEF LoopOK
<1>6. k \in 1..Len(p.had)
  <2>1. k # Len(p.had) + 1
    BY <1>4 DEF Visit
  <2> QED
    BY <1>5, <2>1
<1>7. /\ elements' = Bound(p.element, x)
      /\ frames' = [frames EXCEPT ![n] = f]
      /\ lists' = lists /\ returned' = returned /\ newest' = newest /\ game' = game
      /\ crashed' = crashed
  <2>1. k <= Len(p.had)
    BY <1>5, <1>6
  <2> QED
    BY <1>4, <2>1 DEF Visit, Frame, NextAt
<1>8. /\ q = [buf |-> p.buf, items |-> p.items, own |-> p.own, query |-> p.query,
              element |-> p.element, body |-> p.body, at |-> k + 1,
              visited |-> Append(p.visited, p.had[k]), had |-> p.had]
  <2> DEFINE v == Append(p.visited, p.had[k])
             a == k + 1
  <2>1. p.visited = [p EXCEPT !.at = a].visited
    BY <1>5
  <2>2. q = [p EXCEPT !.at = a, !.visited = v]
    BY <2>1
  <2> HIDE DEF p, q, a, v
  <2>3. q = [buf |-> p.buf, items |-> p.items, own |-> p.own, query |-> p.query,
              element |-> p.element, body |-> p.body, at |-> a,
              visited |-> v, had |-> p.had]
    BY <1>5, <2>2, VisitedLoop
  <2> QED
    BY <2>3 DEF a, v
<1> HIDE DEF p, q
<1>9. /\ q.buf = p.buf /\ q.items = p.items /\ q.own = p.own /\ q.query = p.query
      /\ q.element = p.element /\ q.body = p.body /\ q.at = k + 1
      /\ q.visited = Append(p.visited, p.had[k]) /\ q.had = p.had
      /\ q = [buf |-> q.buf, items |-> q.items, own |-> q.own, query |-> q.query,
              element |-> q.element, body |-> q.body, at |-> q.at,
              visited |-> q.visited, had |-> q.had]
  BY <1>8
<1>10. q.visited = SubSeq(q.had, 1, q.at - 1)
  <2>1. Append(SubSeq(p.had, 1, k - 1), p.had[k]) = SubSeq(p.had, 1, k)
    BY <1>5, <1>6, PartOfSequence
  <2>2. q.at - 1 = k
    BY <1>5, <1>6, <1>9
  <2> QED
    BY <1>5, <1>9, <2>1, <2>2
<1>11. q.at \in 1..(Len(q.had) + 1) /\ q.at # 1
  BY <1>5, <1>6, <1>9
<1>12. LoopOK(q, lists, newest, fixed)
  <2> HIDE DEF k
  <2> QED
    BY <1>3, <1>9, <1>10, <1>11 DEF LoopOK
<1>13. IsLoop(f) /\ f.loop = q /\ f.rules = p.body /\ f.pos = 1
       /\ f = [rules |-> f.rules, pos |-> f.pos, loop |-> f.loop]
  <2>1. q # NoLoop
    <3>1. q.buf \in 1..newest /\ newest \in Nat
      BY <1>12 DEF LoopOK, Inv, ListsOK
    <3>2. q.buf # 0 /\ NoLoop.buf = 0
      BY <3>1 DEF NoLoop
    <3> QED
      BY <3>2
  <2> QED
    BY <2>1 DEF IsLoop
<1> HIDE DEF f, k
<1> DEFINE gs == [frames EXCEPT ![n] = f]
<1>14. /\ IsSequence(gs) /\ Len(gs) = n /\ gs[n] = f
       /\ \A i \in 1..n : i # n => gs[i] = frames[i]
  <2> HIDE DEF n
  <2>1. IsSequence(frames) /\ n \in 1..Len(frames)
    BY <1>2
  <2> QED
    BY <2>1, ChangedSequence DEF n
<1> HIDE DEF gs
<1>15. \A i \in 1..n : /\ IsLoop(gs[i]) = IsLoop(frames[i])
                       /\ gs[i].loop.element = frames[i].loop.element
                       /\ gs[i].loop.own = frames[i].loop.own
                       /\ gs[i].loop.query = frames[i].loop.query
                       /\ gs[i].loop.buf = frames[i].loop.buf
  <2> SUFFICES ASSUME NEW i \in 1..n
               PROVE  /\ IsLoop(gs[i]) = IsLoop(frames[i])
                      /\ gs[i].loop.element = frames[i].loop.element
                      /\ gs[i].loop.own = frames[i].loop.own
                      /\ gs[i].loop.query = frames[i].loop.query
                      /\ gs[i].loop.buf = frames[i].loop.buf
    OBVIOUS
  <2>1. CASE i # n
    BY <1>14, <2>1
  <2>2. CASE i = n
    <3>1. gs[i] = f /\ frames[i].loop = p
      BY <1>1, <1>14, <2>2
    <3>2. IsLoop(frames[i]) /\ IsLoop(gs[i])
      BY <1>1, <1>13, <2>2, <3>1
    <3> QED
      BY <1>9, <1>13, <3>1, <3>2
  <2> QED
    BY <2>1, <2>2
<1>16. \A i \in 0..n : NamesOf(gs, i) = NamesOf(frames, i) /\ GoneOf(gs, i) = GoneOf(frames, i)
  <2> SUFFICES ASSUME NEW i \in 0..n
               PROVE  NamesOf(gs, i) = NamesOf(frames, i) /\ GoneOf(gs, i) = GoneOf(frames, i)
    OBVIOUS
  <2>0. \A j \in 1..i : j \in 1..n
    BY <1>2
  <2>1. {j \in 1..i : IsLoop(gs[j])} = {j \in 1..i : IsLoop(frames[j])}
    BY <1>15, <2>0
  <2>2. {j \in 1..i : IsLoop(gs[j]) /\ ~gs[j].loop.own}
        = {j \in 1..i : IsLoop(frames[j]) /\ ~frames[j].loop.own}
    BY <1>15, <2>0
  <2>3. NamesOf(gs, i) = NamesOf(frames, i)
    BY <1>15, <2>0, <2>1 DEF NamesOf
  <2>4. GoneOf(gs, i) = GoneOf(frames, i)
    BY <1>15, <2>0, <2>2 DEF GoneOf
  <2> QED
    BY <2>3, <2>4
<1>17. ASSUME NEW i \in 1..n
       PROVE  FrameOK(gs, i, parts)
  <2>0. FrameOK(frames, i, parts) /\ i \in 0..n /\ i - 1 \in 0..n
    BY <1>2
  <2>1. /\ NamesOf(gs, i) = NamesOf(frames, i) /\ GoneOf(gs, i) = GoneOf(frames, i)
        /\ NamesOf(gs, i - 1) = NamesOf(frames, i - 1)
    BY <1>16, <2>0
  <2>2. CASE i # n
    <3>1. gs[i] = frames[i]
      BY <1>14, <2>2
    <3>2. IsLoop(frames[i]) => frames[i].loop.at # 1
      BY <2>0, <2>2 DEF FrameOK
    <3> QED
      BY <2>0, <2>1, <3>1, <3>2 DEF FrameOK
  <2>3. CASE i = n
    <3>1. /\ Part(p.body, NamesOf(frames, i), GoneOf(frames, i)) \in parts
          /\ p.element \notin NamesOf(frames, i - 1)
      BY <1>1, <1>3, <2>3 DEF FrameOK
    <3>2. IsSequence(p.body)
      BY <3>1 DEF Orderly, IsSequence, Part
    <3>3. f.pos \in 1..(Len(f.rules) + 1)
      <4>1. Len(p.body) \in Nat
        BY <3>2, AnySequence
      <4> QED
        BY <1>13, <4>1
    <3>4. gs[i] = f
      BY <1>14, <2>3
    <3> QED
      BY <1>9, <1>11, <1>13, <2>1, <3>1, <3>2, <3>3, <3>4 DEF FrameOK
  <2> QED
    BY <2>2, <2>3
<1>18. FramesOK(gs, parts)
  BY <1>14, <1>17 DEF FramesOK
<1>19. LoopsOK(gs, lists, newest, fixed)
  <2>1. LoopsOK(frames, lists, newest, fixed)
    BY DEF Inv
  <2>2. \A i \in 1..n : IsLoop(gs[i]) => LoopOK(gs[i].loop, lists, newest, fixed)
    BY <1>12, <1>13, <1>14, <2>1 DEF LoopsOK
  <2>3. \A i, j \in 1..n :
          IsLoop(gs[i]) /\ gs[i].loop.own /\ IsLoop(gs[j]) /\ gs[j].loop.own
          /\ gs[i].loop.buf = gs[j].loop.buf => i = j
    BY <1>15, <2>1 DEF LoopsOK
  <2> QED
    BY <1>14, <2>2, <2>3 DEF LoopsOK
<1>20. ReturnedOK(returned, gs, lists, newest)
  BY <1>14, <1>15 DEF Inv, ReturnedOK
<1>21. ElementsOK(gs, elements', lists, fixed)
  <2>1. DOMAIN elements' = DOMAIN elements \cup {p.element} /\ elements'[p.element] = x
        /\ \A e \in DOMAIN elements : e # p.element => elements'[e] = elements[e]
    BY <1>7 DEF Bound
  <2>2. ElementOK(x, q, lists, fixed)
    <3>1. ItemOK(p.had[k], lists, fixed)
      BY <1>5, <1>6
    <3>2. CASE p.had[k].is = "value"
      <4>1. x = Pointer(p.buf, k)
        BY <3>2 DEF getReference
      <4> QED
        BY <1>6, <1>9, <3>2, <4>1 DEF ElementOK, Pointer
    <3>3. CASE Aims(p.had[k], lists, fixed)
      BY <3>3 DEF ElementOK, Aims, getReference
    <3> QED
      BY <3>1, <3>2, <3>3 DEF ItemOK
  <2>3. ASSUME NEW i \in 1..n, i # n, IsLoop(gs[i])
        PROVE  /\ gs[i].loop.element \in DOMAIN elements'
               /\ ElementOK(elements'[gs[i].loop.element], gs[i].loop, lists, fixed)
    <3>1. gs[i] = frames[i] /\ IsLoop(frames[i])
      BY <1>14, <2>3
    <3>2. frames[i].loop.at # 1
      BY <1>2, <2>3, <3>1 DEF FrameOK
    <3>3. /\ frames[i].loop.element \in DOMAIN elements
          /\ ElementOK(elements[frames[i].loop.element], frames[i].loop, lists, fixed)
      BY <3>1, <3>2 DEF Inv, ElementsOK
    <3>4. frames[i].loop.element # p.element
      <4>1. i \in 1..(n - 1)
        BY <1>2, <2>3
      <4>2. frames[i].loop.element \in NamesOf(frames, n - 1)
        BY <3>1, <4>1 DEF NamesOf
      <4> QED
        BY <1>1, <1>3, <4>2 DEF FrameOK
    <3> QED
      BY <2>1, <3>1, <3>3, <3>4
  <2>4. /\ gs[n].loop.element \in DOMAIN elements'
        /\ ElementOK(elements'[gs[n].loop.element], gs[n].loop, lists, fixed)
    BY <1>9, <1>13, <1>14, <2>1, <2>2
  <2> QED
    BY <1>14, <2>3, <2>4 DEF ElementsOK
<1> QED
  BY <1>7, <1>18, <1>19, <1>20, <1>21 DEF Inv, gs

LEMMA EndRulesKeeps ==
  ASSUME NEW fixed, NEW views, NEW parts, Inv(fixed, views, parts), EndRules
  PROVE  Inv(fixed, views, parts)'
<1> DEFINE gs == Front(frames)
           n == Len(frames)
           m == Len(frames) - 1
<1>1. IsSequence(frames) /\ frames # <<>> /\ n \in Nat \ {0}
      /\ \A i \in 1..n : FrameOK(frames, i, parts)
  BY AnySequence, EmptySequence DEF Inv, FramesOK, EndRules
<1>2. /\ IsSequence(gs) /\ Len(gs) = m
      /\ \A i \in 1..m : gs[i] = frames[i]
  BY <1>1, ShorterSequence
<1>3. /\ frames' = gs /\ lists' = lists /\ returned' = returned /\ elements' = elements
      /\ newest' = newest /\ game' = game /\ crashed' = crashed
  BY DEF EndRules
<1> HIDE DEF gs
<1>4. m \in Nat /\ \A i \in 1..m : i \in 1..n /\ i # n
  BY <1>1
<1>5. \A i \in 0..m : NamesOf(gs, i) = NamesOf(frames, i) /\ GoneOf(gs, i) = GoneOf(frames, i)
  <2> SUFFICES ASSUME NEW i \in 0..m
               PROVE  NamesOf(gs, i) = NamesOf(frames, i) /\ GoneOf(gs, i) = GoneOf(frames, i)
    OBVIOUS
  <2>1. i \in Nat /\ \A j \in 1..i : gs[j].loop = frames[j].loop
    BY <1>2, <1>4
  <2> QED
    BY <2>1, SameNames
<1>6. ASSUME NEW i \in 1..m
      PROVE  FrameOK(gs, i, parts)
  <2>1. gs[i] = frames[i] /\ FrameOK(frames, i, parts) /\ i # n
    BY <1>1, <1>2, <1>4
  <2>2. /\ NamesOf(gs, i) = NamesOf(frames, i) /\ GoneOf(gs, i) = GoneOf(frames, i)
        /\ NamesOf(gs, i - 1) = NamesOf(frames, i - 1)
    <3>1. i \in 0..m /\ i - 1 \in 0..m
      BY <1>4
    <3> QED
      BY <1>5, <3>1
  <2>3. IsLoop(frames[i]) => frames[i].loop.at # 1
    BY <2>1 DEF FrameOK
  <2> QED
    BY <2>1, <2>2, <2>3 DEF FrameOK
<1> HIDE DEF m, n
<1>7. FramesOK(gs, parts)
  BY <1>2, <1>6 DEF FramesOK
<1>8. LoopsOK(gs, lists, newest, fixed)
  BY <1>2, <1>4 DEF Inv, LoopsOK, n
<1>9. ElementsOK(gs, elements, lists, fixed)
  BY <1>2, <1>4 DEF Inv, ElementsOK, n
<1>10. ReturnedOK(returned, gs, lists, newest)
  BY <1>2, <1>4 DEF Inv, ReturnedOK, n
<1> QED
  BY <1>3, <1>7, <1>8, <1>9, <1>10 DEF Inv

-----------------------------------------------------------------------------
(* The theorems *)

\* Every game that is played is orderly.
AllOrderly == \A g \in Games : \E fixed, views, parts : Orderly(g, fixed, views, parts)

\* What is always true of an orderly game.
OrderlyInv ==
    \E fixed, views, parts : Orderly(game, fixed, views, parts) /\ Inv(fixed, views, parts)

LEMMA InitInv ==
  ASSUME Init, NEW fixed, NEW views, NEW parts, Orderly(game, fixed, views, parts)
  PROVE  Inv(fixed, views, parts)
<1>1. /\ game \in Games /\ lists = game.lists /\ returned = Nothing
      /\ frames = <<Frame(game.rules, NoLoop)>>
      /\ newest = Cardinality(DOMAIN game.lists) /\ crashed = FALSE
  BY DEF Init
<1>2. newest \in Nat
  BY <1>1, GamesAssumption, FS_CardinalityType
<1>3. /\ lists = [l \in DOMAIN lists |->
                    [buf |-> lists[l].buf, cap |-> lists[l].cap, items |-> lists[l].items]]
      /\ \A l \in DOMAIN lists : IsSequence(lists[l].items)
  BY <1>1, GamesAssumption DEF IsSequence
<1>4. ListsOK(lists, newest, game, fixed, views)
  <2>1. \A l, m \in DOMAIN lists : lists[l].buf = lists[m].buf => l = m
    BY <1>1 DEF Orderly
  <2>2. ASSUME NEW l \in DOMAIN lists
        PROVE  ListOK(l, lists, newest, fixed, views)
    <3>1. /\ lists[l].buf \in 1..newest
          /\ \A i \in 1..Len(lists[l].items) : lists[l].items[i].is = "value"
          /\ l \in views => lists[l].items = <<>>
      BY <1>1 DEF Orderly
    <3>2. l \in views => \A i \in 1..Len(lists[l].items) : FALSE
      BY <3>1, NoSequence
    <3>3. lists[l] = [buf |-> lists[l].buf, cap |-> lists[l].cap, items |-> lists[l].items]
      BY <1>3
    <3> QED
      BY <1>3, <3>1, <3>2, <3>3 DEF ListOK, ItemOK
  <2>3. lists = [l \in DOMAIN game.lists |-> lists[l]]
    <3> DEFINE h == [l \in DOMAIN lists |->
                    [buf |-> lists[l].buf, cap |-> lists[l].cap, items |-> lists[l].items]]
    <3>1. h = [l \in DOMAIN h |-> h[l]] /\ lists = h
      BY <1>3
    <3> HIDE DEF h
    <3> QED
      BY <1>1, <3>1
  <2> QED
    BY <1>1, <1>2, <2>1, <2>2, <2>3 DEF ListsOK
<1> DEFINE f == [rules |-> game.rules, pos |-> 1, loop |-> NoLoop]
<1>5. frames = <<f>> /\ ~IsLoop(f) /\ f.rules = game.rules /\ f.pos = 1
      /\ f = [rules |-> f.rules, pos |-> f.pos, loop |-> f.loop]
  BY <1>1 DEF Frame, IsLoop
<1> HIDE DEF f
<1>6. IsSequence(frames) /\ Len(frames) = 1 /\ frames[1] = f
  <2>1. <<f>> \in Seq({f}) /\ Len(<<f>>) = 1 /\ <<f>>[1] = f
    OBVIOUS
  <2> QED
    BY <1>5, <2>1, WiderSequence
<1>7. \A i \in 1..Len(frames) : i = 1 /\ ~IsLoop(frames[i])
  BY <1>5, <1>6
<1>8. FramesOK(frames, parts)
  <2>1. NamesOf(frames, 1) = {} /\ GoneOf(frames, 1) = {}
    BY <1>6, <1>7 DEF NamesOf, GoneOf
  <2>2. Part(game.rules, {}, {}) \in parts
    BY DEF Orderly
  <2>3. IsSequence(game.rules)
    BY <2>2 DEF Orderly, IsSequence, Part
  <2>4. f.pos \in 1..(Len(f.rules) + 1)
    <3>1. Len(game.rules) \in Nat
      BY <2>3, AnySequence
    <3> QED
      BY <1>5, <3>1
  <2>5. FrameOK(frames, 1, parts)
    BY <1>5, <1>6, <2>1, <2>2, <2>3, <2>4 DEF FrameOK
  <2> QED
    BY <1>6, <1>7, <2>5 DEF FramesOK
<1>9. LoopsOK(frames, lists, newest, fixed) /\ ElementsOK(frames, elements, lists, fixed)
  BY <1>7 DEF LoopsOK, ElementsOK
<1>10. ReturnedOK(returned, frames, lists, newest)
  <2>1. returned.buf = 0
    BY <1>1 DEF Nothing, Temporary
  <2>2. \A l \in DOMAIN lists : lists[l].buf \in 1..newest
    BY <1>1 DEF Orderly
  <2>3. \A l \in DOMAIN lists : lists[l].buf # 0
    BY <1>2, <2>2
  <2> QED
    BY <1>2, <1>7, <2>1, <2>3 DEF ReturnedOK
<1> QED
  BY <1>1, <1>4, <1>8, <1>9, <1>10 DEF Inv

LEMMA NextInv ==
  ASSUME NEW fixed, NEW views, NEW parts, Inv(fixed, views, parts),
         Orderly(game, fixed, views, parts), [Next]_vars
  PROVE  Inv(fixed, views, parts)'
<1>1. CASE Extend
  BY <1>1, ExtendKeeps
<1>2. CASE Discard
  BY <1>2, DiscardKeeps
<1>3. CASE Deal
  BY <1>3, DealKeeps
<1>4. CASE ReverseList \/ Shuffle \/ Sort
  BY <1>4, RearrangeKeeps
<1>5. CASE Add
  BY <1>5, AddKeeps
<1>6. CASE When
  BY <1>6, WhenKeeps
<1>7. CASE Choose
  BY <1>7, ChooseKeeps
<1>8. CASE BeginForEach
  BY <1>8, BeginForEachKeeps
<1>9. CASE Visit
  BY <1>9, VisitKeeps
<1>10. CASE EndRules
  BY <1>10, EndRulesKeeps
<1>11. CASE UNCHANGED vars
  BY <1>11 DEF vars, Inv
<1>12. CASE Done
  BY <1>11, <1>12 DEF Done
<1> QED
  BY <1>1, <1>2, <1>3, <1>4, <1>5, <1>6, <1>7, <1>8, <1>9, <1>10, <1>11, <1>12 DEF Next

LEMMA SameGame == [Next]_vars => game' = game
  BY RearrangedByRules DEF Next, vars, Extend, Discard, Deal, Rearranged, Add, When, Choose,
     BeginForEach, Visit, EndRules, Done

THEOREM OrderlyAlways ==
  ASSUME AllOrderly
  PROVE  Spec => []OrderlyInv
<1>1. Init => OrderlyInv
  <2> SUFFICES ASSUME Init PROVE OrderlyInv
    OBVIOUS
  <2>1. PICK fixed, views, parts : Orderly(game, fixed, views, parts)
    BY DEF AllOrderly, Init
  <2> QED
    BY <2>1, InitInv DEF OrderlyInv
<1>2. OrderlyInv /\ [Next]_vars => OrderlyInv'
  <2> SUFFICES ASSUME OrderlyInv, [Next]_vars PROVE OrderlyInv'
    OBVIOUS
  <2>1. PICK fixed, views, parts :
           Orderly(game, fixed, views, parts) /\ Inv(fixed, views, parts)
    BY DEF OrderlyInv
  <2>2. Orderly(game, fixed, views, parts)'
    BY <2>1, SameGame
  <2>3. Inv(fixed, views, parts)'
    BY <2>1, NextInv
  <2> QED
    BY <2>2, <2>3 DEF OrderlyInv
<1> QED
  BY <1>1, <1>2, PTL DEF Spec

\* Nothing is used that is gone, and whatever can be reached is there: in every
\* orderly game, a list that grows, is cut off or rearranged leaves no address
\* behind that leads nowhere.
THEOREM AddressesStayLive ==
  ASSUME AllOrderly
  PROVE  Spec => []AddressesLive
<1>1. OrderlyInv => AddressesLive
  BY InvAddresses DEF OrderlyInv
<1> QED
  BY <1>1, OrderlyAlways, PTL

LEMMA FramesStay ==
  ASSUME NEW fixed, NEW views, NEW parts, Inv(fixed, views, parts), [Next]_vars, ~EndRules
  PROVE  Len(frames') \in Nat /\ Len(frames') >= Len(frames)
<1>1. IsSequence(frames) /\ Len(frames) \in Nat /\ (frames # <<>> => Len(frames) \in 1..Len(frames))
  BY AnySequence, EmptySequence DEF Inv, FramesOK
<1>2. ASSUME NEW x, frames # <<>>
      PROVE  LET fs == [frames EXCEPT ![Len(frames)] = x] IN
             IsSequence(fs) /\ Len(fs) = Len(frames)
  BY <1>1, <1>2, ChangedSequence
<1>3. frames # <<>> => IsSequence(Advanced) /\ Len(Advanced) = Len(frames)
  <2> SUFFICES ASSUME frames # <<>> PROVE IsSequence(Advanced) /\ Len(Advanced) = Len(frames)
    OBVIOUS
  <2> DEFINE x == [frames[Len(frames)] EXCEPT !.pos = @ + 1]
  <2>1. Advanced = [frames EXCEPT ![Len(frames)] = x]
    BY DEF Advanced
  <2> HIDE DEF x
  <2> QED
    BY <1>2, <2>1
<1>4. CASE frames' = frames
  BY <1>1, <1>4
<1>5. CASE frames' = Advanced /\ frames # <<>>
  BY <1>1, <1>3, <1>5
<1>6. CASE frames # <<>> /\ \E f : frames' = Append(Advanced, f)
  BY <1>1, <1>3, <1>6, LongerSequence
<1>7. CASE frames # <<>> /\ \E x : frames' = [frames EXCEPT ![Len(frames)] = x]
  BY <1>1, <1>2, <1>7
<1>8. \/ frames' = frames
      \/ frames' = Advanced /\ frames # <<>>
      \/ frames # <<>> /\ \E f : frames' = Append(Advanced, f)
      \/ frames # <<>> /\ \E x : frames' = [frames EXCEPT ![Len(frames)] = x]
  <2>1. CASE Extend \/ Discard \/ Deal \/ Add \/ Choose
    BY <2>1 DEF Extend, Discard, Deal, Add, Choose, Advance, At
  <2>2. CASE ReverseList \/ Shuffle \/ Sort
    BY <2>2, RearrangedByRules DEF Rearranged, Advance, At, ReverseList, Shuffle, Sort
  <2>3. CASE When
    BY <2>3 DEF When, At
  <2>4. CASE BeginForEach
    BY <2>4 DEF BeginForEach, At
  <2>5. CASE Visit
    BY <2>5 DEF Visit, Looping
  <2>6. CASE UNCHANGED vars
    BY <2>6 DEF vars
  <2>7. CASE Done
    BY <2>6, <2>7 DEF Done
  <2> QED
    BY <2>1, <2>2, <2>3, <2>4, <2>5, <2>6, <2>7 DEF Next
<1> QED
  BY <1>4, <1>5, <1>6, <1>7, <1>8

\* A foreach that ends has visited the elements its list had when it began, each
\* once and in order.
THEOREM EachIsVisited ==
  ASSUME AllOrderly
  PROVE  Spec => EachVisited
<1> DEFINE A == \A i \in 1..Len(frames) : Len(frames') < i /\ frames[i].loop # NoLoop =>
                   frames[i].loop.visited = frames[i].loop.had
<1>1. OrderlyInv /\ [Next]_vars => [A]_vars
  <2> SUFFICES ASSUME OrderlyInv, [Next]_vars PROVE A
    OBVIOUS
  <2>1. PICK fixed, views, parts : Inv(fixed, views, parts)
    BY DEF OrderlyInv
  <2>2. IsSequence(frames) /\ Len(frames) \in Nat
    BY <2>1, AnySequence DEF Inv, FramesOK
  <2>3. CASE ~EndRules
    <3>1. Len(frames') \in Nat /\ Len(frames') >= Len(frames)
      BY <2>1, <2>3, FramesStay
    <3> QED
      BY <2>2, <3>1
  <2>4. CASE EndRules
    <3>1. frames # <<>> /\ frames' = Front(frames)
      BY <2>4 DEF EndRules
    <3>2. Len(frames') = Len(frames) - 1
      BY <2>2, <3>1, ShorterSequence
    <3> SUFFICES ASSUME NEW i \in 1..Len(frames), Len(frames') < i, frames[i].loop # NoLoop
                 PROVE  frames[i].loop.visited = frames[i].loop.had
      OBVIOUS
    <3>3. i = Len(frames)
      BY <2>2, <3>2
    <3> DEFINE p == frames[i].loop
    <3>4. p = Top.loop /\ LoopOK(p, lists, newest, fixed)
      BY <2>1, <3>3 DEF Top, Inv, LoopsOK, IsLoop
    <3>5. p.at = Len(p.had) + 1
      BY <2>4, <3>4, ElementsHad DEF EndRules
    <3> HIDE DEF p
    <3>6. IsSequence(p.had) /\ Len(p.had) \in Nat /\ p.visited = SubSeq(p.had, 1, p.at - 1)
      BY <3>4, AnySequence DEF LoopOK
    <3>7. p.at - 1 = Len(p.had) /\ Len(p.had) \in 0..Len(p.had)
      BY <3>5, <3>6
    <3> DEFINE v == SubSeq(p.had, 1, Len(p.had))
    <3>8. IsSequence(v) /\ Len(v) = Len(p.had) /\ \A j \in 1..Len(p.had) : v[j] = p.had[j]
      BY <3>6, <3>7, CutSequence
    <3>9. p.visited = v
      BY <3>6, <3>7
    <3> HIDE DEF v
    <3>10. v = p.had
      BY <3>6, <3>8, SameSequence
    <3> QED
      BY <3>9, <3>10 DEF p
  <2> QED
    BY <2>3, <2>4
<1> QED
  BY <1>1, OrderlyAlways, PTL DEF Spec, EachVisited

-----------------------------------------------------------------------------
(* The cards *)

PlacesIn(card, ls, cards) ==
    UNION {{<<l, i>> : i \in {i \in 1..Len(ls[l].items) : ls[l].items[i] = card}} :
              l \in cards}

LEMMA InPlaces ==
  ASSUME NEW card, NEW ls, NEW cards, NEW x
  PROVE  x \in PlacesIn(card, ls, cards) <=>
            \E l \in cards : \E i \in 1..Len(ls[l].items) :
                x = <<l, i>> /\ ls[l].items[i] = card
  BY DEF PlacesIn

\* What is at a place of ms was at the place F of it in ls.
MovedBy(F, ls, ms, cards) ==
    /\ \A m \in cards : \A j \in 1..Len(ms[m].items) :
          \E l \in cards : \E i \in 1..Len(ls[l].items) :
             F[<<m, j>>] = <<l, i>> /\ ls[l].items[i] = ms[m].items[j]
    /\ \A m1, m2 \in cards : \A j1 \in 1..Len(ms[m1].items), j2 \in 1..Len(ms[m2].items) :
          F[<<m1, j1>>] = F[<<m2, j2>>] => <<m1, j1>> = <<m2, j2>>
    /\ \A l \in cards : \A i \in 1..Len(ls[l].items) :
          \E m \in cards : \E j \in 1..Len(ms[m].items) : F[<<m, j>>] = <<l, i>>

LEMMA MovedCard ==
  ASSUME NEW F, NEW ls, NEW ms, NEW cards, MovedBy(F, ls, ms, cards), NEW c,
         Cardinality(PlacesIn(c, ls, cards)) = 1, IsFiniteSet(PlacesIn(c, ls, cards))
  PROVE  Cardinality(PlacesIn(c, ms, cards)) = 1 /\ IsFiniteSet(PlacesIn(c, ms, cards))
<1> DEFINE A == PlacesIn(c, ls, cards)
           B == PlacesIn(c, ms, cards)
<1>1. PICK r : A = {r}
  <2> HIDE DEF A
  <2> QED
    BY FS_Singleton DEF A
<1>2. PICK l \in cards : \E i \in 1..Len(ls[l].items) : r = <<l, i>> /\ ls[l].items[i] = c
  <2>1. r \in PlacesIn(c, ls, cards)
    BY <1>1
  <2> QED
    BY <2>1, InPlaces
<1>3. PICK i \in 1..Len(ls[l].items) : r = <<l, i>> /\ ls[l].items[i] = c
  BY <1>2
<1>4. PICK m \in cards : \E j \in 1..Len(ms[m].items) : F[<<m, j>>] = <<l, i>>
  BY DEF MovedBy
<1>5. PICK j \in 1..Len(ms[m].items) : F[<<m, j>>] = <<l, i>>
  BY <1>4
<1>6. ms[m].items[j] = c
  <2>1. \E l1 \in cards : \E i1 \in 1..Len(ls[l1].items) :
           F[<<m, j>>] = <<l1, i1>> /\ ls[l1].items[i1] = ms[m].items[j]
    BY DEF MovedBy
  <2> QED
    BY <1>3, <1>5, <2>1
<1>7. <<m, j>> \in B
  BY <1>6, InPlaces
<1>8. ASSUME NEW x \in B PROVE x = <<m, j>>
  <2>1. PICK m1 \in cards : \E j1 \in 1..Len(ms[m1].items) :
           x = <<m1, j1>> /\ ms[m1].items[j1] = c
    BY <1>8, InPlaces
  <2>2. PICK j1 \in 1..Len(ms[m1].items) : x = <<m1, j1>> /\ ms[m1].items[j1] = c
    BY <2>1
  <2>3. PICK l1 \in cards : \E i1 \in 1..Len(ls[l1].items) :
           F[<<m1, j1>>] = <<l1, i1>> /\ ls[l1].items[i1] = ms[m1].items[j1]
    BY DEF MovedBy
  <2>4. F[<<m1, j1>>] \in A
    BY <2>2, <2>3, InPlaces
  <2>5. F[<<m1, j1>>] = F[<<m, j>>]
    BY <1>1, <1>3, <1>5, <2>4
  <2> QED
    BY <2>2, <2>5 DEF MovedBy
<1> HIDE DEF B
<1>9. B = {<<m, j>>}
  BY <1>7, <1>8
<1>10. Cardinality({<<m, j>>}) = 1 /\ IsFiniteSet({<<m, j>>})
  BY FS_Singleton
<1>11. Cardinality(B) = 1 /\ IsFiniteSet(B)
  BY <1>9, <1>10
<1> QED
  BY <1>11 DEF B

LEMMA Unmoved ==
  ASSUME NEW ls, NEW ms, NEW cards, \A l \in cards : ms[l].items = ls[l].items
  PROVE  \A c : PlacesIn(c, ms, cards) = PlacesIn(c, ls, cards)
<1> SUFFICES ASSUME NEW c PROVE PlacesIn(c, ms, cards) = PlacesIn(c, ls, cards)
  OBVIOUS
<1>1. \A l \in cards : {i \in 1..Len(ms[l].items) : ms[l].items[i] = c}
                       = {i \in 1..Len(ls[l].items) : ls[l].items[i] = c}
  OBVIOUS
<1> QED
  BY <1>1 DEF PlacesIn

\* The items of one list have changed places.
LEMMA MovedAbout ==
  ASSUME NEW ls, NEW ms, NEW cards, NEW d \in cards, IsSequence(ls[d].items),
         NEW f \in Bijection(DOMAIN ls[d].items, DOMAIN ls[d].items),
         ms[d].items = [i \in DOMAIN f |-> ls[d].items[f[i]]],
         \A l \in cards : l # d => ms[l].items = ls[l].items
  PROVE  \E F : MovedBy(F, ls, ms, cards)
<1> DEFINE n == Len(ls[d].items)
           P == {<<l, i>> : l \in cards, i \in Nat}
           F == [p \in P |-> IF p[1] = d THEN <<d, f[p[2]]>> ELSE p]
<1>1. DOMAIN ls[d].items = 1..n /\ n \in Nat
  BY AnySequence
<1>2. /\ f \in [1..n -> 1..n]
      /\ \A i, j \in 1..n : f[i] = f[j] => i = j
      /\ \A i \in 1..n : \E j \in 1..n : f[j] = i
  BY <1>1 DEF Bijection, Injection, Surjection, IsInjective
<1>3. Len(ms[d].items) = n /\ \A j \in 1..n : ms[d].items[j] = ls[d].items[f[j]]
  <2> DEFINE s == ms[d].items
  <2>1. s = [i \in 1..n |-> s[i]] /\ \A j \in 1..n : s[j] = ls[d].items[f[j]]
    BY <1>2
  <2> HIDE DEF s, n
  <2> QED
    BY <1>1, <2>1, MadeSequence DEF s
<1>4. \A l \in cards : \A i \in 1..Len(ms[l].items) : i \in Nat
  OBVIOUS
<1>5. \A l \in cards : \A i \in Nat : F[<<l, i>>] = IF l = d THEN <<d, f[i]>> ELSE <<l, i>>
  OBVIOUS
<1> HIDE DEF F, P, n
<1>6. ASSUME NEW m \in cards, NEW j \in 1..Len(ms[m].items)
      PROVE  \E l \in cards : \E i \in 1..Len(ls[l].items) :
                F[<<m, j>>] = <<l, i>> /\ ls[l].items[i] = ms[m].items[j]
  <2>1. CASE m = d
    <3>1. j \in Nat /\ j \in 1..n
      BY <1>3, <1>4, <2>1
    <3>2. F[<<m, j>>] = <<d, f[j]>> /\ f[j] \in 1..n /\ ls[d].items[f[j]] = ms[m].items[j]
      BY <1>2, <1>3, <1>5, <2>1, <3>1
    <3> QED
      BY <3>2 DEF n
  <2>2. CASE m # d
    <3>1. F[<<m, j>>] = <<m, j>>
      BY <1>4, <1>5, <2>2
    <3> QED
      BY <2>2, <3>1
  <2> QED
    BY <2>1, <2>2
<1>7. ASSUME NEW m1 \in cards, NEW m2 \in cards,
             NEW j1 \in 1..Len(ms[m1].items), NEW j2 \in 1..Len(ms[m2].items),
             F[<<m1, j1>>] = F[<<m2, j2>>]
      PROVE  <<m1, j1>> = <<m2, j2>>
  <2>0. /\ F[<<m1, j1>>] = <<m1, IF m1 = d THEN f[j1] ELSE j1>>
        /\ F[<<m2, j2>>] = <<m2, IF m2 = d THEN f[j2] ELSE j2>>
    BY <1>4, <1>5
  <2>1. m1 = m2 /\ (IF m1 = d THEN f[j1] ELSE j1) = (IF m2 = d THEN f[j2] ELSE j2)
    BY <1>7, <2>0
  <2>2. CASE m1 = d
    <3>1. f[j1] = f[j2] /\ j1 \in 1..n /\ j2 \in 1..n
      BY <1>3, <2>1, <2>2
    <3> QED
      BY <1>2, <2>1, <3>1
  <2>3. CASE m1 # d
    BY <2>1, <2>3
  <2> QED
    BY <2>2, <2>3
<1>8. ASSUME NEW l \in cards, NEW i \in 1..Len(ls[l].items)
      PROVE  \E m \in cards : \E j \in 1..Len(ms[m].items) : F[<<m, j>>] = <<l, i>>
  <2>1. CASE l = d
    <3>1. PICK j \in 1..n : f[j] = i
      BY <1>2, <2>1 DEF n
    <3>2. j \in Nat /\ j \in 1..Len(ms[d].items)
      BY <1>1, <1>3
    <3> QED
      BY <1>5, <2>1, <3>1, <3>2
  <2>2. CASE l # d
    <3>1. F[<<l, i>>] = <<l, i>> /\ i \in 1..Len(ms[l].items)
      BY <1>4, <1>5, <2>2
    <3> QED
      BY <3>1
  <2> QED
    BY <2>1, <2>2
<1>9. MovedBy(F, ls, ms, cards)
  BY <1>6, <1>7, <1>8 DEF MovedBy
<1> QED
  BY <1>9

\* The last k items of the list a, of n, are behind the r items of the list d,
\* turned over.
TurnedOver(a, d, n, r, k, ls, ms, cards) ==
    /\ Len(ls[a].items) = n /\ Len(ls[d].items) = r
    /\ Len(ms[a].items) = n - k /\ Len(ms[d].items) = r + k
    /\ \A i \in 1..(n - k) : ms[a].items[i] = ls[a].items[i]
    /\ \A i \in 1..r : ms[d].items[i] = ls[d].items[i]
    /\ \A i \in 1..k : ms[d].items[r + i] = ls[a].items[n + 1 - i]
    /\ \A l \in cards : l # a /\ l # d => ms[l].items = ls[l].items

LEMMA MovedOver ==
  ASSUME NEW ls, NEW ms, NEW cards, NEW a \in cards, NEW d \in cards, a # d,
         NEW n \in Nat, NEW r \in Nat, NEW k \in 0..n,
         TurnedOver(a, d, n, r, k, ls, ms, cards)
  PROVE  \E F : MovedBy(F, ls, ms, cards)
<1> USE DEF TurnedOver
<1> DEFINE P == {<<l, i>> : l \in cards, i \in Nat}
           F == [p \in P |-> IF p[1] = d /\ p[2] > r THEN <<a, n + 1 + r - p[2]>> ELSE p]
<1>1. ASSUME NEW l \in cards, NEW i \in Nat
      PROVE  /\ l = d /\ i > r => F[<<l, i>>] = <<a, n + 1 + r - i>>
             /\ ~(l = d /\ i > r) => F[<<l, i>>] = <<l, i>>
  <2> DEFINE p == <<l, i>>
  <2>1. p \in P /\ p[1] = l /\ p[2] = i
    OBVIOUS
  <2>2. F[p] = IF p[1] = d /\ p[2] > r THEN <<a, n + 1 + r - p[2]>> ELSE p
    <3> HIDE DEF P, p
    <3> QED
      BY <2>1
  <2> HIDE DEF F, P
  <2> QED
    BY <2>1, <2>2
<1>2. /\ \A l \in cards : \A i \in 1..Len(ms[l].items) : i \in Nat
      /\ \A l \in cards : \A i \in 1..Len(ls[l].items) : i \in Nat
  OBVIOUS
<1> HIDE DEF F, P
<1>3. ASSUME NEW j \in 1..(r + k), j > r
      PROVE  n + 1 + r - j \in (n - k + 1)..n /\ n + 1 + r - j \in 1..n
             /\ ms[d].items[j] = ls[a].items[n + 1 + r - j]
  <2>1. j - r \in 1..k /\ r + (j - r) = j /\ n + 1 - (j - r) = n + 1 + r - j
    BY <1>3
  <2>2. ms[d].items[r + (j - r)] = ls[a].items[n + 1 - (j - r)]
    BY <2>1
  <2>3. n + 1 + r - j \in (n - k + 1)..n /\ n + 1 + r - j \in 1..n
    BY <2>1
  <2> QED
    BY <2>1, <2>2, <2>3
<1>4. ASSUME NEW m \in cards, NEW j \in 1..Len(ms[m].items)
      PROVE  \E l \in cards : \E i \in 1..Len(ls[l].items) :
                F[<<m, j>>] = <<l, i>> /\ ls[l].items[i] = ms[m].items[j]
  <2>1. CASE m = d /\ j > r
    <3>1. F[<<m, j>>] = <<a, n + 1 + r - j>>
      BY <1>1, <1>2, <2>1
    <3> QED
      BY <1>3, <2>1, <3>1
  <2>2. CASE m = d /\ ~(j > r)
    <3>1. j \in Nat /\ j \in 1..(r + k)
      BY <1>2, <2>2
    <3>2. F[<<m, j>>] = <<d, j>> /\ j \in 1..r
      BY <1>1, <2>2, <3>1
    <3> QED
      BY <2>2, <3>2
  <2>3. CASE m = a
    <3>1. j \in Nat /\ j \in 1..(n - k) /\ j \in 1..n
      BY <1>2, <2>3
    <3>2. F[<<m, j>>] = <<a, j>>
      BY <1>1, <2>3, <3>1
    <3> QED
      BY <2>3, <3>1, <3>2
  <2>4. CASE m # a /\ m # d
    BY <1>1, <1>2, <2>4
  <2> QED
    BY <2>1, <2>2, <2>3, <2>4
<1>5. ASSUME NEW m1 \in cards, NEW m2 \in cards,
             NEW j1 \in 1..Len(ms[m1].items), NEW j2 \in 1..Len(ms[m2].items),
             F[<<m1, j1>>] = F[<<m2, j2>>]
      PROVE  <<m1, j1>> = <<m2, j2>>
  <2>0. j1 \in Nat /\ j2 \in Nat
    OBVIOUS
  <2>1. CASE m1 = d /\ j1 > r
    <3>1. F[<<m1, j1>>] = <<a, n + 1 + r - j1>> /\ n + 1 + r - j1 \in (n - k + 1)..n
      BY <1>1, <1>3, <2>0, <2>1
    <3>2. CASE m2 = d /\ j2 > r
      <4>1. F[<<m2, j2>>] = <<a, n + 1 + r - j2>>
        BY <1>1, <2>0, <3>2
      <4>2. n + 1 + r - j1 = n + 1 + r - j2
        BY <1>5, <3>1, <4>1
      <4>3. j1 = j2
        BY <2>0, <4>2
      <4> QED
        BY <2>1, <3>2, <4>3
    <3>3. CASE ~(m2 = d /\ j2 > r)
      <4>1. F[<<m2, j2>>] = <<m2, j2>>
        BY <1>1, <2>0, <3>3
      <4>2. m2 = a /\ j2 = n + 1 + r - j1
        BY <1>5, <3>1, <4>1
      <4>3. j2 \in 1..(n - k) /\ j2 \in (n - k + 1)..n
        BY <3>1, <4>2
      <4> QED
        BY <4>3
    <3> QED
      BY <3>2, <3>3
  <2>2. CASE m2 = d /\ j2 > r /\ ~(m1 = d /\ j1 > r)
    <3>1. F[<<m2, j2>>] = <<a, n + 1 + r - j2>> /\ n + 1 + r - j2 \in (n - k + 1)..n
      BY <1>1, <1>3, <2>0, <2>2
    <3>2. F[<<m1, j1>>] = <<m1, j1>>
      BY <1>1, <2>0, <2>2
    <3>3. m1 = a /\ j1 = n + 1 + r - j2
      <4>1. <<m1, j1>> = <<a, n + 1 + r - j2>>
        BY <1>5, <3>1, <3>2
      <4> QED
        BY <4>1
    <3>4. j1 \in 1..(n - k) /\ j1 \in (n - k + 1)..n
      BY <3>1, <3>3
    <3> QED
      BY <3>4
  <2>3. CASE ~(m1 = d /\ j1 > r) /\ ~(m2 = d /\ j2 > r)
    <3>1. F[<<m1, j1>>] = <<m1, j1>> /\ F[<<m2, j2>>] = <<m2, j2>>
      BY <1>1, <2>0, <2>3
    <3> QED
      BY <1>5, <3>1
  <2> QED
    BY <2>1, <2>2, <2>3
<1>6. ASSUME NEW l \in cards, NEW i \in 1..Len(ls[l].items)
      PROVE  \E m \in cards : \E j \in 1..Len(ms[m].items) : F[<<m, j>>] = <<l, i>>
  <2>1. CASE l = a /\ i > n - k
    <3> DEFINE j == n + 1 + r - i
    <3>1. i \in 1..n
      BY <2>1
    <3>2. j \in 1..(r + k) /\ j > r /\ n + 1 + r - j = i /\ j \in Nat
      BY <2>1, <3>1
    <3> HIDE DEF j
    <3>3. F[<<d, j>>] = <<a, i>>
      BY <1>1, <3>2
    <3> QED
      BY <2>1, <3>2, <3>3
  <2>2. CASE l = a /\ ~(i > n - k)
    <3>1. i \in 1..(n - k) /\ i \in Nat /\ i \in 1..Len(ms[a].items)
      BY <2>2
    <3>2. F[<<a, i>>] = <<a, i>>
      BY <1>1, <3>1
    <3>3. l = a /\ l \in cards /\ i \in 1..Len(ms[l].items)
      BY <2>2, <3>1
    <3> QED
      BY <3>2, <3>3
  <2>3. CASE l = d
    <3>1. i \in 1..(r + k) /\ ~(i > r) /\ i \in Nat
      BY <2>3
    <3>2. F[<<l, i>>] = <<l, i>> /\ i \in 1..Len(ms[l].items)
      BY <1>1, <2>3, <3>1
    <3> QED
      BY <3>2
  <2>4. CASE l # a /\ l # d
    <3>1. i \in Nat /\ i \in 1..Len(ms[l].items)
      BY <1>2, <2>4
    <3>2. F[<<l, i>>] = <<l, i>>
      BY <1>1, <2>4, <3>1
    <3> QED
      BY <3>1, <3>2
  <2> QED
    BY <2>1, <2>2, <2>3, <2>4
<1>7. MovedBy(F, ls, ms, cards)
  BY <1>4, <1>5, <1>6 DEF MovedBy
<1> QED
  BY <1>7

LEMMA CardsMove ==
  ASSUME NEW fixed, NEW views, NEW parts, Inv(fixed, views, parts),
         Orderly(game, fixed, views, parts), [Next]_vars
  PROVE  \/ \A l \in game.cards : lists'[l].items = lists[l].items
         \/ \E F : MovedBy(F, lists, lists', game.cards)
<1> DEFINE n == Len(frames)
           part == Part(Top.rules, NamesOf(frames, n), GoneOf(frames, n))
           Same == \A l \in game.cards : lists'[l].items = lists[l].items
<1>1. /\ DOMAIN lists = DOMAIN game.lists /\ lists = [l \in DOMAIN lists |-> lists[l]]
      /\ game.cards \subseteq DOMAIN lists
      /\ \A l \in game.cards : l \notin fixed /\ l \notin views
      /\ \A l \in DOMAIN lists : ListOK(l, lists, newest, fixed, views)
  BY DEF Inv, ListsOK, Orderly
<1>2. ASSUME NEW kind, At(kind)
      PROVE  Rule.rule = kind /\ MayRun(Rule, game, fixed, views, part, parts)
  BY <1>2, RuleThere
<1> HIDE DEF part
<1>3. ASSUME NEW d, d \notin game.cards, NEW x, lists' = [lists EXCEPT ![d] = x]
      PROVE  Same
  BY <1>1, <1>3
<1>4. CASE Extend
  <2>1. Rule.target \notin game.cards
    BY <1>2, <1>4 DEF Extend, MayRun
  <2>2. \E x : lists' = [lists EXCEPT ![Rule.target] = x]
    BY <1>4 DEF Extend
  <2> QED
    BY <1>3, <2>1, <2>2
<1>5. CASE Discard
  <2>1. Rule.from \notin game.cards
    BY <1>2, <1>5 DEF Discard, MayRun
  <2>2. lists' = lists \/ \E x : lists' = [lists EXCEPT ![Rule.from] = x]
    BY <1>5 DEF Discard
  <2> QED
    BY <1>3, <2>1, <2>2
<1>6. CASE Deal
  <2> DEFINE a == Rule.from
             d == Rule.to
             s == lists[a].items
             t == lists[d].items
             k == IF Rule.count < Len(s) THEN Rule.count ELSE Len(s)
             dealt == [i \in 1..k |-> s[Len(s) + 1 - i]]
             room == Grown(lists[d], Len(t) + k, newest + 1)
             left == SubSeq(s, 1, Len(s) - k)
             y == [room EXCEPT !.items = @ \o dealt]
             x == [lists[a] EXCEPT !.items = left]
  <2>1. /\ a \in game.cards <=> d \in game.cards
        /\ Rule.count \in Nat /\ a \in DOMAIN lists /\ d \in DOMAIN lists
    <3>1. Rule.rule = "deal" /\ MayRun(Rule, game, fixed, views, part, parts)
      BY <1>2, <1>6 DEF Deal
    <3> QED
      BY <1>1, <3>1 DEF MayRun
  <2>2. lists' = IF a = d THEN lists ELSE [lists EXCEPT ![a] = x, ![d] = y]
    BY <1>6 DEF Deal, Left
  <2>3. CASE a = d
    BY <2>2, <2>3
  <2>4. CASE a # d /\ a \notin game.cards
    <3> HIDE DEF a, d, x, y
    <3> QED
      BY <1>1, <2>1, <2>2, <2>4
  <2>5. CASE a # d /\ a \in game.cards
    <3>1. /\ IsSequence(s) /\ IsSequence(t) /\ Len(s) \in Nat /\ Len(t) \in Nat
          /\ k \in 0..Len(s) /\ k \in Nat
          /\ lists[a] = [buf |-> lists[a].buf, cap |-> lists[a].cap, items |-> s]
          /\ lists[d] = [buf |-> lists[d].buf, cap |-> lists[d].cap, items |-> t]
      <4>1. ListOK(a, lists, newest, fixed, views) /\ ListOK(d, lists, newest, fixed, views)
        BY <1>1, <2>1
      <4>2. /\ IsSequence(s) /\ IsSequence(t)
            /\ lists[a] = [buf |-> lists[a].buf, cap |-> lists[a].cap, items |-> s]
            /\ lists[d] = [buf |-> lists[d].buf, cap |-> lists[d].cap, items |-> t]
        BY <4>1 DEF ListOK
      <4>3. Len(s) \in Nat /\ Len(t) \in Nat
        BY <4>2, AnySequence
      <4> QED
        BY <2>1, <4>2, <4>3
    <3>2. Len(left) = Len(s) - k /\ \A i \in 1..(Len(s) - k) : left[i] = s[i]
      <4>1. Len(s) - k \in 0..Len(s)
        BY <3>1
      <4> QED
        BY <3>1, <4>1, CutSequence
    <3>3. IsSequence(dealt) /\ Len(dealt) = k /\ \A i \in 1..k : dealt[i] = s[Len(s) + 1 - i]
      <4>1. dealt = [i \in 1..k |-> dealt[i]] /\ \A i \in 1..k : dealt[i] = s[Len(s) + 1 - i]
        OBVIOUS
      <4> HIDE DEF dealt, k
      <4>2. IsSequence(dealt) /\ Len(dealt) = k
        BY <3>1, <4>1, MadeSequence
      <4> QED
        BY <4>1, <4>2
    <3>4. room = [buf |-> room.buf, cap |-> room.cap, items |-> t]
      BY <3>1 DEF Grown
    <3> HIDE DEF left, dealt, room, k, t
    <3>5. y.items = t \o dealt
      <4>1. room = [buf |-> room.buf, cap |-> room.cap, items |-> room.items] /\ room.items = t
        BY <3>4
      <4>2. [room EXCEPT !.items = t \o dealt]
            = [buf |-> room.buf, cap |-> room.cap, items |-> t \o dealt]
        BY ONLY <4>1, ItemsReplaced
      <4>3. y = [room EXCEPT !.items = t \o dealt]
        BY <4>1
      <4> HIDE DEF y
      <4> QED
        BY <4>2, <4>3
    <3>6. x.items = left
      <4>1. [lists[a] EXCEPT !.items = left]
            = [buf |-> lists[a].buf, cap |-> lists[a].cap, items |-> left]
        BY <3>1, ItemsReplaced
      <4> QED
        BY <4>1
    <3> HIDE DEF x, y
    <3>7. /\ Len(y.items) = Len(t) + k
          /\ \A i \in 1..Len(t) : y.items[i] = t[i]
          /\ \A i \in 1..k : y.items[Len(t) + i] = s[Len(s) + 1 - i]
      <4> DEFINE z == t \o dealt
      <4>1. IsSequence(t) /\ IsSequence(dealt)
        BY <3>1, <3>3
      <4>2. /\ Len(z) = Len(t) + Len(dealt)
            /\ \A i \in 1..Len(t) : z[i] = t[i]
            /\ \A i \in 1..Len(dealt) : z[Len(t) + i] = dealt[i]
        BY ONLY <4>1, JoinedSequences
      <4> HIDE DEF z
      <4> QED
        BY <3>3, <3>5, <4>2 DEF z
    <3> DEFINE ms == lists'
    <3>8. ms = [lists EXCEPT ![a] = x, ![d] = y]
      BY <2>2, <2>5
    <3> HIDE DEF ms, a, d, s
    <3>9. /\ ms[a] = x /\ ms[d] = y
          /\ \A l \in game.cards : l # a /\ l # d => ms[l].items = lists[l].items
      BY <1>1, <2>1, <2>5, <3>8
    <3> DEFINE n1 == Len(s)
               r1 == Len(t)
    <3>10. /\ n1 \in Nat /\ r1 \in Nat /\ k \in 0..n1
           /\ a \in game.cards /\ d \in game.cards /\ a # d
           /\ TurnedOver(a, d, n1, r1, k, lists, ms, game.cards)
      BY <2>1, <2>5, <3>1, <3>2, <3>6, <3>7, <3>9 DEF s, t, TurnedOver
    <3> HIDE DEF n1, r1
    <3>11. \E F : MovedBy(F, lists, ms, game.cards)
      BY ONLY <3>10, MovedOver
    <3> QED
      BY <3>11 DEF ms
  <2> QED
    BY <2>3, <2>4, <2>5
<1>7. ASSUME NEW d \in DOMAIN lists, Rearranged(d)
      PROVE  Same \/ \E F : MovedBy(F, lists, lists', game.cards)
  <2>1. PICK f \in Bijection(DOMAIN lists[d].items, DOMAIN lists[d].items) :
           lists' = [lists EXCEPT ![d].items = [i \in DOMAIN f |-> lists[d].items[f[i]]]]
    BY <1>7 DEF Rearranged
  <2> DEFINE s == [i \in DOMAIN f |-> lists[d].items[f[i]]]
  <2>2. lists' = [lists EXCEPT ![d] = [lists[d] EXCEPT !.items = s]]
    BY <2>1
  <2>3. CASE d \notin game.cards
    BY <1>3, <2>2, <2>3
  <2>4. CASE d \in game.cards
    <3>1. ListOK(d, lists, newest, fixed, views)
      BY <1>1
    <3>2. /\ lists[d] = [buf |-> lists[d].buf, cap |-> lists[d].cap, items |-> lists[d].items]
          /\ IsSequence(lists[d].items)
      BY <3>1 DEF ListOK
    <3>3. [lists[d] EXCEPT !.items = s]
          = [buf |-> lists[d].buf, cap |-> lists[d].cap, items |-> s]
      BY ONLY <3>2, ItemsReplaced
    <3> DEFINE ms == lists'
    <3>4. /\ ms[d].items = s
          /\ \A l \in game.cards : l # d => ms[l].items = lists[l].items
      <4> HIDE DEF s
      <4> QED
        BY <1>1, <2>2, <2>4, <3>3
    <3> HIDE DEF ms
    <3>5. \E F : MovedBy(F, lists, ms, game.cards)
      BY <2>4, <3>2, <3>4, MovedAbout
    <3> QED
      BY <3>5 DEF ms
  <2> QED
    BY <2>3, <2>4
<1>8. CASE ReverseList \/ Shuffle \/ Sort
  <2>1. PICK kind \in {"reverse", "shuffle", "sort"} : At(kind)
    BY <1>8 DEF ReverseList, Shuffle, Sort
  <2>2. Rule.list \in DOMAIN lists
    BY <1>1, <1>2, <2>1 DEF MayRun
  <2>3. Rearranged(Rule.list) \/ lists' = lists
    BY <1>8, RearrangedByRules
  <2> QED
    BY <1>7, <2>2, <2>3
<1>9. CASE Add
  <2>1. \/ lists' = lists
        \/ \E d \in fixed : \E x : lists' = [lists EXCEPT ![d] = x]
    BY <1>9, AddWrites
  <2> QED
    BY <1>1, <1>3, <2>1
<1>10. CASE Choose
  <2>1. "players" \notin game.cards
    BY <1>2, <1>10 DEF Choose, MayRun
  <2>2. \E x : lists' = [lists EXCEPT !["players"] = x]
    BY <1>10 DEF Choose
  <2> QED
    BY <1>3, <2>1, <2>2
<1>11. CASE When \/ BeginForEach \/ Visit \/ EndRules \/ UNCHANGED vars
  BY <1>11 DEF When, BeginForEach, Visit, EndRules, vars
<1>12. CASE Done
  BY <1>12 DEF Done, vars
<1> QED
  BY <1>4, <1>5, <1>6, <1>8, <1>9, <1>10, <1>11, <1>12 DEF Next

\* However the cards of an orderly game are dealt and moved about, each stays in
\* one place.
THEOREM CardsStay ==
  ASSUME AllOrderly, \A g \in Games : CardsApart(g)
  PROVE  Spec => []CardsKept
<1> DEFINE Kept == \A l \in game.cards : \A i \in 1..Len(game.lists[l].items) :
                      LET P == PlacesIn(game.lists[l].items[i], lists, game.cards) IN
                      Cardinality(P) = 1 /\ IsFiniteSet(P)
<1>1. Init => Kept
  <2> SUFFICES ASSUME Init, NEW l \in game.cards, NEW i \in 1..Len(game.lists[l].items)
               PROVE  LET P == PlacesIn(game.lists[l].items[i], lists, game.cards) IN
                      Cardinality(P) = 1 /\ IsFiniteSet(P)
    OBVIOUS
  <2> DEFINE c == game.lists[l].items[i]
             P == PlacesIn(c, lists, game.cards)
  <2>1. CardsApart(game) /\ lists = game.lists
    BY DEF Init
  <2>2. <<l, i>> \in P
    BY <2>1, InPlaces
  <2>3. \A x \in P : x = <<l, i>>
    BY <2>1, InPlaces DEF CardsApart
  <2> HIDE DEF P
  <2>4. P = {<<l, i>>}
    BY <2>2, <2>3
  <2>5. Cardinality(P) = 1 /\ IsFiniteSet(P)
    BY <2>4, FS_Singleton
  <2> QED
    BY <2>5 DEF P
<1>2. Kept /\ OrderlyInv /\ [Next]_vars => Kept'
  <2> SUFFICES ASSUME Kept, OrderlyInv, [Next]_vars PROVE Kept'
    OBVIOUS
  <2>1. PICK fixed, views, parts :
           Orderly(game, fixed, views, parts) /\ Inv(fixed, views, parts)
    BY DEF OrderlyInv
  <2>2. \/ \A l \in game.cards : lists'[l].items = lists[l].items
        \/ \E F : MovedBy(F, lists, lists', game.cards)
    BY <2>1, CardsMove
  <2> DEFINE ms == lists'
  <2>3. \/ \A l \in game.cards : ms[l].items = lists[l].items
        \/ \E F : MovedBy(F, lists, ms, game.cards)
    BY <2>2
  <2> HIDE DEF ms
  <2>4. \A l \in game.cards : \A i \in 1..Len(game.lists[l].items) :
           /\ Cardinality(PlacesIn(game.lists[l].items[i], ms, game.cards)) = 1
           /\ IsFiniteSet(PlacesIn(game.lists[l].items[i], ms, game.cards))
    <3>1. CASE \A l \in game.cards : ms[l].items = lists[l].items
      BY <3>1, Unmoved
    <3>2. CASE \E F : MovedBy(F, lists, ms, game.cards)
      BY <3>2, MovedCard
    <3> QED
      BY <2>3, <3>1, <3>2
  <2> QED
    BY <2>4, SameGame DEF ms
<1>3. Kept => CardsKept
  BY DEF CardsKept, Places, PlacesIn
<1> QED
  BY <1>1, <1>2, <1>3, OrderlyAlways, PTL DEF Spec

-----------------------------------------------------------------------------
(* Rounds of rock, paper, scissors *)

\* What is always so of the lists of g.
Fair(ls, g) ==
    LET p == ls["players"].items IN
    /\ ls["weapons"] = g.lists["weapons"]
    /\ \A i \in 1..Len(p) :
          /\ p[i].is = "value" /\ p[i].v.wins \in Nat
          /\ p[i].v = [name |-> p[i].v.name, weapon |-> p[i].v.weapon, wins |-> p[i].v.wins]

Taken(ls) == {ls["players"].items[i].v.weapon : i \in 1..Len(ls["players"].items)}

\* Everybody has taken one of the weapons, and no win of this round is counted,
\* but for those of the first k winners.
IsWinner(ls, i, k) == \E j \in 1..k : ls["winners"].items[j].at = i
Counted(ls, bf, g, k) ==
    LET p == ls["players"].items IN
    \A i \in 1..Len(p) :
        /\ \E x \in 1..3 : p[i].v.weapon = g.lists["weapons"].items[x].v.name
        /\ p[i].v.wins = IF IsWinner(ls, i, k) THEN bf[i] + 1 ELSE bf[i]

\* The winners are players, each once: those whose weapon is beaten by one of the
\* first k weapons that nobody has.
Listed(ls) ==
    LET p == ls["players"]
        w == ls["winners"].items IN
    /\ \A j \in 1..Len(w) : w[j] = Pointer(p.buf, w[j].at) /\ w[j].at \in 1..Len(p.items)
    /\ \A i, j \in 1..Len(w) : w[i].at = w[j].at => i = j
Beats(ls, g, i, x) ==
    LET s == g.lists["weapons"].items IN
    s[x].v.name \notin Taken(ls) /\ ls["players"].items[i].v.weapon = s[x].v.beats
Gathered(ls, bf, g, k) ==
    /\ Counted(ls, bf, g, 0)
    /\ Listed(ls)
    /\ \A i \in 1..Len(ls["players"].items) :
          IsWinner(ls, i, Len(ls["winners"].items)) <=> \E x \in 1..k : Beats(ls, g, i, x)

\* The winners have won, and the wins of the first k are counted.
BeatenBy(s, w) == s[CHOOSE x \in 1..Len(s) : s[x].v.name = w].v.beats
HasWon(ls, g, i) ==
    /\ Cardinality(Taken(ls)) = 2
    /\ BeatenBy(g.lists["weapons"].items, ls["players"].items[i].v.weapon) \in Taken(ls)
Counting(ls, bf, g, k) ==
    /\ Counted(ls, bf, g, k)
    /\ Listed(ls)
    /\ \A i \in 1..Len(ls["players"].items) :
          IsWinner(ls, i, Len(ls["winners"].items)) <=> HasWon(ls, g, i)
Scored(ls, bf, g) ==
    \A i \in 1..Len(ls["players"].items) :
        ls["players"].items[i].v.wins = IF HasWon(ls, g, i) THEN bf[i] + 1 ELSE bf[i]

\* Where the rules are.
Root(fs, g, pos) == Len(fs) >= 1 /\ fs[1].rules = g.rules /\ fs[1].pos = pos /\ ~IsLoop(fs[1])
WeaponNames(g) == {g.lists["weapons"].items[i].v.name : i \in 1..3}
IsRound(rules, g) == rules = RoundRules(WeaponNames(g))
InRound(fs, g, pos) ==
    /\ Len(fs) >= 2 /\ Root(fs, g, 2)
    /\ IsLoop(fs[2]) /\ IsRound(fs[2].rules, g) /\ IsRound(fs[2].loop.body, g)
    /\ fs[2].pos = pos
GoesOver(f, l, element, body) ==
    /\ IsLoop(f) /\ f.loop.query = Itself(l) /\ f.loop.element = element /\ f.loop.body = body
AtWeapons(fs, g) ==
    Len(fs) >= 3 /\ InRound(fs, g, 4) /\ GoesOver(fs[3], "weapons", "weapon", WeaponRules)
AtWinners(fs, g, pos) ==
    /\ Len(fs) >= 3 /\ InRound(fs, g, 5) /\ ~IsLoop(fs[3]) /\ fs[3].rules = WonRules
    /\ fs[3].pos = pos
Fresh(f) == f.rules = <<>> /\ f.pos = 1 /\ f.loop.at = 1
Within(f, rules, pos) == f.rules = rules /\ f.pos = pos /\ f.loop.at - 2 \in Nat

\* The weapon a foreach is at, if nobody has it.
IsAt(es, element, p) == element \in DOMAIN es /\ es[element] = p

BeforeRounds(fs, bf, g) ==
    /\ bf = <<>>
    /\ \/ Len(fs) = 1 /\ Root(fs, g, 1)
       \/ /\ Len(fs) = 2 /\ Root(fs, g, 2) /\ Fresh(fs[2])
          /\ IsLoop(fs[2]) /\ IsRound(fs[2].loop.body, g)
AfterRounds(fs, g) == Len(fs) = 0 \/ (Len(fs) = 1 /\ Root(fs, g, 2))
BetweenRules(fs, ls, bf, g) ==
    /\ Len(fs) = 2
    /\ \/ InRound(fs, g, 1)
       \/ InRound(fs, g, 2) /\ Counted(ls, bf, g, 0)
       \/ InRound(fs, g, 3) /\ Gathered(ls, bf, g, 0) /\ ls["winners"].items = <<>>
       \/ InRound(fs, g, 4) /\ Gathered(ls, bf, g, 3)
       \/ InRound(fs, g, 5) /\ Scored(ls, bf, g)
Gathering(fs, ls, bf, es, g) ==
    /\ AtWeapons(fs, g)
    /\ LET a == fs[3].loop.at
           p == Pointer(ls["weapons"].buf, a - 1) IN
       \/ Len(fs) = 3 /\ Fresh(fs[3]) /\ Gathered(ls, bf, g, 0)
       \/ /\ Len(fs) = 3 /\ Within(fs[3], WeaponRules, 1)
          /\ Gathered(ls, bf, g, a - 2) /\ IsAt(es, "weapon", p)
       \/ Len(fs) = 3 /\ Within(fs[3], WeaponRules, 2) /\ Gathered(ls, bf, g, a - 1)
       \/ /\ Len(fs) = 4 /\ Within(fs[3], WeaponRules, 2)
          /\ ~IsLoop(fs[4]) /\ fs[4].rules = GatherRules
          /\ \/ /\ fs[4].pos = 1 /\ Gathered(ls, bf, g, a - 2) /\ IsAt(es, "weapon", p)
                /\ g.lists["weapons"].items[a - 1].v.name \notin Taken(ls)
             \/ fs[4].pos = 2 /\ Gathered(ls, bf, g, a - 1)
Ending(fs, ls, bf, es, g) ==
    \/ /\ Len(fs) = 3 /\ InRound(fs, g, 5) /\ ~IsLoop(fs[3])
       /\ fs[3].rules = <<>> /\ fs[3].pos = 1 /\ Scored(ls, bf, g)
    \/ Len(fs) = 3 /\ AtWinners(fs, g, 1) /\ Counting(ls, bf, g, 0)
    \/ Len(fs) = 3 /\ AtWinners(fs, g, 2) /\ Scored(ls, bf, g)
    \/ /\ Len(fs) = 4 /\ AtWinners(fs, g, 2)
       /\ GoesOver(fs[4], "winners", "winner", WinnerRules)
       /\ LET a == fs[4].loop.at
              w == ls["winners"].items IN
          \/ Fresh(fs[4]) /\ Counting(ls, bf, g, 0)
          \/ /\ Within(fs[4], WinnerRules, 1) /\ Counting(ls, bf, g, a - 2)
             /\ IsAt(es, "winner", w[a - 1])
          \/ Within(fs[4], WinnerRules, 2) /\ Counting(ls, bf, g, a - 1)

Stage(fs, ls, bf, es, g) ==
    /\ Fair(ls, g)
    /\ \/ BeforeRounds(fs, bf, g) \/ AfterRounds(fs, g) \/ BetweenRules(fs, ls, bf, g)
       \/ Gathering(fs, ls, bf, es, g) \/ Ending(fs, ls, bf, es, g)


-----------------------------------------------------------------------------
(* Who wins *)

LEMMA TwoTaken ==
  ASSUME NEW a, NEW b, NEW c, a # b, b # c, a # c, NEW T, T \subseteq {a, b, c}
  PROVE  Cardinality(T) = 2 <=> \/ a \notin T /\ b \in T /\ c \in T
                                \/ b \notin T /\ a \in T /\ c \in T
                                \/ c \notin T /\ a \in T /\ b \in T
<1>1. \A x, y : x # y => Cardinality({x, y}) = 2
  <2> SUFFICES ASSUME NEW x, NEW y, x # y PROVE Cardinality({x, y}) = 2
    OBVIOUS
  <2>1. IsFiniteSet({x}) /\ Cardinality({x}) = 1
    BY FS_Singleton
  <2>2. Cardinality({x} \cup {y}) = 2
    BY <2>1, FS_AddElement
  <2>3. {x} \cup {y} = {x, y}
    OBVIOUS
  <2> QED
    BY <2>2, <2>3
<1>2. \A x : Cardinality({x}) = 1
  BY FS_Singleton
<1>3. Cardinality({}) = 0
  BY FS_EmptySet
<1>4. Cardinality({a, b, c}) = 3
  <2>1. IsFiniteSet({c}) /\ Cardinality({c}) = 1
    BY FS_Singleton
  <2>2. IsFiniteSet({c} \cup {b}) /\ Cardinality({c} \cup {b}) = 2
    BY <2>1, FS_AddElement
  <2>3. Cardinality(({c} \cup {b}) \cup {a}) = 3
    BY <2>2, FS_AddElement
  <2>4. ({c} \cup {b}) \cup {a} = {a, b, c}
    OBVIOUS
  <2> QED
    BY <2>3, <2>4
<1>5. T \in {{}, {a}, {b}, {c}, {a, b}, {a, c}, {b, c}, {a, b, c}}
  <2>1. T = (IF a \in T THEN {a} ELSE {}) \cup (IF b \in T THEN {b} ELSE {})
            \cup (IF c \in T THEN {c} ELSE {})
    OBVIOUS
  <2> QED
    BY <2>1
<1>6. Cardinality(T) = 2 <=> T \in {{a, b}, {a, c}, {b, c}}
  <2>1. CASE T \in {{a, b}, {a, c}, {b, c}}
    <3>1. Cardinality({a, b}) = 2 /\ Cardinality({b, c}) = 2 /\ Cardinality({a, c}) = 2
      BY <1>1
    <3> QED
      BY <2>1, <3>1
  <2>2. CASE T \in {{a}, {b}, {c}}
    <3>1. Cardinality(T) = 1
      BY <1>2, <2>2
    <3> QED
      BY <2>2, <3>1
  <2>3. CASE T = {}
    BY <1>3, <2>3
  <2>4. CASE T = {a, b, c}
    <3>1. Cardinality(T) = 3
      BY <1>4, <2>4
    <3> QED
      BY <2>4, <3>1
  <2> QED
    BY <1>5, <2>1, <2>2, <2>3, <2>4
<1> QED
  BY <1>5, <1>6

\* The weapon of a player is the x-th of three, and beats the one before it.
LEMMA WeaponOf ==
  ASSUME NEW g, PlaysRounds(g), NEW x \in 1..3,
         NEW c, c = g.lists["weapons"].items[x].v.name
  PROVE  BeatenBy(g.lists["weapons"].items, c) = g.lists["weapons"].items[x].v.beats
<1> DEFINE s == g.lists["weapons"].items
           z == CHOOSE y \in 1..Len(s) : s[y].v.name = c
<1>1. Len(s) = 3 /\ \A i, j \in 1..3 : s[i].v.name = s[j].v.name => i = j
  BY DEF PlaysRounds
<1>2. z \in 1..3 /\ s[z].v.name = s[x].v.name
  BY <1>1
<1>3. z = x
  BY <1>1, <1>2
<1> QED
  BY <1>3 DEF BeatenBy

\* Who wins is who is gathered, unless that is nobody or everybody.
LEMMA WhoWins ==
  ASSUME NEW ls, NEW g, PlaysRounds(g), NEW bf, Counted(ls, bf, g, 0)
  PROVE  LET p == ls["players"].items IN
         /\ Cardinality(Taken(ls)) = 2 =>
               /\ \A i \in 1..Len(p) : HasWon(ls, g, i) <=> \E x \in 1..3 : Beats(ls, g, i, x)
               /\ \E i \in 1..Len(p) : ~HasWon(ls, g, i)
         /\ Cardinality(Taken(ls)) # 2 =>
               /\ \A i \in 1..Len(p) : ~HasWon(ls, g, i)
               /\ \/ \A i \in 1..Len(p) : \E x \in 1..3 : Beats(ls, g, i, x)
                  \/ \A i \in 1..Len(p) : \A x \in 1..3 : ~Beats(ls, g, i, x)
<1> DEFINE p == ls["players"].items
           s == g.lists["weapons"].items
           T == Taken(ls)
           n(x) == s[x].v.name
<1>0. 1 \in 1..3 /\ 2 \in 1..3 /\ 3 \in 1..3 /\ \A x \in 1..3 : x = 1 \/ x = 2 \/ x = 3
  OBVIOUS
<1>1. /\ n(1) # n(2) /\ n(2) # n(3) /\ n(1) # n(3)
      /\ s[1].v.beats = n(3) /\ s[2].v.beats = n(1) /\ s[3].v.beats = n(2)
  <2>1. \A i, j \in 1..3 : n(i) = n(j) => i = j
    BY DEF PlaysRounds
  <2>2. s[1].v.beats = n(3) /\ s[2].v.beats = n(1) /\ s[3].v.beats = n(2)
    BY DEF PlaysRounds
  <2> HIDE DEF n
  <2>3. n(1) # n(2) /\ n(2) # n(3) /\ n(1) # n(3)
    BY <1>0, <2>1
  <2> QED
    BY <2>2, <2>3
<1>2. \A i \in 1..Len(p) : p[i].v.weapon \in T /\ \E x \in 1..3 : p[i].v.weapon = n(x)
  BY DEF Counted, Taken
<1>3. \A t \in T : \E i \in 1..Len(p) : p[i].v.weapon = t
  BY DEF Taken
<1>4. T \subseteq {n(1), n(2), n(3)}
  <2> SUFFICES ASSUME NEW t \in T PROVE t \in {n(1), n(2), n(3)}
    OBVIOUS
  <2>1. PICK i \in 1..Len(p) : p[i].v.weapon = t
    BY <1>3
  <2>2. PICK x \in 1..3 : t = n(x)
    BY <1>2, <2>1
  <2> QED
    BY <1>0, <2>2
<1>5. \A i \in 1..Len(p) : \A x \in 1..3 :
         p[i].v.weapon = n(x) => (HasWon(ls, g, i) <=> Cardinality(T) = 2 /\ s[x].v.beats \in T)
  <2> SUFFICES ASSUME NEW i \in 1..Len(p), NEW x \in 1..3, p[i].v.weapon = n(x)
               PROVE  HasWon(ls, g, i) <=> Cardinality(T) = 2 /\ s[x].v.beats \in T
    OBVIOUS
  <2>1. BeatenBy(s, p[i].v.weapon) = s[x].v.beats
    BY WeaponOf
  <2> QED
    BY <2>1 DEF HasWon
<1>6. \A i \in 1..Len(p) : \A x \in 1..3 :
         Beats(ls, g, i, x) <=> n(x) \notin T /\ p[i].v.weapon = s[x].v.beats
  BY DEF Beats
<1>7. Cardinality(T) = 2 <=> \/ n(1) \notin T /\ n(2) \in T /\ n(3) \in T
                             \/ n(2) \notin T /\ n(1) \in T /\ n(3) \in T
                             \/ n(3) \notin T /\ n(1) \in T /\ n(2) \in T
  <2> DEFINE a == n(1) 
             b == n(2) 
             c == n(3)
  <2>1. a # b /\ b # c /\ a # c /\ T \subseteq {a, b, c}
    BY <1>1, <1>4
  <2> HIDE DEF a, b, c, T
  <2>2. Cardinality(T) = 2 <=> \/ a \notin T /\ b \in T /\ c \in T
                               \/ b \notin T /\ a \in T /\ c \in T
                               \/ c \notin T /\ a \in T /\ b \in T
    BY <2>1, TwoTaken
  <2> QED
    BY <2>2 DEF a, b, c
<1> HIDE DEF T, n
<1>8. \A i \in 1..Len(p) : p[i].v.weapon = n(1) \/ p[i].v.weapon = n(2) \/ p[i].v.weapon = n(3)
  BY <1>0, <1>2
<1>9. \A i \in 1..Len(p) :
         (\E x \in 1..3 : Beats(ls, g, i, x))
            <=> \/ n(1) \notin T /\ p[i].v.weapon = n(3)
                \/ n(2) \notin T /\ p[i].v.weapon = n(1)
                \/ n(3) \notin T /\ p[i].v.weapon = n(2)
  <2>1. \A i \in 1..Len(p) :
           /\ Beats(ls, g, i, 1) <=> n(1) \notin T /\ p[i].v.weapon = n(3)
           /\ Beats(ls, g, i, 2) <=> n(2) \notin T /\ p[i].v.weapon = n(1)
           /\ Beats(ls, g, i, 3) <=> n(3) \notin T /\ p[i].v.weapon = n(2)
    BY <1>0, <1>1, <1>6
  <2> QED
    BY <1>0, <2>1
<1>10. \A i \in 1..Len(p) :
         HasWon(ls, g, i) <=> /\ Cardinality(T) = 2
                              /\ \/ p[i].v.weapon = n(1) /\ n(3) \in T
                                 \/ p[i].v.weapon = n(2) /\ n(1) \in T
                                 \/ p[i].v.weapon = n(3) /\ n(2) \in T
  BY <1>1, <1>5, <1>8
<1>11. CASE Cardinality(T) = 2
  <2>1. \A i \in 1..Len(p) : HasWon(ls, g, i) <=> \E x \in 1..3 : Beats(ls, g, i, x)
    BY <1>1, <1>2, <1>7, <1>8, <1>9, <1>10, <1>11
  <2>2. \E t \in T : ~ \/ t = n(1) /\ n(3) \in T
                       \/ t = n(2) /\ n(1) \in T
                       \/ t = n(3) /\ n(2) \in T
    BY <1>1, <1>7, <1>11
  <2>3. \E i \in 1..Len(p) : ~HasWon(ls, g, i)
    BY <1>3, <1>10, <2>2
  <2> QED
    BY <1>11, <2>1, <2>3 DEF T
<1>12. CASE Cardinality(T) # 2
  <2>1. \A i \in 1..Len(p) : ~HasWon(ls, g, i)
    BY <1>10, <1>12
  <2>2. CASE n(1) \in T /\ n(2) \in T /\ n(3) \in T
    BY <1>6, <1>9, <1>12, <2>1, <2>2 DEF T
  <2>3. CASE ~(n(1) \in T /\ n(2) \in T /\ n(3) \in T)
    <3>1. \/ n(1) \notin T /\ n(2) \notin T
          \/ n(1) \notin T /\ n(3) \notin T
          \/ n(2) \notin T /\ n(3) \notin T
      BY <1>7, <1>12, <2>3
    <3>2. \A i \in 1..Len(p) : \E x \in 1..3 : Beats(ls, g, i, x)
      BY <1>2, <1>8, <1>9, <3>1
    <3> QED
      BY <1>12, <2>1, <3>2 DEF T
  <2> QED
    BY <2>2, <2>3
<1> QED
  BY <1>11, <1>12 DEF T

\* Winners are different players, so they are as many as there are players just
\* when everybody is one.
LEMMA AllWinners ==
  ASSUME NEW ls, IsSequence(ls["players"].items), IsSequence(ls["winners"].items), Listed(ls)
  PROVE  LET p == ls["players"].items
             w == ls["winners"].items IN
         Len(w) = Len(p) <=> \A i \in 1..Len(p) : IsWinner(ls, i, Len(w))
<1> DEFINE n == Len(ls["players"].items)
           w == ls["winners"].items
           m == Len(w)
           f == [j \in 1..m |-> w[j].at]
<1>1. n \in Nat /\ m \in Nat
  BY AnySequence
<1>2. /\ \A j \in 1..m : w[j].at \in 1..n
      /\ \A i, j \in 1..m : w[i].at = w[j].at => i = j
  BY DEF Listed
<1>3. \A i : IsWinner(ls, i, m) <=> \E j \in 1..m : w[j].at = i
  BY DEF IsWinner
<1> HIDE DEF n, m, w
<1>4. f \in Injection(1..m, 1..n)
  BY <1>2 DEF Injection, IsInjective
<1>5. IsFiniteSet(1..n) /\ Cardinality(1..n) = n /\ Cardinality(1..m) = m
  BY <1>1, FS_Interval
<1>6. m = n <=> f \in Surjection(1..m, 1..n)
  BY <1>4, <1>5, FS_Injection
<1>7. f \in Surjection(1..m, 1..n) <=> \A i \in 1..n : \E j \in 1..m : w[j].at = i
  BY <1>2 DEF Surjection
<1> QED
  BY <1>3, <1>6, <1>7 DEF n, m, w

LEMMA NobodyYet ==
  ASSUME NEW ls
  PROVE  \A i : ~IsWinner(ls, i, 0)
  BY DEF IsWinner

LEMMA CountedStays ==
  ASSUME NEW ls, NEW bf, NEW g, Counted(ls, bf, g, 0),
         NEW ms, ms["players"] = ls["players"]
  PROVE  Counted(ms, bf, g, 0)
  BY NobodyYet DEF Counted

LEMMA NoWinners ==
  ASSUME NEW ls, NEW bf, NEW g, Counted(ls, bf, g, 0), ls["winners"].items = <<>>
  PROVE  Gathered(ls, bf, g, 0)
<1>1. Len(ls["winners"].items) = 0
  OBVIOUS
<1>2. Listed(ls)
  BY <1>1 DEF Listed
<1>3. \A i : ~IsWinner(ls, i, Len(ls["winners"].items))
  BY <1>1, NobodyYet
<1> QED
  BY <1>2, <1>3 DEF Gathered

LEMMA OneMore ==
  ASSUME NEW k \in 0..2, NEW x
  PROVE  x \in 1..(k + 1) <=> x \in 1..k \/ x = k + 1
  OBVIOUS

\* Somebody has the weapon.
LEMMA GatheredNobody ==
  ASSUME NEW ls, NEW bf, NEW g, NEW k \in 0..2, Gathered(ls, bf, g, k),
         g.lists["weapons"].items[k + 1].v.name \in Taken(ls)
  PROVE  Gathered(ls, bf, g, k + 1)
<1>1. \A i : ~Beats(ls, g, i, k + 1)
  BY DEF Beats
<1>2. \A i : (\E x \in 1..k : Beats(ls, g, i, x)) <=> \E x \in 1..(k + 1) : Beats(ls, g, i, x)
  BY <1>1, OneMore
<1> QED
  BY <1>2 DEF Gathered

\* Nobody has it, and b are those whose weapon it beats.
Reached(b, p, beats) ==
    /\ \A j \in 1..Len(b) : b[j] = Pointer(p.buf, b[j].at) /\ b[j].at \in 1..Len(p.items)
    /\ \A i, j \in 1..Len(b) : b[i].at = b[j].at => i = j
    /\ \A i \in 1..Len(p.items) : (\E j \in 1..Len(b) : b[j].at = i) <=> p.items[i].v.weapon = beats

LEMMA GatheredMore ==
  ASSUME NEW ls, NEW bf, NEW g, PlaysRounds(g), NEW k \in 0..2, Gathered(ls, bf, g, k),
         IsSequence(ls["winners"].items),
         NEW b, IsSequence(b),
         Reached(b, ls["players"], g.lists["weapons"].items[k + 1].v.beats),
         g.lists["weapons"].items[k + 1].v.name \notin Taken(ls),
         NEW ms, ms["players"] = ls["players"],
         ms["winners"].items = ls["winners"].items \o b
  PROVE  Gathered(ms, bf, g, k + 1)
<1> DEFINE p == ls["players"]
           s == g.lists["weapons"].items
           w == ls["winners"].items
           v == ms["winners"].items
           m == Len(w)
           n == Len(b)
<1>1. /\ m \in Nat /\ n \in Nat /\ Len(v) = m + n
      /\ \A j \in 1..m : v[j] = w[j]
      /\ \A j \in 1..n : v[m + j] = b[j]
  <2>1. IsSequence(w) /\ v = w \o b
    OBVIOUS
  <2> HIDE DEF v, w
  <2>2. Len(w) \in Nat /\ Len(b) \in Nat
    BY <2>1, AnySequence
  <2>3. /\ Len(w \o b) = Len(w) + Len(b)
        /\ \A i \in 1..Len(w) : (w \o b)[i] = w[i]
        /\ \A i \in 1..Len(b) : (w \o b)[Len(w) + i] = b[i]
    BY ONLY <2>1, IsSequence(b), JoinedSequences
  <2> QED
    BY <2>1, <2>2, <2>3
<1>2. Counted(ms, bf, g, 0)
  BY CountedStays DEF Gathered
<1>3. Taken(ms) = Taken(ls) /\ \A i, x : Beats(ms, g, i, x) <=> Beats(ls, g, i, x)
  BY DEF Taken, Beats
<1>4. \A j \in 1..Len(v) : j \in 1..m \/ (j - m \in 1..n /\ v[j] = b[j - m])
  <2> SUFFICES ASSUME NEW j \in 1..Len(v), j \notin 1..m
               PROVE  j - m \in 1..n /\ v[j] = b[j - m]
    OBVIOUS
  <2> HIDE DEF v, m, n
  <2>1. j - m \in 1..n /\ j = m + (j - m)
    BY <1>1
  <2>2. v[m + (j - m)] = b[j - m]
    BY <1>1, <2>1
  <2> QED
    BY <2>1, <2>2
<1>5. /\ \A j \in 1..m : w[j] = Pointer(p.buf, w[j].at) /\ w[j].at \in 1..Len(p.items)
      /\ \A i, j \in 1..m : w[i].at = w[j].at => i = j
      /\ \A i \in 1..Len(p.items) :
            (\E j \in 1..m : w[j].at = i) <=> \E x \in 1..k : Beats(ls, g, i, x)
  BY DEF Gathered, Listed, IsWinner
<1>6. /\ \A j \in 1..n : b[j] = Pointer(p.buf, b[j].at) /\ b[j].at \in 1..Len(p.items)
      /\ \A i, j \in 1..n : b[i].at = b[j].at => i = j
      /\ \A i \in 1..Len(p.items) :
            (\E j \in 1..n : b[j].at = i) <=> p.items[i].v.weapon = s[k + 1].v.beats
  BY DEF Reached
<1>7. \A i \in 1..m, j \in 1..n : w[i].at # b[j].at
  <2> SUFFICES ASSUME NEW i \in 1..m, NEW j \in 1..n, w[i].at = b[j].at PROVE FALSE
    OBVIOUS
  <2>1. w[i].at \in 1..Len(p.items)
    BY <1>5
  <2>2. p.items[w[i].at].v.weapon = s[k + 1].v.beats
    BY <1>6, <2>1
  <2>3. PICK x \in 1..k : Beats(ls, g, w[i].at, x)
    BY <1>5, <2>1
  <2>4. p.items[w[i].at].v.weapon = s[x].v.beats
    BY <2>3 DEF Beats
  <2>5. /\ x \in 1..3 /\ k + 1 \in 1..3 /\ x # k + 1
        /\ 1 \in 1..3 /\ 2 \in 1..3 /\ 3 \in 1..3 /\ \A y \in 1..3 : y = 1 \/ y = 2 \/ y = 3
    OBVIOUS
  <2>6. \A y, z \in 1..3 : s[y].v.name = s[z].v.name => y = z
    BY DEF PlaysRounds
  <2>7. s[1].v.beats = s[3].v.name /\ s[2].v.beats = s[1].v.name /\ s[3].v.beats = s[2].v.name
    BY DEF PlaysRounds
  <2> HIDE DEF s
  <2>8. s[x].v.beats # s[k + 1].v.beats
    <3>1. s[1].v.name # s[2].v.name /\ s[2].v.name # s[3].v.name /\ s[1].v.name # s[3].v.name
      BY <2>5, <2>6
    <3> QED
      BY <2>5, <2>7, <3>1
  <2> QED
    BY <2>2, <2>4, <2>8
<1>8. \A i \in 1..Len(p.items) :
         (\E j \in 1..Len(v) : v[j].at = i) <=> \/ \E j \in 1..m : w[j].at = i
                                                \/ \E j \in 1..n : b[j].at = i
  <2>1. \A j \in 1..m : j \in 1..Len(v)
    BY <1>1
  <2>2. \A j \in 1..n : m + j \in 1..Len(v)
    BY <1>1
  <2> SUFFICES ASSUME NEW i
               PROVE  (\E j \in 1..Len(v) : v[j].at = i) <=> \/ \E j \in 1..m : w[j].at = i
                                                            \/ \E j \in 1..n : b[j].at = i
    OBVIOUS
  <2> HIDE DEF v, w, p, m, n
  <2>3. ASSUME NEW j \in 1..Len(v), v[j].at = i
        PROVE  (\E h \in 1..m : w[h].at = i) \/ \E h \in 1..n : b[h].at = i
    BY <1>1, <1>4, <2>3
  <2>4. ASSUME NEW j \in 1..m, w[j].at = i PROVE \E h \in 1..Len(v) : v[h].at = i
    BY <1>1, <2>1, <2>4
  <2>5. ASSUME NEW j \in 1..n, b[j].at = i PROVE \E h \in 1..Len(v) : v[h].at = i
    BY <1>1, <2>2, <2>5
  <2> QED
    BY <2>3, <2>4, <2>5
<1>9. \A i \in 1..Len(p.items) :
         Beats(ls, g, i, k + 1) <=> p.items[i].v.weapon = s[k + 1].v.beats
  BY DEF Beats
<1>10. \A i : (\E x \in 1..(k + 1) : Beats(ls, g, i, x))
                 <=> (\E x \in 1..k : Beats(ls, g, i, x)) \/ Beats(ls, g, i, k + 1)
  BY OneMore
<1>11. \A i \in 1..Len(p.items) :
          (\E j \in 1..Len(v) : v[j].at = i) <=> \E x \in 1..(k + 1) : Beats(ls, g, i, x)
  BY <1>5, <1>6, <1>8, <1>9, <1>10
<1>12. \A j \in 1..Len(v) : v[j] = Pointer(p.buf, v[j].at) /\ v[j].at \in 1..Len(p.items)
  <2> SUFFICES ASSUME NEW j \in 1..Len(v)
               PROVE  v[j] = Pointer(p.buf, v[j].at) /\ v[j].at \in 1..Len(p.items)
    OBVIOUS
  <2> HIDE DEF v, w, p, m, n
  <2>1. CASE j \in 1..m
    <3>1. v[j] = w[j]
      BY <1>1, <2>1
    <3> QED
      BY <1>5, <2>1, <3>1
  <2>2. CASE j - m \in 1..n /\ v[j] = b[j - m]
    BY <1>6, <2>2
  <2> QED
    BY <1>4, <2>1, <2>2
<1>13. \A i, j \in 1..Len(v) : v[i].at = v[j].at => i = j
  <2> SUFFICES ASSUME NEW i \in 1..Len(v), NEW j \in 1..Len(v), v[i].at = v[j].at PROVE i = j
    OBVIOUS
  <2> HIDE DEF v, w, p, m, n
  <2>1. CASE i \in 1..m /\ j \in 1..m
    <3>1. v[i] = w[i] /\ v[j] = w[j]
      BY <1>1, <2>1
    <3> QED
      BY <1>5, <2>1, <3>1
  <2>2. CASE i \in 1..m /\ j - m \in 1..n /\ v[j] = b[j - m]
    <3>1. v[i] = w[i]
      BY <1>1, <2>2
    <3> QED
      BY <1>7, <2>2, <3>1
  <2>3. CASE j \in 1..m /\ i - m \in 1..n /\ v[i] = b[i - m]
    <3>1. v[j] = w[j]
      BY <1>1, <2>3
    <3> QED
      BY <1>7, <2>3, <3>1
  <2>4. CASE i - m \in 1..n /\ v[i] = b[i - m] /\ j - m \in 1..n /\ v[j] = b[j - m]
    <3>1. i - m = j - m /\ i \in Int /\ j \in Int
      BY <1>1, <1>6, <2>4
    <3> QED
      BY <1>1, <3>1
  <2> QED
    BY <1>4, <2>1, <2>2, <2>3, <2>4
<1>14. Listed(ms)
  BY <1>12, <1>13 DEF Listed
<1> QED
  BY <1>2, <1>3, <1>11, <1>14 DEF Gathered, IsWinner

\* All weapons have been visited.
LEMMA AllGathered ==
  ASSUME NEW ls, NEW bf, NEW g, PlaysRounds(g), Gathered(ls, bf, g, 3),
         IsSequence(ls["players"].items), IsSequence(ls["winners"].items)
  PROVE  LET m == Len(ls["winners"].items)
             n == Len(ls["players"].items) IN
         IF m = n \/ m = 0 THEN Scored(ls, bf, g) ELSE Counting(ls, bf, g, 0)
<1> DEFINE m == Len(ls["winners"].items)
           n == Len(ls["players"].items)
<1>1. Counted(ls, bf, g, 0) /\ Listed(ls)
      /\ \A i \in 1..n : IsWinner(ls, i, m) <=> \E x \in 1..3 : Beats(ls, g, i, x)
  BY DEF Gathered
<1>2. m = n <=> \A i \in 1..n : IsWinner(ls, i, m)
  BY <1>1, AllWinners
<1>3. m = 0 <=> \A i \in 1..n : ~IsWinner(ls, i, m)
  <2>1. m \in Nat /\ \A j \in 1..m : ls["winners"].items[j].at \in 1..n
    BY <1>1, AnySequence DEF Listed
  <2>2. CASE m = 0
    BY <2>2, NobodyYet
  <2>3. CASE m # 0
    <3>1. 1 \in 1..m
      BY <2>1, <2>3
    <3>2. IsWinner(ls, ls["winners"].items[1].at, m)
      BY <3>1 DEF IsWinner
    <3> QED
      BY <2>1, <2>3, <3>1, <3>2
  <2> QED
    BY <2>2, <2>3
<1>4. CASE Cardinality(Taken(ls)) = 2
  <2>1. /\ \A i \in 1..n : HasWon(ls, g, i) <=> \E x \in 1..3 : Beats(ls, g, i, x)
        /\ \E i \in 1..n : ~HasWon(ls, g, i)
    BY <1>1, <1>4, WhoWins
  <2>2. \A i \in 1..n : HasWon(ls, g, i) <=> IsWinner(ls, i, m)
    BY <1>1, <2>1
  <2>3. m # n
    BY <1>2, <2>1, <2>2
  <2>4. CASE m = 0
    <3>1. \A i \in 1..n : ~HasWon(ls, g, i)
      BY <1>3, <2>2, <2>4
    <3> QED
      BY <1>1, <2>4, <3>1, NobodyYet DEF Scored, Counted
  <2>5. CASE m # 0
    BY <1>1, <2>2, <2>3, <2>5 DEF Counting
  <2> QED
    BY <2>4, <2>5
<1>5. CASE Cardinality(Taken(ls)) # 2
  <2>1. /\ \A i \in 1..n : ~HasWon(ls, g, i)
        /\ \/ \A i \in 1..n : \E x \in 1..3 : Beats(ls, g, i, x)
           \/ \A i \in 1..n : \A x \in 1..3 : ~Beats(ls, g, i, x)
    BY <1>1, <1>5, WhoWins
  <2>2. m = n \/ m = 0
    BY <1>1, <1>2, <1>3, <2>1
  <2> QED
    BY <1>1, <2>1, <2>2, NobodyYet DEF Scored, Counted
<1> QED
  BY <1>4, <1>5

LEMMA AllCounted ==
  ASSUME NEW ls, NEW bf, NEW g, Counting(ls, bf, g, Len(ls["winners"].items))
  PROVE  Scored(ls, bf, g)
  BY DEF Counting, Counted, Scored

\* A win of the next winner is counted.
Winning(x) == Value([x.v EXCEPT !.wins = @ + 1])

LEMMA CountedOne ==
  ASSUME NEW ls, NEW bf, NEW g, NEW k \in Nat, Counting(ls, bf, g, k), Fair(ls, g),
         k + 1 <= Len(ls["winners"].items), Len(ls["winners"].items) \in Nat,
         NEW i0, i0 = ls["winners"].items[k + 1].at,
         NEW ms, ms["winners"] = ls["winners"], ms["weapons"] = ls["weapons"],
         ms["players"].buf = ls["players"].buf,
         Len(ms["players"].items) = Len(ls["players"].items),
         \A i \in 1..Len(ls["players"].items) :
            ms["players"].items[i] =
               IF i = i0 THEN Winning(ls["players"].items[i]) ELSE ls["players"].items[i]
  PROVE  Fair(ms, g) /\ Counting(ms, bf, g, k + 1)
<1> DEFINE p == ls["players"].items
           q == ms["players"].items
           w == ls["winners"].items
           n == Len(p)
<1>1. \A i \in 1..n : /\ p[i].is = "value" /\ p[i].v.wins \in Nat
                      /\ p[i].v = [name |-> p[i].v.name, weapon |-> p[i].v.weapon,
                                   wins |-> p[i].v.wins]
  BY DEF Fair
<1>2. Len(q) = n /\ \A i \in 1..n :
                       q[i] = IF i = i0 THEN Value([p[i].v EXCEPT !.wins = @ + 1]) ELSE p[i]
  BY DEF Winning
<1>3. \A i \in 1..n :
         /\ q[i].is = "value"
         /\ q[i].v = [name |-> p[i].v.name, weapon |-> p[i].v.weapon,
                      wins |-> IF i = i0 THEN p[i].v.wins + 1 ELSE p[i].v.wins]
  <2> SUFFICES ASSUME NEW i \in 1..n
               PROVE  /\ q[i].is = "value"
                      /\ q[i].v = [name |-> p[i].v.name, weapon |-> p[i].v.weapon,
                                   wins |-> IF i = i0 THEN p[i].v.wins + 1 ELSE p[i].v.wins]
    OBVIOUS
  <2> DEFINE x == p[i].v
  <2>1. x = [name |-> x.name, weapon |-> x.weapon, wins |-> x.wins] /\ p[i].is = "value"
    BY <1>1
  <2>2. q[i] = IF i = i0 THEN Value([x EXCEPT !.wins = @ + 1]) ELSE p[i]
    BY <1>2
  <2> HIDE DEF x, p, q
  <2>3. [x EXCEPT !.wins = @ + 1] = [name |-> x.name, weapon |-> x.weapon, wins |-> x.wins + 1]
    BY ONLY <2>1
  <2>4. CASE i = i0
    <3>1. q[i] = Value([name |-> x.name, weapon |-> x.weapon, wins |-> x.wins + 1])
      BY <2>2, <2>3, <2>4
    <3>2. /\ q[i].is = "value"
          /\ q[i].v = [name |-> x.name, weapon |-> x.weapon, wins |-> x.wins + 1]
      BY <3>1 DEF Value
    <3> QED
      BY <2>4, <3>2 DEF x
  <2>5. CASE i # i0
    BY <2>1, <2>2, <2>5 DEF x
  <2> QED
    BY <2>4, <2>5
<1>4. \A i \in 1..n : q[i].v.weapon = p[i].v.weapon /\ q[i].v.wins \in Nat
                      /\ q[i].v.wins = p[i].v.wins + (IF i = i0 THEN 1 ELSE 0)
  <2> SUFFICES ASSUME NEW i \in 1..n
               PROVE  q[i].v.weapon = p[i].v.weapon /\ q[i].v.wins \in Nat
                      /\ q[i].v.wins = p[i].v.wins + (IF i = i0 THEN 1 ELSE 0)
    OBVIOUS
  <2>1. q[i].v = [name |-> p[i].v.name, weapon |-> p[i].v.weapon,
                  wins |-> IF i = i0 THEN p[i].v.wins + 1 ELSE p[i].v.wins]
    BY <1>3
  <2>2. p[i].v.wins \in Nat
    BY <1>1
  <2> HIDE DEF p, q, n
  <2>3. /\ q[i].v.weapon = p[i].v.weapon
        /\ q[i].v.wins = IF i = i0 THEN p[i].v.wins + 1 ELSE p[i].v.wins
    BY <2>1
  <2> QED
    BY <2>2, <2>3
<1>5. Fair(ms, g)
  <2> SUFFICES ASSUME NEW i \in 1..n
               PROVE  /\ q[i].is = "value" /\ q[i].v.wins \in Nat
                      /\ q[i].v = [name |-> q[i].v.name, weapon |-> q[i].v.weapon,
                                   wins |-> q[i].v.wins]
    BY <1>2 DEF Fair
  <2> DEFINE v == q[i].v
             ws == IF i = i0 THEN p[i].v.wins + 1 ELSE p[i].v.wins
  <2>1. q[i].is = "value" /\ v.wins \in Nat
        /\ v = [name |-> p[i].v.name, weapon |-> p[i].v.weapon, wins |-> ws]
    BY <1>3, <1>4
  <2>2. v = [name |-> v.name, weapon |-> v.weapon, wins |-> v.wins]
    <3> HIDE DEF v, ws, p
    <3> QED
      BY ONLY <2>1
  <2> HIDE DEF p, q, ws
  <2> QED
    BY ONLY <2>1, <2>2
<1>6. Taken(ms) = Taken(ls)
  <2> HIDE DEF p, q, n
  <2>0. \A i \in 1..n : q[i].v.weapon = p[i].v.weapon
    BY <1>4
  <2>1. {q[i].v.weapon : i \in 1..n} = {p[i].v.weapon : i \in 1..n}
    BY ONLY <2>0
  <2> QED
    BY <1>2, <2>1 DEF Taken, p, q, n
<1>7. \A i \in 1..n : HasWon(ms, g, i) <=> HasWon(ls, g, i)
  BY <1>4, <1>6 DEF HasWon
<1>8. \A i : /\ IsWinner(ms, i, Len(w)) <=> IsWinner(ls, i, Len(w))
             /\ IsWinner(ms, i, k + 1) <=> IsWinner(ls, i, k) \/ i = i0
             /\ IsWinner(ls, i, k) => i # i0
  <2>1. \A j : j \in 1..(k + 1) <=> j \in 1..k \/ j = k + 1
    OBVIOUS
  <2>2. \A i : IsWinner(ms, i, k + 1) <=> IsWinner(ls, i, k) \/ i = i0
    BY <2>1 DEF IsWinner
  <2>3. \A j \in 1..k : w[j].at # i0
    <3>1. \A h, j \in 1..Len(w) : w[h].at = w[j].at => h = j
      BY DEF Counting, Listed
    <3>2. k + 1 \in 1..Len(w) /\ \A j \in 1..k : j \in 1..Len(w) /\ j # k + 1
      OBVIOUS
    <3> QED
      BY <3>1, <3>2
  <2> QED
    BY <2>2, <2>3 DEF IsWinner
<1>9. /\ Counted(ls, bf, g, k)
      /\ \A i \in 1..n : IsWinner(ls, i, Len(w)) <=> HasWon(ls, g, i)
  BY DEF Counting
<1>10. Counted(ms, bf, g, k + 1)
  <2> SUFFICES ASSUME NEW i \in 1..n
               PROVE  /\ \E x \in 1..3 : q[i].v.weapon = g.lists["weapons"].items[x].v.name
                      /\ q[i].v.wins = IF IsWinner(ms, i, k + 1) THEN bf[i] + 1 ELSE bf[i]
    BY <1>2 DEF Counted
  <2>1. /\ \E x \in 1..3 : p[i].v.weapon = g.lists["weapons"].items[x].v.name
        /\ p[i].v.wins = IF IsWinner(ls, i, k) THEN bf[i] + 1 ELSE bf[i]
    BY <1>9 DEF Counted
  <2> HIDE DEF p, q, n
  <2>2. CASE i = i0
    <3>1. IsWinner(ms, i, k + 1)
      BY <1>8, <2>1, <2>2
    <3>2. q[i].v.wins = p[i].v.wins + 1 /\ p[i].v.wins \in Nat
      BY <1>1, <1>4, <2>2
    <3>3. ~IsWinner(ls, i, k)
      BY <1>8, <2>2
    <3>4. p[i].v.wins = bf[i]
      BY <2>1, <3>3
    <3>5. q[i].v.wins = bf[i] + 1
      BY <3>2, <3>4
    <3> QED
      BY <1>4, <2>1, <3>1, <3>5
  <2>3. CASE i # i0
    <3>1. IsWinner(ms, i, k + 1) <=> IsWinner(ls, i, k)
      BY <1>8, <2>3
    <3>2. q[i].v.wins = p[i].v.wins
      <4>1. q[i].v.wins = p[i].v.wins + 0 /\ p[i].v.wins \in Nat
        BY <1>1, <1>4, <2>3
      <4> QED
        BY <4>1
    <3> QED
      BY <1>4, <2>1, <3>1, <3>2
  <2> QED
    BY <2>2, <2>3
<1>11. Listed(ms)
  BY DEF Counting, Listed
<1> QED
  BY <1>2, <1>5, <1>7, <1>8, <1>9, <1>10, <1>11 DEF Counting

\* Everybody chooses.
Armed(x, c) == Value([x.v EXCEPT !.weapon = c])

LEMMA Chosen ==
  ASSUME NEW ls, NEW g, Fair(ls, g), IsSequence(ls["players"].items),
         NEW c, \A i \in 1..Len(ls["players"].items) :
                   \E x \in 1..3 : c[i] = g.lists["weapons"].items[x].v.name,
         NEW ms, ms["weapons"] = ls["weapons"],
         Len(ms["players"].items) = Len(ls["players"].items),
         \A i \in 1..Len(ls["players"].items) :
            ms["players"].items[i] = Armed(ls["players"].items[i], c[i]),
         NEW bf, \A i \in 1..Len(ls["players"].items) : bf[i] = ls["players"].items[i].v.wins
  PROVE  Fair(ms, g) /\ Counted(ms, bf, g, 0)
<1> DEFINE p == ls["players"].items
           q == ms["players"].items
           n == Len(p)
<1>1. \A i \in 1..n : /\ p[i].is = "value" /\ p[i].v.wins \in Nat
                      /\ p[i].v = [name |-> p[i].v.name, weapon |-> p[i].v.weapon,
                                   wins |-> p[i].v.wins]
  BY DEF Fair
<1>2. n \in Nat /\ Len(q) = n /\ \A i \in 1..n : q[i] = Value([p[i].v EXCEPT !.weapon = c[i]])
  BY AnySequence DEF Armed
<1>3. \A i \in 1..n :
         /\ q[i].is = "value"
         /\ q[i].v = [name |-> p[i].v.name, weapon |-> c[i], wins |-> p[i].v.wins]
  <2> SUFFICES ASSUME NEW i \in 1..n
               PROVE  /\ q[i].is = "value"
                      /\ q[i].v = [name |-> p[i].v.name, weapon |-> c[i], wins |-> p[i].v.wins]
    OBVIOUS
  <2> DEFINE x == p[i].v
  <2>1. x = [name |-> x.name, weapon |-> x.weapon, wins |-> x.wins] /\ p[i].is = "value"
    BY <1>1
  <2>2. q[i] = Value([x EXCEPT !.weapon = c[i]])
    BY <1>2
  <2> HIDE DEF x, p, q
  <2>3. [x EXCEPT !.weapon = c[i]] = [name |-> x.name, weapon |-> c[i], wins |-> x.wins]
    BY <2>1
  <2> QED
    BY <2>2, <2>3 DEF Value, x
<1>4. \A i \in 1..n : q[i].v.weapon = c[i] /\ q[i].v.wins = p[i].v.wins
  <2> SUFFICES ASSUME NEW i \in 1..n PROVE q[i].v.weapon = c[i] /\ q[i].v.wins = p[i].v.wins
    OBVIOUS
  <2>1. q[i].v = [name |-> p[i].v.name, weapon |-> c[i], wins |-> p[i].v.wins]
    BY <1>3
  <2> HIDE DEF p, q, n
  <2> QED
    BY <2>1
<1>6. Fair(ms, g)
  <2> SUFFICES ASSUME NEW i \in 1..n
               PROVE  /\ q[i].is = "value" /\ q[i].v.wins \in Nat
                      /\ q[i].v = [name |-> q[i].v.name, weapon |-> q[i].v.weapon,
                                   wins |-> q[i].v.wins]
    BY <1>2 DEF Fair
  <2>1. /\ q[i].is = "value" /\ q[i].v.wins \in Nat
        /\ q[i].v = [name |-> p[i].v.name, weapon |-> c[i], wins |-> p[i].v.wins]
    BY <1>1, <1>3, <1>4
  <2> HIDE DEF p, q, n
  <2> QED
    BY <2>1
<1>7. \A i \in 1..n : q[i].v.wins = bf[i]
  BY <1>4
<1>8. \A i \in 1..n : \E x \in 1..3 : q[i].v.weapon = g.lists["weapons"].items[x].v.name
  BY <1>4
<1>9. \A i \in 1..Len(q) :
         q[i].v.wins = IF IsWinner(ms, i, 0) THEN bf[i] + 1 ELSE bf[i]
  BY <1>2, <1>7, NobodyYet
<1> QED
  BY <1>2, <1>6, <1>8, <1>9 DEF Counted


-----------------------------------------------------------------------------
(* Steps of a round *)

\* What the frames are after a rule, after the begin of others, after a visit and
\* after the end.
LEMMA FramesAdvanced ==
  ASSUME NEW fixed, NEW views, NEW parts, Inv(fixed, views, parts),
         frames # <<>>, Top.pos <= Len(Top.rules)
  PROVE  LET n == Len(frames) IN
         /\ n \in Nat \ {0} /\ IsSequence(Advanced) /\ Len(Advanced) = n
         /\ \A i \in 1..n : i # n => Advanced[i] = frames[i]
         /\ Advanced[n].rules = frames[n].rules /\ Advanced[n].loop = frames[n].loop
         /\ Advanced[n].pos = frames[n].pos + 1
<1> DEFINE n == Len(frames)
           f == frames[n]
           h == [f EXCEPT !.pos = @ + 1]
<1>1. IsSequence(frames) /\ n \in Nat \ {0} /\ n \in 1..Len(frames)
  BY AnySequence, EmptySequence DEF Inv, FramesOK
<1>2. f = [rules |-> f.rules, pos |-> f.pos, loop |-> f.loop]
  BY <1>1 DEF Inv, FramesOK, FrameOK
<1>3. Advanced = [frames EXCEPT ![n] = h]
  BY DEF Advanced
<1> DEFINE r == f.rules
           c == f.pos
           l == f.loop
<1>4. f = [rules |-> r, pos |-> c, loop |-> l]
  BY <1>2
<1>5. h.rules = r /\ h.loop = l /\ h.pos = c + 1
  <2> HIDE DEF r, c, l
  <2> QED
    BY <1>4
<1> HIDE DEF h
<1>6. /\ IsSequence(Advanced) /\ Len(Advanced) = n /\ Advanced[n] = h
      /\ \A i \in 1..n : i # n => Advanced[i] = frames[i]
  <2> DEFINE a == Advanced
  <2>1. frames = [i \in 1..n |-> frames[i]]
    BY <1>1, AnySequence
  <2>2. a = [frames EXCEPT ![n] = h]
    BY <1>3
  <2>5. n \in Nat /\ n \in 1..n
    BY <1>1
  <2> HIDE DEF a, n
  <2>3. a = [i \in 1..n |-> a[i]] /\ a[n] = h /\ \A i \in 1..n : i # n => a[i] = frames[i]
    BY <2>1, <2>2, <2>5
  <2>4. IsSequence(a) /\ Len(a) = n
    BY <2>3, <2>5, MadeSequence
  <2> QED
    BY <2>3, <2>4 DEF a, n
<1> QED
  BY <1>1, <1>5, <1>6

LEMMA FramesBegun ==
  ASSUME NEW fixed, NEW views, NEW parts, Inv(fixed, views, parts),
         frames # <<>>, Top.pos <= Len(Top.rules), NEW f
  PROVE  LET n == Len(frames)
             gs == Append(Advanced, f) IN
         /\ n \in Nat \ {0} /\ Len(gs) = n + 1 /\ gs[n + 1] = f
         /\ \A i \in 1..n : i # n => gs[i] = frames[i]
         /\ gs[n].rules = frames[n].rules /\ gs[n].loop = frames[n].loop
         /\ gs[n].pos = frames[n].pos + 1
<1> DEFINE n == Len(frames)
           gs == Append(Advanced, f)
<1>1. /\ n \in Nat \ {0} /\ IsSequence(Advanced) /\ Len(Advanced) = n
      /\ \A i \in 1..n : i # n => Advanced[i] = frames[i]
      /\ Advanced[n].rules = frames[n].rules /\ Advanced[n].loop = frames[n].loop
      /\ Advanced[n].pos = frames[n].pos + 1
  BY FramesAdvanced
<1>2. Len(gs) = n + 1 /\ gs[n + 1] = f /\ \A i \in 1..n : gs[i] = Advanced[i]
  BY <1>1, LongerSequence
<1>3. n \in 1..n
  BY <1>1
<1> HIDE DEF gs
<1> QED
  BY <1>1, <1>2, <1>3 DEF gs

LEMMA FramesVisited ==
  ASSUME NEW fixed, NEW views, NEW parts, Inv(fixed, views, parts), Visit
  PROVE  LET n == Len(frames)
             p == frames[n].loop
             f == frames'[n] IN
         /\ n \in Nat \ {0} /\ Len(frames') = n
         /\ \A i \in 1..n : i # n => frames'[i] = frames[i]
         /\ IsLoop(f) /\ f.rules = p.body /\ f.pos = 1
         /\ f.loop.query = p.query /\ f.loop.element = p.element /\ f.loop.body = p.body
         /\ f.loop.at = p.at + 1
         /\ p.at \in 1..Len(p.had)
         /\ p.element \in DOMAIN elements'
         /\ elements'[p.element] = getReference(p.had[p.at], p.buf, p.at)
         /\ lists' = lists /\ before' = before
<1> DEFINE n == Len(frames)
           p == frames[n].loop
           v == Append(p.visited, p.had[p.at])
           q == [p EXCEPT !.at = p.at + 1, !.visited = v]
           f == [rules |-> p.body, pos |-> 1, loop |-> q]
<1>1. /\ frames # <<>> /\ IsLoop(frames[n]) /\ p = Top.loop /\ ~crashed
  BY DEF Visit, Looping, IsLoop, Top
<1>2. /\ IsSequence(frames) /\ n \in Nat \ {0} /\ n \in 1..Len(frames)
  BY <1>1, AnySequence, EmptySequence DEF Inv, FramesOK
<1>3. LoopOK(p, lists, newest, fixed)
  BY <1>1, <1>2 DEF Inv, LoopsOK
<1>4. Elements(p).buf = p.buf /\ Elements(p).items = p.had
  BY <1>3, ElementsHad
<1>5. /\ IsSequence(p.had) /\ Len(p.had) \in Nat /\ p.at \in 1..(Len(p.had) + 1)
      /\ p = [buf |-> p.buf, items |-> p.items, own |-> p.own, query |-> p.query,
              element |-> p.element, body |-> p.body, at |-> p.at,
              visited |-> p.visited, had |-> p.had]
  BY <1>3, AnySequence DEF LoopOK
<1>6. p.at \in 1..Len(p.had) /\ p.at <= Len(p.had)
  <2>1. p.at # Len(p.had) + 1
    BY <1>1, <1>4 DEF Visit
  <2> QED
    BY <1>5, <2>1
<1>7. /\ elements' = Bound(p.element, getReference(p.had[p.at], p.buf, p.at))
      /\ frames' = [frames EXCEPT ![n] =
                       Frame(p.body, [p EXCEPT !.at = NextAt(p), !.visited = Append(@, p.had[p.at])])]
      /\ lists' = lists /\ before' = before
  BY <1>1, <1>4, <1>6 DEF Visit
<1>8. [p EXCEPT !.at = NextAt(p), !.visited = Append(@, p.had[p.at])] = q
  <2>1. p.visited = [p EXCEPT !.at = NextAt(p)].visited
    BY <1>5
  <2> QED
    BY <2>1 DEF NextAt
<1>9. q = [buf |-> p.buf, items |-> p.items, own |-> p.own, query |-> p.query,
           element |-> p.element, body |-> p.body, at |-> p.at + 1,
           visited |-> v, had |-> p.had]
  <2> DEFINE a == p.at + 1
  <2>1. q = [p EXCEPT !.at = a, !.visited = v]
    OBVIOUS
  <2> HIDE DEF v, p, a, q
  <2>2. q = [buf |-> p.buf, items |-> p.items, own |-> p.own, query |-> p.query,
             element |-> p.element, body |-> p.body, at |-> a,
             visited |-> v, had |-> p.had]
    BY <1>5, <2>1, VisitedLoop
  <2> QED
    BY <2>2 DEF a
<1>10. frames' = [frames EXCEPT ![n] = f]
  BY <1>7, <1>8 DEF Frame
<1>11. /\ IsLoop(f) /\ f.rules = p.body /\ f.pos = 1 /\ f.loop.query = p.query
       /\ f.loop.element = p.element /\ f.loop.body = p.body /\ f.loop.at = p.at + 1
  <2>1. f.rules = p.body /\ f.pos = 1 /\ f.loop = q
    OBVIOUS
  <2>2. q.query = p.query /\ q.element = p.element /\ q.body = p.body /\ q.at = p.at + 1
        /\ q.buf = p.buf
    <3> HIDE DEF q, p, v
    <3> QED
      BY <1>9
  <2>3. p.buf # 0
    <3>1. p.buf \in 1..newest /\ newest \in Nat
      BY <1>3 DEF LoopOK, Inv, ListsOK
    <3> QED
      BY <3>1
  <2> HIDE DEF q, f
  <2> QED
    BY <2>1, <2>2, <2>3 DEF IsLoop, NoLoop
<1> HIDE DEF f
<1>12. Len(frames') = n /\ frames'[n] = f /\ \A i \in 1..n : i # n => frames'[i] = frames[i]
  BY <1>2, <1>10, ChangedSequence
<1>13. /\ p.element \in DOMAIN elements'
       /\ elements'[p.element] = getReference(p.had[p.at], p.buf, p.at)
  BY <1>7 DEF Bound
<1> QED
  BY <1>2, <1>6, <1>7, <1>11, <1>12, <1>13

LEMMA FramesEnded ==
  ASSUME NEW fixed, NEW views, NEW parts, Inv(fixed, views, parts), EndRules
  PROVE  LET n == Len(frames)
             p == frames[n].loop IN
         /\ n \in Nat \ {0} /\ Len(frames') = n - 1
         /\ \A i \in 1..(n - 1) : frames'[i] = frames[i]
         /\ IsLoop(frames[n]) => p.at = Len(p.had) + 1
         /\ lists' = lists /\ before' = before
<1> DEFINE n == Len(frames)
           p == frames[n].loop
<1>1. frames # <<>> /\ frames' = Front(frames) /\ lists' = lists /\ before' = before
  BY DEF EndRules
<1>2. IsSequence(frames) /\ n \in Nat \ {0} /\ n \in 1..Len(frames)
  BY <1>1, AnySequence, EmptySequence DEF Inv, FramesOK
<1>3. Len(frames') = n - 1 /\ \A i \in 1..(n - 1) : frames'[i] = frames[i]
  BY <1>1, <1>2, ShorterSequence
<1>4. IsLoop(frames[n]) => p.at = Len(p.had) + 1
  <2> SUFFICES ASSUME IsLoop(frames[n]) PROVE p.at = Len(p.had) + 1
    OBVIOUS
  <2>1. LoopOK(p, lists, newest, fixed)
    BY <1>2 DEF Inv, LoopsOK
  <2>2. Elements(p).items = p.had
    BY <2>1, ElementsHad
  <2>3. p = Top.loop /\ Top.loop # NoLoop
    BY DEF Top, IsLoop
  <2> QED
    BY <2>2, <2>3 DEF EndRules
<1> QED
  BY <1>1, <1>2, <1>3, <1>4

\* What goes on next depends on the rule, or on there being none any more.
LEMMA RuleIsNext ==
  ASSUME [Next]_vars, frames # <<>>, Top.pos <= Len(Top.rules), Len(Top.rules) \in Nat,
         Top.pos \in Nat,
         Rule.rule \in {"extend", "discard", "add", "when", "choose", "foreach"}
  PROVE  \/ UNCHANGED vars
         \/ Rule.rule = "extend" /\ Extend
         \/ Rule.rule = "discard" /\ Discard
         \/ Rule.rule = "add" /\ Add
         \/ Rule.rule = "when" /\ When
         \/ Rule.rule = "choose" /\ Choose
         \/ Rule.rule = "foreach" /\ BeginForEach
<1>1. ~BodyDone(Top)
  BY DEF BodyDone
<1>2. ~Visit /\ ~EndRules
  BY <1>1 DEF Visit, Looping, EndRules
<1>3. ~Deal /\ ~ReverseList /\ ~Shuffle /\ ~Sort
  BY DEF Deal, ReverseList, Shuffle, Sort, At
<1>4. /\ Extend => Rule.rule = "extend"
      /\ Discard => Rule.rule = "discard"
      /\ Add => Rule.rule = "add"
      /\ When => Rule.rule = "when"
      /\ Choose => Rule.rule = "choose"
      /\ BeginForEach => Rule.rule = "foreach"
  BY DEF Extend, Discard, Add, When, Choose, BeginForEach, At
<1> QED
  BY <1>2, <1>3, <1>4 DEF Next, Done

LEMMA NoRuleIsNext ==
  ASSUME [Next]_vars, frames # <<>>, BodyDone(Top), Len(Top.rules) \in Nat, Top.pos \in Nat
  PROVE  \/ UNCHANGED vars
         \/ Visit /\ IsLoop(Top)
         \/ EndRules
<1>1. \A kind : ~At(kind)
  BY DEF BodyDone, At
<1>2. Visit => IsLoop(Top)
  BY DEF Visit, Looping, IsLoop
<1> QED
  BY <1>1, <1>2 DEF Next, Done, Extend, Discard, Deal, ReverseList, Shuffle, Sort, Add, When,
     Choose, BeginForEach

LEMMA Stays ==
  ASSUME Stage(frames, lists, before, elements, game), UNCHANGED vars
  PROVE  Stage(frames', lists', before', elements', game)
  BY DEF vars

\* A foreach begins.
LEMMA BegunLoop ==
  ASSUME BeginForEach
  PROVE  /\ \E f : /\ frames' = Append(Advanced, f) /\ f.rules = <<>> /\ f.pos = 1
                   /\ f.loop.query = Rule.query /\ f.loop.element = Rule.element
                   /\ f.loop.body = Rule.rules /\ f.loop.at = 1 /\ f.loop # NoLoop
         /\ lists' = lists /\ before' = before
<1> DEFINE q == Rule.query
           own == NeedsToBeSaved(q)
           loop == [buf |-> BufferOf(q), items |-> IF own THEN Result(q) ELSE <<>>,
                    own |-> own, query |-> q, element |-> Rule.element,
                    body |-> Rule.rules, at |-> 1, visited |-> <<>>, had |-> Result(q)]
           f == Frame(<<>>, loop)
<1>1. frames' = Append(Advanced, f) /\ lists' = lists /\ before' = before
  BY DEF BeginForEach
<1>2. /\ loop.query = Rule.query /\ loop.element = Rule.element
      /\ loop.body = Rule.rules /\ loop.at = 1 /\ loop # NoLoop
  <2>1. DOMAIN loop # DOMAIN NoLoop
    <3>1. "at" \in DOMAIN loop /\ "at" \notin DOMAIN NoLoop
      BY DEF NoLoop
    <3> QED
      BY <3>1
  <2> QED
    BY <2>1
<1>3. f.rules = <<>> /\ f.pos = 1 /\ f.loop = loop
  BY DEF Frame
<1> HIDE DEF f, loop
<1> QED
  BY <1>1, <1>2, <1>3


\* The rules, one after the other.
LEMMA RulesAre ==
  ASSUME NEW n, NEW W
  PROVE  /\ Len(GameRules(n, W)) = 1
         /\ GameRules(n, W)[1] = ForEach(UpFrom(n), "round", RoundRules(W))
         /\ Len(RoundRules(W)) = 4
  BY DEF GameRules, RoundRules

LEMMA RoundsRules ==
  ASSUME NEW W
  PROVE  /\ RoundRules(W)[1] = [rule |-> "choose", among |-> W]
         /\ RoundRules(W)[2] = DiscardAll("winners")
         /\ RoundRules(W)[3] = ForEach(Itself("weapons"), "weapon", WeaponRules)
         /\ RoundRules(W)[4] = Cases(<<Case("all", <<>>), Case("none", <<>>), Case("true", WonRules)>>)
  BY DEF RoundRules

LEMMA InnerRules ==
  /\ Len(WeaponRules) = 1 /\ WeaponRules[1] = Cases(<<Case("unused", GatherRules)>>)
  /\ Len(GatherRules) = 1 /\ GatherRules[1] = ExtendBy("winners", Collect("players"))
  /\ Len(WonRules) = 1 /\ WonRules[1] = ForEach(Itself("winners"), "winner", WinnerRules)
  /\ Len(WinnerRules) = 1 /\ WinnerRules[1] = AddTo("winner")
  BY DEF WeaponRules, GatherRules, WonRules, WinnerRules

\* The lists there are.
LEMMA TablesAre ==
  ASSUME NEW fixed, NEW views, NEW parts, Inv(fixed, views, parts), PlaysRounds(game)
  PROVE  /\ {"players", "weapons", "winners"} \subseteq DOMAIN lists
         /\ DOMAIN lists = DOMAIN game.lists /\ lists = [l \in DOMAIN lists |-> lists[l]]
         /\ \A l \in DOMAIN lists :
               /\ lists[l] = [buf |-> lists[l].buf, cap |-> lists[l].cap, items |-> lists[l].items]
               /\ IsSequence(lists[l].items) /\ Len(lists[l].items) \in Nat
               /\ \A m \in DOMAIN lists : lists[l].buf = lists[m].buf => l = m
<1>1. DOMAIN lists = DOMAIN game.lists /\ lists = [l \in DOMAIN lists |-> lists[l]]
  BY DEF Inv, ListsOK
<1>2. \A l \in DOMAIN lists : ListOK(l, lists, newest, fixed, views)
  BY DEF Inv, ListsOK
<1>3. \A l, m \in DOMAIN lists : lists[l].buf = lists[m].buf => l = m
  BY DEF Inv, ListsOK
<1>4. {"players", "weapons", "winners"} \subseteq DOMAIN game.lists
  BY DEF PlaysRounds
<1>5. \A l \in DOMAIN lists :
         /\ lists[l] = [buf |-> lists[l].buf, cap |-> lists[l].cap, items |-> lists[l].items]
         /\ IsSequence(lists[l].items)
  BY <1>2 DEF ListOK
<1>6. \A l \in DOMAIN lists : Len(lists[l].items) \in Nat
  BY <1>5, AnySequence
<1> QED
  BY <1>1, <1>3, <1>4, <1>5, <1>6

\* What goes on in the frame n.
LEMMA TopIs ==
  ASSUME NEW fixed, NEW views, NEW parts, Inv(fixed, views, parts),
         NEW n \in Nat \ {0}, Len(frames) = n, frames[n].rules = <<>> \/ Len(frames[n].rules) \in Nat,
         frames[n].pos \in Nat
  PROVE  /\ frames # <<>> /\ Top = frames[n]
         /\ Len(Top.rules) \in Nat /\ Top.pos \in Nat
         /\ BodyDone(Top) <=> frames[n].pos > Len(frames[n].rules)
         /\ Top.pos <= Len(Top.rules) <=> frames[n].pos <= Len(frames[n].rules)
         /\ Rule = frames[n].rules[frames[n].pos]
<1>1. frames # <<>>
  BY NoSequence
<1>2. Len(frames[n].rules) \in Nat
  BY NoSequence
<1> QED
  BY <1>1, <1>2 DEF Top, BodyDone, Rule

-----------------------------------------------------------------------------
(* Rounds begin and end *)

LEMMA RoundsBegin ==
  ASSUME NEW fixed, NEW views, NEW parts, Inv(fixed, views, parts),
         Orderly(game, fixed, views, parts), PlaysRounds(game), [Next]_vars,
         Fair(lists, game), before = <<>>, Len(frames) = 1, Root(frames, game, 1)
  PROVE  Stage(frames', lists', before', elements', game)
<1> DEFINE N == game.rules[1].query.to
           W == WeaponNames(game)
<1>1. game.rules = GameRules(N, W)
  BY DEF PlaysRounds, WeaponNames
<1> HIDE DEF N, W
<1>2. frames[1].rules = GameRules(N, W) /\ frames[1].pos = 1
  BY <1>1 DEF Root
<1>3. /\ frames # <<>> /\ Top = frames[1] /\ Len(Top.rules) \in Nat /\ Top.pos \in Nat
      /\ Top.pos <= Len(Top.rules) /\ Rule = ForEach(UpFrom(N), "round", RoundRules(W))
  <2>1. Len(GameRules(N, W)) = 1
        /\ GameRules(N, W)[1] = ForEach(UpFrom(N), "round", RoundRules(W))
    BY ONLY RulesAre
  <2> QED
    BY <1>2, <2>1, TopIs
<1>4. Rule.rule = "foreach" /\ Rule.rules = RoundRules(W)
  BY <1>3 DEF ForEach
<1>5. UNCHANGED vars \/ BeginForEach
  BY <1>3, <1>4, RuleIsNext
<1>6. CASE UNCHANGED vars
  <2>1. Stage(frames, lists, before, elements, game)
    BY DEF Stage, BeforeRounds
  <2> QED
    BY <1>6, <2>1, Stays
<1>7. CASE BeginForEach
  <2> DEFINE loop == frames'[2].loop
  <2>1. /\ \E f : /\ frames' = Append(Advanced, f) /\ f.rules = <<>> /\ f.pos = 1
                  /\ f.loop.body = RoundRules(W) /\ f.loop.at = 1 /\ f.loop # NoLoop
        /\ lists' = lists /\ before' = before
    BY <1>4, <1>7, BegunLoop
  <2>2. PICK f : /\ frames' = Append(Advanced, f) /\ f.rules = <<>> /\ f.pos = 1
                 /\ f.loop.body = RoundRules(W) /\ f.loop.at = 1 /\ f.loop # NoLoop
    BY <2>1
  <2>3. /\ Len(frames') = 2 /\ frames'[2] = f
        /\ frames'[1].rules = frames[1].rules /\ frames'[1].loop = frames[1].loop
        /\ frames'[1].pos = frames[1].pos + 1
    BY <1>3, <2>2, FramesBegun
  <2>4. Root(frames', game, 2)
    BY <1>2, <2>3 DEF Root, IsLoop
  <2>5. BeforeRounds(frames', before', game)
    BY <2>1, <2>2, <2>3, <2>4 DEF BeforeRounds, Fresh, IsLoop, IsRound, W
  <2> QED
    BY <2>1, <2>5 DEF Stage
<1> QED
  BY <1>5, <1>6, <1>7

\* The next round begins, or there is none.
LEMMA NextRound ==
  ASSUME NEW fixed, NEW views, NEW parts, Inv(fixed, views, parts),
         Orderly(game, fixed, views, parts), PlaysRounds(game), [Next]_vars,
         Fair(lists, game), Stage(frames, lists, before, elements, game),
         Len(frames) = 2, Root(frames, game, 2), IsLoop(frames[2]),
         IsRound(frames[2].loop.body, game),
         \/ frames[2].rules = <<>> /\ frames[2].pos = 1
         \/ IsRound(frames[2].rules, game) /\ frames[2].pos = 5
  PROVE  Stage(frames', lists', before', elements', game)
<1> DEFINE W == WeaponNames(game)
<1>1. \/ frames[2].rules = <<>> /\ frames[2].pos = 1
      \/ Len(frames[2].rules) = 4 /\ frames[2].pos = 5
  <2>1. Len(RoundRules(W)) = 4
    BY ONLY RulesAre
  <2>2. IsRound(frames[2].rules, game) => frames[2].rules = RoundRules(W)
    BY DEF IsRound
  <2> HIDE DEF W
  <2>3. IsRound(frames[2].rules, game) => Len(frames[2].rules) = 4
    BY ONLY <2>1, <2>2
  <2> QED
    BY <2>3
<1>2. /\ frames # <<>> /\ Top = frames[2] /\ BodyDone(Top)
      /\ Len(Top.rules) \in Nat /\ Top.pos \in Nat
  BY <1>1, NoSequence, TopIs
<1>3. UNCHANGED vars \/ Visit \/ EndRules
  BY <1>2, NoRuleIsNext
<1>4. CASE UNCHANGED vars
  BY <1>4, Stays
<1>5. CASE Visit
  <2>1. /\ Len(frames') = 2 /\ frames'[1] = frames[1] /\ IsLoop(frames'[2])
        /\ frames'[2].rules = frames[2].loop.body /\ frames'[2].pos = 1
        /\ frames'[2].loop.body = frames[2].loop.body
        /\ lists' = lists
    BY <1>5, FramesVisited
  <2>2. InRound(frames', game, 1)
    BY <2>1 DEF InRound, Root
  <2> QED
    BY <2>1, <2>2 DEF Stage, BetweenRules
<1>6. CASE EndRules
  <2>1. Len(frames') = 1 /\ frames'[1] = frames[1] /\ lists' = lists
    BY <1>6, FramesEnded
  <2> QED
    BY <2>1 DEF Stage, AfterRounds, Root
<1> QED
  BY <1>3, <1>4, <1>5, <1>6

LEMMA RoundsOver ==
  ASSUME NEW fixed, NEW views, NEW parts, Inv(fixed, views, parts),
         PlaysRounds(game), [Next]_vars,
         Fair(lists, game), Stage(frames, lists, before, elements, game), AfterRounds(frames, game)
  PROVE  Stage(frames', lists', before', elements', game)
<1>1. CASE UNCHANGED vars
  BY <1>1, Stays
<1>2. CASE Len(frames) = 0
  <2>1. frames = <<>>
    BY <1>2, EmptySequence DEF Inv, FramesOK
  <2>2. ~Visit /\ ~EndRules /\ \A kind : ~At(kind)
    BY <2>1 DEF Visit, Looping, EndRules, At
  <2> QED
    BY <1>1, <2>2 DEF Next, Done, Extend, Discard, Deal, ReverseList, Shuffle, Sort, Add, When,
       Choose, BeginForEach
<1>3. CASE Len(frames) = 1 /\ Root(frames, game, 2)
  <2>1. Len(frames[1].rules) = 1 /\ frames[1].pos = 2 /\ ~IsLoop(frames[1])
    <3> DEFINE N == game.rules[1].query.to
               W == WeaponNames(game)
    <3>1. Len(GameRules(N, W)) = 1
      BY ONLY RulesAre
    <3>2. game.rules = GameRules(N, W)
      BY DEF PlaysRounds, WeaponNames
    <3> HIDE DEF N, W
    <3> QED
      BY <1>3, <3>1, <3>2 DEF Root
  <2>2. /\ frames # <<>> /\ Top = frames[1] /\ BodyDone(Top)
        /\ Len(Top.rules) \in Nat /\ Top.pos \in Nat
    BY <1>3, <2>1, TopIs
  <2>3. UNCHANGED vars \/ EndRules
    BY <2>1, <2>2, NoRuleIsNext
  <2>4. CASE EndRules
    <3>1. Len(frames') = 0 /\ lists' = lists
      BY <1>3, <2>4, FramesEnded
    <3> QED
      BY <3>1 DEF Stage, AfterRounds
  <2> QED
    BY <1>1, <2>3, <2>4
<1> QED
  BY <1>2, <1>3 DEF AfterRounds


-----------------------------------------------------------------------------
(* The rules of a round *)

LEMMA RoundRule ==
  ASSUME NEW fixed, NEW views, NEW parts, Inv(fixed, views, parts), [Next]_vars,
         NEW pos \in 1..4, Len(frames) = 2, InRound(frames, game, pos)
  PROVE  /\ frames # <<>> /\ Top.pos <= Len(Top.rules)
         /\ Len(Top.rules) \in Nat /\ Top.pos \in Nat
         /\ Rule = RoundRules(WeaponNames(game))[pos]
<1>1. Len(RoundRules(WeaponNames(game))) = 4
  BY ONLY RulesAre
<1>2. frames[2].rules = RoundRules(WeaponNames(game)) /\ frames[2].pos = pos
  BY DEF InRound, IsRound
<1>3. Len(frames[2].rules) = 4 /\ Len(frames[2].rules) \in Nat /\ frames[2].pos \in Nat
      /\ frames[2].pos <= 4
  BY <1>1, <1>2
<1>4. /\ frames # <<>> /\ Top = frames[2] /\ Len(Top.rules) \in Nat /\ Top.pos \in Nat
      /\ Top.pos <= Len(Top.rules) <=> frames[2].pos <= Len(frames[2].rules)
      /\ Rule = frames[2].rules[frames[2].pos]
  BY <1>3, TopIs
<1> QED
  BY <1>2, <1>3, <1>4

LEMMA RoundAdvances ==
  ASSUME NEW fixed, NEW views, NEW parts, Inv(fixed, views, parts), [Next]_vars,
         NEW pos \in 1..4, Len(frames) = 2, InRound(frames, game, pos)
  PROVE  /\ frames' = Advanced => Len(frames') = 2 /\ InRound(frames', game, pos + 1)
         /\ \A f : frames' = Append(Advanced, f) =>
               Len(frames') = 3 /\ InRound(frames', game, pos + 1) /\ frames'[3] = f
<1>1. frames # <<>> /\ Top.pos <= Len(Top.rules)
  BY RoundRule
<1>2. /\ Len(Advanced) = 2 /\ Advanced[1] = frames[1]
      /\ Advanced[2].rules = frames[2].rules /\ Advanced[2].loop = frames[2].loop
      /\ Advanced[2].pos = frames[2].pos + 1
  BY <1>1, FramesAdvanced
<1>3. frames' = Advanced => Len(frames') = 2 /\ InRound(frames', game, pos + 1)
  BY <1>2 DEF InRound, Root, IsLoop
<1>4. ASSUME NEW f, frames' = Append(Advanced, f)
      PROVE  Len(frames') = 3 /\ InRound(frames', game, pos + 1) /\ frames'[3] = f
  <2>1. /\ Len(frames') = 3 /\ frames'[3] = f /\ frames'[1] = frames[1]
        /\ frames'[2].rules = frames[2].rules /\ frames'[2].loop = frames[2].loop
        /\ frames'[2].pos = frames[2].pos + 1
    BY <1>1, <1>4, FramesBegun
  <2> QED
    BY <2>1 DEF InRound, Root, IsLoop
<1> QED
  BY <1>3, <1>4

LEMMA WeaponsChosen ==
  ASSUME NEW fixed, NEW views, NEW parts, Inv(fixed, views, parts),
         PlaysRounds(game), [Next]_vars,
         Fair(lists, game), Stage(frames, lists, before, elements, game),
         Len(frames) = 2, InRound(frames, game, 1)
  PROVE  Stage(frames', lists', before', elements', game)
<1> DEFINE W == WeaponNames(game)
           s == lists["players"].items
<1>1. /\ frames # <<>> /\ Top.pos <= Len(Top.rules) /\ Len(Top.rules) \in Nat /\ Top.pos \in Nat
      /\ Rule = RoundRules(W)[1]
  BY RoundRule
<1>2. Rule = [rule |-> "choose", among |-> W]
  <2>1. RoundRules(W)[1] = [rule |-> "choose", among |-> W]
    BY ONLY RoundsRules
  <2> QED
    BY <1>1, <2>1
<1>3. Rule.rule = "choose" /\ Rule.among = W
  BY <1>2
<1>4. UNCHANGED vars \/ Choose
  BY <1>1, <1>3, RuleIsNext
<1>5. CASE UNCHANGED vars
  BY <1>5, Stays
<1>6. CASE Choose
  <2>1. PICK w \in [1..Len(s) -> W] :
           lists' = [lists EXCEPT !["players"].items =
                       [i \in 1..Len(s) |-> Value([s[i].v EXCEPT !.weapon = w[i]])]]
    BY <1>3, <1>6 DEF Choose
  <2>2. /\ frames' = Advanced /\ before' = [i \in 1..Len(s) |-> s[i].v.wins]
    BY <1>6 DEF Choose, Advance
  <2>3. /\ {"players", "weapons", "winners"} \subseteq DOMAIN lists
        /\ lists["players"] = [buf |-> lists["players"].buf, cap |-> lists["players"].cap, items |-> s]
        /\ IsSequence(s)
    BY TablesAre
  <2>4. /\ lists'["weapons"] = lists["weapons"]
        /\ lists'["players"].items = [i \in 1..Len(s) |-> Value([s[i].v EXCEPT !.weapon = w[i]])]
    <3> DEFINE t == [i \in 1..Len(s) |-> Value([s[i].v EXCEPT !.weapon = w[i]])]
    <3>1. lists' = [lists EXCEPT !["players"].items = t]
      BY <2>1
    <3> HIDE DEF t
    <3>2. lists'["players"] = [lists["players"] EXCEPT !.items = t]
          /\ lists'["weapons"] = lists["weapons"]
      BY <2>3, <3>1
    <3>3. lists'["players"].items = t
      BY <2>3, <3>2
    <3> QED
      BY <3>2, <3>3 DEF t
  <2>5. \A i \in 1..Len(s) : \E x \in 1..3 : w[i] = game.lists["weapons"].items[x].v.name
    BY DEF WeaponNames
  <2>6. Fair(lists', game) /\ Counted(lists', before', game, 0)
    <3> DEFINE t == lists'["players"].items
    <3>1. \A i \in 1..Len(s) : t[i] = Armed(s[i], w[i])
      BY <2>4 DEF Armed
    <3>2. Len(t) = Len(s)
      <4>1. t = [i \in 1..Len(s) |-> t[i]] /\ Len(s) \in Nat
        BY <2>3, <2>4, AnySequence
      <4> HIDE DEF t, s
      <4> QED
        BY <4>1, MadeSequence
    <3>3. \A i \in 1..Len(s) : before'[i] = s[i].v.wins
      BY <2>2
    <3>4. Fair(lists, game) /\ IsSequence(s) /\ lists'["weapons"] = lists["weapons"]
      BY <2>3, <2>4
    <3> QED
      BY ONLY <2>5, <3>1, <3>2, <3>3, <3>4, Chosen
  <2>7. Len(frames') = 2 /\ InRound(frames', game, 1 + 1)
    BY <2>2, RoundAdvances
  <2> QED
    BY <2>6, <2>7 DEF Stage, BetweenRules
<1> QED
  BY <1>4, <1>5, <1>6

LEMMA WinnersDiscarded ==
  ASSUME NEW fixed, NEW views, NEW parts, Inv(fixed, views, parts),
         PlaysRounds(game), [Next]_vars,
         Fair(lists, game), Stage(frames, lists, before, elements, game),
         Len(frames) = 2, InRound(frames, game, 2), Counted(lists, before, game, 0)
  PROVE  Stage(frames', lists', before', elements', game)
<1> DEFINE W == WeaponNames(game)
           s == lists["winners"].items
<1>1. /\ frames # <<>> /\ Top.pos <= Len(Top.rules) /\ Len(Top.rules) \in Nat /\ Top.pos \in Nat
      /\ Rule = RoundRules(W)[2]
  BY RoundRule
<1>2. Rule = DiscardAll("winners")
  <2>1. RoundRules(W)[2] = DiscardAll("winners")
    BY ONLY RoundsRules
  <2> QED
    BY <1>1, <2>1
<1>3. Rule.rule = "discard" /\ Rule.from = "winners" /\ Rule.all
  BY <1>2 DEF DiscardAll
<1>4. UNCHANGED vars \/ Discard
  BY <1>1, <1>3, RuleIsNext
<1>5. CASE UNCHANGED vars
  BY <1>5, Stays
<1>6. CASE Discard
  <2>1. /\ {"players", "weapons", "winners"} \subseteq DOMAIN lists
        /\ lists["winners"] = [buf |-> lists["winners"].buf, cap |-> lists["winners"].cap, items |-> s]
        /\ IsSequence(s) /\ Len(s) \in Nat
    BY TablesAre
  <2>2. Len(s) \in 0..Len(s) /\ Remaining(Len(s), Len(s)) = 0
    BY <2>1 DEF Remaining
  <2>3. SubSeq(s, 1, 0) = <<>>
    <3>1. IsSequence(SubSeq(s, 1, 0)) /\ Len(SubSeq(s, 1, 0)) = 0
      BY <2>1, CutSequence
    <3> QED
      BY <3>1, EmptySequence
  <2>4. /\ lists' = [lists EXCEPT !["winners"].items = SubSeq(@, 1, Remaining(Len(s), Len(s)))]
        /\ frames' = Advanced /\ before' = before
    BY <1>3, <1>6, <2>2 DEF Discard, Advance
  <2>5. lists' = [lists EXCEPT !["winners"].items = <<>>]
    BY <2>2, <2>3, <2>4
  <2>6. /\ lists'["players"] = lists["players"] /\ lists'["weapons"] = lists["weapons"]
        /\ lists'["winners"].items = <<>>
    <3>1. /\ lists'["winners"] = [lists["winners"] EXCEPT !.items = <<>>]
          /\ lists'["players"] = lists["players"] /\ lists'["weapons"] = lists["weapons"]
      BY <2>1, <2>5
    <3> QED
      BY <2>1, <3>1
  <2>7. Counted(lists', before', game, 0)
    BY <2>4, <2>6, CountedStays
  <2>8. Gathered(lists', before', game, 0)
    BY <2>6, <2>7, NoWinners
  <2>9. Fair(lists', game)
    BY <2>6 DEF Fair
  <2>10. Len(frames') = 2 /\ InRound(frames', game, 2 + 1)
    BY <2>4, RoundAdvances
  <2> QED
    BY <2>6, <2>8, <2>9, <2>10 DEF Stage, BetweenRules
<1> QED
  BY <1>4, <1>5, <1>6

LEMMA GatheringBegins ==
  ASSUME NEW fixed, NEW views, NEW parts, Inv(fixed, views, parts),
         PlaysRounds(game), [Next]_vars,
         Fair(lists, game), Stage(frames, lists, before, elements, game),
         Len(frames) = 2, InRound(frames, game, 3), Gathered(lists, before, game, 0)
  PROVE  Stage(frames', lists', before', elements', game)
<1> DEFINE W == WeaponNames(game)
<1>1. /\ frames # <<>> /\ Top.pos <= Len(Top.rules) /\ Len(Top.rules) \in Nat /\ Top.pos \in Nat
      /\ Rule = RoundRules(W)[3]
  BY RoundRule
<1>2. Rule = ForEach(Itself("weapons"), "weapon", WeaponRules)
  <2>1. RoundRules(W)[3] = ForEach(Itself("weapons"), "weapon", WeaponRules)
    BY ONLY RoundsRules
  <2> QED
    BY <1>1, <2>1
<1>3. Rule.rule = "foreach" /\ Rule.rules = WeaponRules /\ Rule.element = "weapon"
      /\ Rule.query = Itself("weapons")
  BY <1>2 DEF ForEach
<1>4. UNCHANGED vars \/ BeginForEach
  BY <1>1, <1>3, RuleIsNext
<1>5. CASE UNCHANGED vars
  BY <1>5, Stays
<1>6. CASE BeginForEach
  <2>1. PICK f : /\ frames' = Append(Advanced, f) /\ f.rules = <<>> /\ f.pos = 1
                 /\ f.loop.query = Itself("weapons") /\ f.loop.element = "weapon"
                 /\ f.loop.body = WeaponRules /\ f.loop.at = 1 /\ f.loop # NoLoop
    BY <1>3, <1>6, BegunLoop
  <2>2. lists' = lists /\ before' = before
    BY <1>6, BegunLoop
  <2>3. Len(frames') = 3 /\ InRound(frames', game, 3 + 1) /\ frames'[3] = f
    BY <2>1, RoundAdvances
  <2>4. AtWeapons(frames', game) /\ Fresh(frames'[3])
    BY <2>1, <2>3 DEF AtWeapons, GoesOver, IsLoop, Fresh
  <2> QED
    BY <2>2, <2>3, <2>4 DEF Stage, Gathering
<1> QED
  BY <1>4, <1>5, <1>6

LEMMA WinnersKnown ==
  ASSUME NEW fixed, NEW views, NEW parts, Inv(fixed, views, parts),
         PlaysRounds(game), [Next]_vars,
         Fair(lists, game), Stage(frames, lists, before, elements, game),
         Len(frames) = 2, InRound(frames, game, 4), Gathered(lists, before, game, 3)
  PROVE  Stage(frames', lists', before', elements', game)
<1> DEFINE W == WeaponNames(game)
           m == Len(lists["winners"].items)
           n == Len(lists["players"].items)
           C == <<Case("all", <<>>), Case("none", <<>>), Case("true", WonRules)>>
<1>1. /\ frames # <<>> /\ Top.pos <= Len(Top.rules) /\ Len(Top.rules) \in Nat /\ Top.pos \in Nat
      /\ Rule = RoundRules(W)[4]
  BY RoundRule
<1>2. Rule = Cases(C)
  <2>1. RoundRules(W)[4] = Cases(<<Case("all", <<>>), Case("none", <<>>), Case("true", WonRules)>>)
    BY ONLY RoundsRules
  <2> QED
    BY <1>1, <2>1
<1>3. Rule.rule = "when" /\ Rule.cases = C
  <2> HIDE DEF C
  <2> QED
    BY <1>2 DEF Cases
<1>4. UNCHANGED vars \/ When
  BY <1>1, <1>3, RuleIsNext
<1>5. CASE UNCHANGED vars
  BY <1>5, Stays
<1>6. CASE When
  <2> DEFINE T == {i \in 1..Len(C) : Holds(C[i].condition)}
             c == CHOOSE i \in T : \A j \in T : i <= j
  <2>1. /\ Len(C) = 3 /\ C[1] = Case("all", <<>>) /\ C[2] = Case("none", <<>>)
        /\ C[3] = Case("true", WonRules)
    OBVIOUS
  <2>2. /\ C[1].condition = "all" /\ C[2].condition = "none" /\ C[3].condition = "true"
        /\ C[1].rules = <<>> /\ C[2].rules = <<>> /\ C[3].rules = WonRules
    <3> HIDE DEF C
    <3> QED
      BY <2>1 DEF Case
  <2>3. /\ frames' = IF T = {} THEN Advanced ELSE Append(Advanced, Frame(C[c].rules, NoLoop))
        /\ lists' = lists /\ before' = before
    <3> HIDE DEF C
    <3> QED
      BY <1>3, <1>6 DEF When
  <2> HIDE DEF C
  <2>4. /\ Holds(C[1].condition) <=> m = n
        /\ Holds(C[2].condition) <=> m = 0
        /\ Holds(C[3].condition)
    BY <2>2 DEF Holds
  <2>5. /\ T \subseteq 1..3 /\ 3 \in T /\ (1 \in T <=> m = n) /\ (2 \in T <=> m = 0)
    BY <2>1, <2>4
  <2> HIDE DEF T
  <2>6. c \in T /\ \A j \in T : c <= j
    <3>1. \E i \in T : \A j \in T : i <= j
      <4>1. CASE 1 \in T
        BY <2>5, <4>1
      <4>2. CASE 1 \notin T /\ 2 \in T
        BY <2>5, <4>2
      <4>3. CASE 1 \notin T /\ 2 \notin T
        BY <2>5, <4>3
      <4> QED
        BY <4>1, <4>2, <4>3
    <3> QED
      BY <3>1
  <2> HIDE DEF c
  <2>7. frames' = Append(Advanced, Frame(C[c].rules, NoLoop))
    BY <2>3, <2>5
  <2>8. /\ Len(frames') = 3 /\ InRound(frames', game, 4 + 1)
        /\ frames'[3] = Frame(C[c].rules, NoLoop)
    BY <2>7, RoundAdvances
  <2>9. ~IsLoop(frames'[3]) /\ frames'[3].rules = C[c].rules /\ frames'[3].pos = 1
    BY <2>8 DEF IsLoop, Frame
  <2>10. IF m = n \/ m = 0 THEN Scored(lists, before, game) ELSE Counting(lists, before, game, 0)
    <3>1. IsSequence(lists["players"].items) /\ IsSequence(lists["winners"].items)
      BY TablesAre
    <3> QED
      BY <3>1, AllGathered
  <2>11. CASE m = n \/ m = 0
    <3>1. c = 1 \/ c = 2
      BY <2>5, <2>6, <2>11
    <3>2. C[c].rules = <<>>
      BY <2>2, <3>1
    <3>3. Ending(frames', lists', before', elements', game)
      BY <2>3, <2>8, <2>9, <2>10, <2>11, <3>2 DEF Ending
    <3> QED
      BY <2>3, <3>3 DEF Stage
  <2>12. CASE ~(m = n \/ m = 0)
    <3>1. c = 3
      BY <2>5, <2>6, <2>12
    <3>2. AtWinners(frames', game, 1)
      BY <2>2, <2>8, <2>9, <3>1 DEF AtWinners
    <3>3. Counting(lists', before', game, 0)
      BY <2>3, <2>10, <2>12
    <3>4. Ending(frames', lists', before', elements', game)
      BY <2>8, <3>2, <3>3 DEF Ending
    <3> QED
      BY <2>3, <3>4 DEF Stage
  <2> QED
    BY <2>11, <2>12
<1> QED
  BY <1>4, <1>5, <1>6


-----------------------------------------------------------------------------
(* The weapons, one after the other *)

\* Different elements of a set of numbers have different places in it.
LEMMA CountedApart ==
  ASSUME NEW S, IsFiniteSet(S), S \subseteq Int, NEW h \in S, NEW i \in S,
         Cardinality(UpTo(S, h)) = Cardinality(UpTo(S, i))
  PROVE  h = i
<1> DEFINE U(m) == UpTo(S, m)
<1>1. \A k, m \in S : k < m => Cardinality(U(k)) # Cardinality(U(m))
  <2> SUFFICES ASSUME NEW k \in S, NEW m \in S, k < m, Cardinality(U(k)) = Cardinality(U(m))
               PROVE  FALSE
    OBVIOUS
  <2>1. IsFiniteSet(U(m))
    <3>1. U(m) \subseteq S
      BY DEF UpTo
    <3> QED
      BY <3>1, FS_Subset
  <2>2. U(k) \subseteq U(m) /\ m \in U(m) /\ m \notin U(k)
    <3>1. \A j \in S : j \in Int
      OBVIOUS
    <3>2. (\A j \in S : j <= k => j <= m) /\ m <= m /\ ~(m <= k)
      BY <3>1
    <3> QED
      BY <3>2 DEF UpTo
  <2> HIDE DEF U
  <2>3. U(k) = U(m)
    BY <2>1, <2>2, FS_Subset
  <2> QED
    BY <2>2, <2>3
<1>2. h \in Int /\ i \in Int
  OBVIOUS
<1>3. Cardinality(U(h)) = Cardinality(U(i))
  OBVIOUS
<1> HIDE DEF U
<1>4. ~(h < i) /\ ~(i < h)
  BY <1>1, <1>3
<1> QED
  BY <1>2, <1>4

\* An address of a value that is in a list.
LEMMA ReadInList ==
  ASSUME NEW fixed, NEW views, NEW parts, Inv(fixed, views, parts),
         NEW l \in DOMAIN lists, NEW i \in 1..Len(lists[l].items), lists[l].items[i].is = "value"
  PROVE  LET p == Pointer(lists[l].buf, i) IN
         /\ Slot(p) = lists[l].items[i] /\ Target(p) = p /\ Reaches(p)
         /\ Read(p) = lists[l].items[i].v
<1> DEFINE p == Pointer(lists[l].buf, i)
<1>1. p.is = "pointer" /\ p.buf = lists[l].buf /\ p.at = i
  BY DEF Pointer
<1> HIDE DEF p
<1>2. IsLive(p) /\ Slot(p) = lists[l].items[i]
  BY <1>1, InList
<1>3. Slot(p).is # "pointer" /\ Target(p) = p /\ Reaches(p)
  BY <1>2 DEF Target, Reaches
<1>4. Read(p) = lists[l].items[i].v
  BY <1>1, <1>2, <1>3 DEF Read
<1> QED
  BY <1>2, <1>3, <1>4 DEF p

LEMMA WeaponRead ==
  ASSUME NEW fixed, NEW views, NEW parts, Inv(fixed, views, parts),
         Orderly(game, fixed, views, parts), PlaysRounds(game), Fair(lists, game),
         NEW x \in 1..3, elements["weapon"] = Pointer(lists["weapons"].buf, x)
  PROVE  Read(elements["weapon"]) = game.lists["weapons"].items[x].v
<1>1. "weapons" \in DOMAIN lists /\ "weapons" \in DOMAIN game.lists
      /\ lists["weapons"] = game.lists["weapons"] /\ Len(lists["weapons"].items) = 3
  BY TablesAre DEF Fair, PlaysRounds
<1>2. lists["weapons"].items[x].is = "value"
  BY <1>1 DEF Orderly
<1> QED
  BY <1>1, <1>2, ReadInList

LEMMA UnusedIs ==
  ASSUME NEW fixed, NEW views, NEW parts, Inv(fixed, views, parts),
         Orderly(game, fixed, views, parts), PlaysRounds(game), Fair(lists, game),
         NEW x \in 1..3, elements["weapon"] = Pointer(lists["weapons"].buf, x)
  PROVE  Holds("unused") <=> game.lists["weapons"].items[x].v.name \notin Taken(lists)
<1> DEFINE s == lists["players"].items
<1>1. \A i \in 1..Len(s) : s[i].is = "value"
  BY DEF Fair
<1>2. \A i \in 1..Len(s) : Read(s[i]) = s[i].v
  BY <1>1 DEF Read
<1>3. Weapons = Taken(lists)
  <2>1. \A i \in 1..Len(s) : Read(s[i]).weapon = s[i].v.weapon
    BY <1>2
  <2> QED
    BY <2>1 DEF Weapons, Taken
<1>4. Holds("unused") <=> Read(elements["weapon"]).name \notin Weapons
  BY DEF Holds
<1> QED
  BY <1>3, <1>4, WeaponRead

\* collect gathers the players whose weapon is beaten, and no others.
LEMMA BeatenExactly ==
  ASSUME NEW fixed, NEW views, NEW parts, Inv(fixed, views, parts),
         Orderly(game, fixed, views, parts), PlaysRounds(game), Fair(lists, game),
         NEW x \in 1..3, elements["weapon"] = Pointer(lists["weapons"].buf, x)
  PROVE  LET b == Beaten(lists["players"]) IN
         IsSequence(b) /\ Reached(b, lists["players"], game.lists["weapons"].items[x].v.beats)
<1> DEFINE p == lists["players"]
           s == p.items
           n == Len(s)
           beats == game.lists["weapons"].items[x].v.beats
           refs == References(p.items, p.buf)
           S == {i \in 1..Len(refs) : Read(refs[i]).weapon = Read(elements["weapon"]).beats}
           A == Cardinality(S)
           b == Beaten(p)
           At1(k) == CHOOSE i \in S : Cardinality({j \in S : j <= i}) = k
<1>1. "players" \in DOMAIN lists /\ IsSequence(s) /\ n \in Nat
  BY TablesAre
<1>2. \A i \in 1..n : s[i].is = "value"
  BY DEF Fair
<1>3. Len(refs) = n /\ \A i \in 1..n : refs[i] = Pointer(p.buf, i)
  <2>1. Len(refs) = n /\ \A i \in 1..n : refs[i] = getReference(s[i], p.buf, i)
    BY <1>1, ReferencesOf
  <2> QED
    BY <1>2, <2>1 DEF getReference
<1>4. \A i \in 1..n : Read(Pointer(p.buf, i)) = s[i].v
  BY <1>1, <1>2, ReadInList
<1>5. Read(elements["weapon"]).beats = beats
  BY WeaponRead
<1>6. \A i : i \in S <=> i \in 1..n /\ s[i].v.weapon = beats
  <2> HIDE DEF s, p, refs, beats
  <2>1. \A i \in 1..n : Read(refs[i]).weapon = s[i].v.weapon
    BY <1>3, <1>4
  <2>2. \A i : i \in S <=> i \in 1..Len(refs) /\ Read(refs[i]).weapon = Read(elements["weapon"]).beats
    OBVIOUS
  <2> HIDE DEF S
  <2> QED
    BY <1>3, <1>5, <2>1, <2>2
<1>7. b = [k \in 1..A |-> refs[At1(k)]]
  BY DEF Beaten
<1> HIDE DEF S
<1>8. S \subseteq 1..n /\ S \subseteq Int
  BY <1>1, <1>6
<1>9. IsFiniteSet(S) /\ A \in Nat
  <2>1. IsFiniteSet(1..n)
    BY <1>1, FS_Interval
  <2> QED
    BY <1>8, <2>1, FS_Subset, FS_CardinalityType
<1>10. \A k \in 1..A : At1(k) \in S /\ Cardinality(UpTo(S, At1(k))) = k
  <2> SUFFICES ASSUME NEW k \in 1..A
               PROVE  At1(k) \in S /\ Cardinality(UpTo(S, At1(k))) = k
    OBVIOUS
  <2>1. \E i \in S : Cardinality(UpTo(S, i)) = k
    <3>1. n \in Nat /\ S \subseteq 1..n /\ k \in 1..Cardinality(S)
      BY <1>1, <1>8
    <3> HIDE DEF n
    <3> QED
      BY ONLY <3>1, CountedOff
  <2> QED
    BY ONLY <2>1 DEF UpTo
<1>11. \A i \in S : \E k \in 1..A : At1(k) = i
  <2> SUFFICES ASSUME NEW i \in S PROVE \E k \in 1..A : At1(k) = i
    OBVIOUS
  <2> DEFINE U == UpTo(S, i)
             k == Cardinality(U)
  <2>1. U \subseteq S /\ i \in U
    BY <1>8 DEF UpTo
  <2>2. k \in 1..A
    <3>1. IsFiniteSet(U) /\ Cardinality(U) <= A
      BY <1>9, <2>1, FS_Subset
    <3>2. Cardinality(U) \in Nat /\ (Cardinality(U) = 0 <=> U = {})
      BY <3>1, FS_CardinalityType, FS_EmptySet
    <3> HIDE DEF U
    <3>3. Cardinality(U) # 0
      BY <2>1, <3>2
    <3> QED
      BY <1>9, <3>1, <3>2, <3>3
  <2>3. At1(k) \in S /\ Cardinality(UpTo(S, At1(k))) = Cardinality(UpTo(S, i))
    BY <1>10, <2>2
  <2> HIDE DEF At1
  <2>4. At1(k) = i
    BY <1>8, <1>9, <2>3, CountedApart
  <2> QED
    BY <2>2, <2>4
<1> HIDE DEF A, At1, b, refs
<1>12. IsSequence(b) /\ Len(b) = A
  <2>1. b = [k \in 1..A |-> b[k]]
    BY <1>7
  <2> QED
    BY <1>9, <2>1, MadeSequence
<1>13. \A k \in 1..A : b[k] = Pointer(p.buf, At1(k)) /\ b[k].at = At1(k) /\ At1(k) \in 1..n
  <2> SUFFICES ASSUME NEW k \in 1..A
               PROVE  b[k] = Pointer(p.buf, At1(k)) /\ b[k].at = At1(k) /\ At1(k) \in 1..n
    OBVIOUS
  <2>1. b[k] = Pointer(p.buf, At1(k)) /\ At1(k) \in 1..n
    BY <1>3, <1>7, <1>8, <1>10
  <2> QED
    BY <2>1 DEF Pointer
<1>14. \A h, k \in 1..A : At1(h) = At1(k) => h = k
  BY <1>10
<1> HIDE DEF p, n, s
<1>15. \A i \in 1..n : (\E k \in 1..A : b[k].at = i) <=> s[i].v.weapon = beats
  BY <1>6, <1>10, <1>11, <1>13
<1> QED
  BY <1>12, <1>13, <1>14, <1>15 DEF Reached, b, p, n, s


LEMMA LoopOver ==
  ASSUME NEW fixed, NEW views, NEW parts, Inv(fixed, views, parts),
         NEW n \in 1..Len(frames), NEW l, NEW element, NEW body,
         GoesOver(frames[n], l, element, body)
  PROVE  LET p == frames[n].loop IN
         /\ p.buf = lists[l].buf /\ p.had = lists[l].items /\ l \in DOMAIN lists
         /\ p.at \in 1..(Len(lists[l].items) + 1)
<1> DEFINE p == frames[n].loop
<1>1. LoopOK(p, lists, newest, fixed) /\ p.query = Itself(l)
  BY DEF GoesOver, Inv, LoopsOK
<1>2. p.query.via = "itself" /\ p.query.of = l
  BY <1>1 DEF Itself
<1>3. ~p.own
  BY <1>1, <1>2 DEF LoopOK, IsTemporary
<1> HIDE DEF p
<1>4. /\ p.buf = lists[l].buf /\ p.had = lists[l].items /\ l \in DOMAIN lists
      /\ p.at \in 1..(Len(p.had) + 1)
  BY <1>1, <1>2, <1>3 DEF LoopOK
<1> QED
  BY <1>4 DEF p

\* The foreach goes on to the next weapon, or is done with them.
LEMMA NextWeapon ==
  ASSUME NEW fixed, NEW views, NEW parts, Inv(fixed, views, parts),
         Orderly(game, fixed, views, parts), PlaysRounds(game), [Next]_vars,
         Fair(lists, game), Stage(frames, lists, before, elements, game),
         Len(frames) = 3, AtWeapons(frames, game),
         \/ Fresh(frames[3]) /\ Gathered(lists, before, game, 0)
         \/ /\ Within(frames[3], WeaponRules, 2)
            /\ Gathered(lists, before, game, frames[3].loop.at - 1)
  PROVE  Stage(frames', lists', before', elements', game)
<1> DEFINE a == frames[3].loop.at
<1>1. GoesOver(frames[3], "weapons", "weapon", WeaponRules) /\ InRound(frames, game, 4)
      /\ IsLoop(frames[3])
  BY DEF AtWeapons, GoesOver
<1>2. lists["weapons"] = game.lists["weapons"] /\ Len(lists["weapons"].items) = 3
  BY DEF Fair, PlaysRounds
<1>3. a \in 1..4 /\ frames[3].loop.buf = lists["weapons"].buf
      /\ frames[3].loop.had = lists["weapons"].items /\ "weapons" \in DOMAIN lists
  <2>1. 3 \in 1..Len(frames)
    OBVIOUS
  <2>2. /\ frames[3].loop.buf = lists["weapons"].buf /\ "weapons" \in DOMAIN lists
        /\ frames[3].loop.had = lists["weapons"].items
        /\ frames[3].loop.at \in 1..(Len(lists["weapons"].items) + 1)
    BY ONLY <1>1, <2>1, Inv(fixed, views, parts), LoopOver
  <2> QED
    BY <1>2, <2>2
<1>4. Gathered(lists, before, game, a - 1)
  <2>1. CASE Fresh(frames[3]) /\ Gathered(lists, before, game, 0)
    <3>1. a - 1 = 0
      BY <2>1 DEF Fresh
    <3> QED
      BY <2>1, <3>1
  <2> QED
    BY <2>1
<1>5. \/ frames[3].rules = <<>> /\ frames[3].pos = 1
      \/ Len(frames[3].rules) = 1 /\ frames[3].pos = 2
  BY InnerRules DEF Fresh, Within
<1>6. /\ frames # <<>> /\ Top = frames[3] /\ BodyDone(Top)
      /\ Len(Top.rules) \in Nat /\ Top.pos \in Nat
  BY <1>5, NoSequence, TopIs
<1>7. UNCHANGED vars \/ Visit \/ EndRules
  BY <1>6, NoRuleIsNext
<1>8. CASE UNCHANGED vars
  BY <1>8, Stays
<1>9. CASE Visit
  <2> DEFINE b == frames'[3].loop.at
  <2>1. /\ Len(frames') = 3 /\ IsLoop(frames'[3])
        /\ frames'[3].rules = frames[3].loop.body /\ frames'[3].pos = 1
        /\ frames'[3].loop.query = frames[3].loop.query
        /\ frames'[3].loop.element = frames[3].loop.element
        /\ frames'[3].loop.body = frames[3].loop.body
        /\ b = a + 1 /\ a \in 1..Len(frames[3].loop.had)
        /\ lists' = lists /\ before' = before
    BY <1>9, FramesVisited
  <2>2. frames'[1] = frames[1] /\ frames'[2] = frames[2]
    <3>1. \A i \in 1..3 : i # 3 => frames'[i] = frames[i]
      BY <1>9, FramesVisited
    <3> QED
      BY <3>1
  <2>3. /\ frames[3].loop.element \in DOMAIN elements'
        /\ elements'[frames[3].loop.element]
              = getReference(frames[3].loop.had[a], frames[3].loop.buf, a)
    BY <1>9, FramesVisited
  <2>4. a \in 1..3
    BY <1>2, <1>3, <2>1
  <2>5. lists["weapons"].items[a].is = "value"
    <3>1. "weapons" \in DOMAIN game.lists
      BY DEF PlaysRounds
    <3> QED
      BY <1>2, <2>4, <3>1 DEF Orderly
  <2>6. IsAt(elements', "weapon", Pointer(lists["weapons"].buf, a))
    BY <1>1, <1>3, <2>3, <2>5 DEF IsAt, GoesOver, getReference
  <2>7. b - 1 = a /\ b - 2 = a - 1 /\ b - 2 \in Nat
    <3> HIDE DEF a, b
    <3> QED
      BY <2>1, <2>4
  <2>8. AtWeapons(frames', game)
    BY <1>1, <2>1, <2>2 DEF AtWeapons, GoesOver, InRound, Root
  <2>9. Within(frames'[3], WeaponRules, 1)
    BY <1>1, <2>1, <2>7 DEF Within, GoesOver
  <2>10. Gathered(lists', before', game, b - 2)
    BY <1>4, <2>1, <2>7
  <2>11. IsAt(elements', "weapon", Pointer(lists'["weapons"].buf, b - 1))
    BY <2>1, <2>6, <2>7
  <2> HIDE DEF a
  <2>12. Gathering(frames', lists', before', elements', game)
    BY <2>1, <2>8, <2>9, <2>10, <2>11 DEF Gathering
  <2> QED
    BY <2>1, <2>12 DEF Stage
<1>10. CASE EndRules
  <2>1. /\ Len(frames') = 2 /\ lists' = lists /\ before' = before
        /\ a = Len(frames[3].loop.had) + 1
    BY <1>1, <1>10, FramesEnded
  <2>2. frames'[1] = frames[1] /\ frames'[2] = frames[2]
    <3>1. \A i \in 1..2 : frames'[i] = frames[i]
      BY <1>10, FramesEnded
    <3> QED
      BY <3>1
  <2>3. a - 1 = 3
    BY <1>2, <1>3, <2>1
  <2>4. Gathered(lists', before', game, 3)
    BY <1>4, <2>1, <2>3
  <2>5. InRound(frames', game, 4)
    BY <1>1, <2>1, <2>2 DEF InRound, Root
  <2> QED
    BY <2>1, <2>4, <2>5 DEF Stage, BetweenRules
<1> QED
  BY <1>7, <1>8, <1>9, <1>10

\* Has anybody taken the weapon?
LEMMA WeaponTried ==
  ASSUME NEW fixed, NEW views, NEW parts, Inv(fixed, views, parts),
         Orderly(game, fixed, views, parts), PlaysRounds(game), [Next]_vars,
         Fair(lists, game), Stage(frames, lists, before, elements, game),
         Len(frames) = 3, AtWeapons(frames, game),
         Within(frames[3], WeaponRules, 1),
         Gathered(lists, before, game, frames[3].loop.at - 2),
         IsAt(elements, "weapon", Pointer(lists["weapons"].buf, frames[3].loop.at - 1))
  PROVE  Stage(frames', lists', before', elements', game)
<1> DEFINE a == frames[3].loop.at
           C == <<Case("unused", GatherRules)>>
           p == Pointer(lists["weapons"].buf, a - 1)
<1>1. GoesOver(frames[3], "weapons", "weapon", WeaponRules) /\ InRound(frames, game, 4)
      /\ IsLoop(frames[3])
  BY DEF AtWeapons, GoesOver
<1>2. lists["weapons"] = game.lists["weapons"] /\ Len(lists["weapons"].items) = 3
  BY DEF Fair, PlaysRounds
<1>3. a - 1 \in 1..3 /\ a - 2 \in 0..2 /\ (a - 2) + 1 = a - 1
  <2>1. 3 \in 1..Len(frames)
    OBVIOUS
  <2>2. a \in 1..4
    <3>1. frames[3].loop.at \in 1..(Len(lists["weapons"].items) + 1)
      BY ONLY <1>1, <2>1, Inv(fixed, views, parts), LoopOver
    <3> QED
      BY <1>2, <3>1
  <2>3. a - 2 \in Nat
    BY DEF Within
  <2> HIDE DEF a
  <2> QED
    BY <2>2, <2>3
<1>4. frames[3].rules = WeaponRules /\ frames[3].pos = 1 /\ Len(WeaponRules) = 1
      /\ WeaponRules[1] = Cases(C)
  BY InnerRules DEF Within
<1>5. /\ frames # <<>> /\ Top = frames[3] /\ Top.pos <= Len(Top.rules)
      /\ Len(Top.rules) \in Nat /\ Top.pos \in Nat /\ Rule = Cases(C)
  BY <1>4, TopIs
<1>6. Rule.rule = "when" /\ Rule.cases = C
  <2> HIDE DEF C
  <2> QED
    BY <1>5 DEF Cases
<1>7. UNCHANGED vars \/ When
  BY <1>5, <1>6, RuleIsNext
<1>8. CASE UNCHANGED vars
  BY <1>8, Stays
<1>9. CASE When
  <2> DEFINE T == {i \in 1..Len(C) : Holds(C[i].condition)}
             c == CHOOSE i \in T : \A j \in T : i <= j
             x == game.lists["weapons"].items[a - 1].v.name
  <2>1. /\ frames' = IF T = {} THEN Advanced ELSE Append(Advanced, Frame(C[c].rules, NoLoop))
        /\ lists' = lists /\ before' = before /\ elements' = elements
    <3> HIDE DEF C
    <3> QED
      BY <1>6, <1>9 DEF When
  <2>2. Len(C) = 1 /\ C[1].condition = "unused" /\ C[1].rules = GatherRules
    BY DEF Case
  <2> HIDE DEF C
  <2>3. T = IF Holds("unused") THEN {1} ELSE {}
    BY <2>2
  <2>4. Holds("unused") <=> x \notin Taken(lists)
    BY <1>3, UnusedIs DEF IsAt
  <2> HIDE DEF T, a
  <2>5. CASE x \in Taken(lists)
    <3>1. frames' = Advanced
      BY <2>1, <2>3, <2>4, <2>5
    <3>2. /\ Len(frames') = 3 /\ frames'[3].rules = frames[3].rules
          /\ frames'[3].loop = frames[3].loop /\ frames'[3].pos = 2
          /\ frames'[1] = frames[1] /\ frames'[2] = frames[2]
      <4>1. /\ Len(frames') = 3 /\ frames'[3].rules = frames[3].rules
            /\ frames'[3].loop = frames[3].loop /\ frames'[3].pos = frames[3].pos + 1
            /\ \A i \in 1..3 : i # 3 => frames'[i] = frames[i]
        BY <1>5, <3>1, FramesAdvanced
      <4> QED
        BY <1>4, <4>1
    <3>3. Within(frames'[3], WeaponRules, 2)
      BY <3>2 DEF Within
    <3>4. AtWeapons(frames', game)
      BY <1>1, <3>2 DEF AtWeapons, GoesOver, InRound, Root, IsLoop
    <3>5. Gathered(lists, before, game, a - 1)
      <4> DEFINE k == a - 2
      <4>1. k \in 0..2 /\ Gathered(lists, before, game, k)
            /\ game.lists["weapons"].items[k + 1].v.name \in Taken(lists)
        BY <1>3, <2>5 DEF a
      <4> HIDE DEF k
      <4>2. Gathered(lists, before, game, k + 1)
        BY <4>1, GatheredNobody
      <4> QED
        BY <1>3, <4>2 DEF k
    <3>6. Gathered(lists', before', game, frames'[3].loop.at - 1)
      BY <2>1, <3>2, <3>5 DEF a
    <3>7. Gathering(frames', lists', before', elements', game)
      BY <3>2, <3>3, <3>4, <3>6 DEF Gathering
    <3> QED
      BY <2>1, <3>7 DEF Stage
  <2>6. CASE x \notin Taken(lists)
    <3>1. T = {1}
      BY <2>3, <2>4, <2>6
    <3>2. c = 1
      BY <3>1
    <3> HIDE DEF c
    <3>3. frames' = Append(Advanced, Frame(GatherRules, NoLoop))
      BY <2>1, <2>2, <3>1, <3>2
    <3>4. /\ Len(frames') = 4 /\ frames'[3].rules = frames[3].rules
          /\ frames'[3].loop = frames[3].loop /\ frames'[3].pos = 2
          /\ frames'[1] = frames[1] /\ frames'[2] = frames[2]
          /\ frames'[4] = Frame(GatherRules, NoLoop)
      <4>1. /\ Len(frames') = 4 /\ frames'[3].rules = frames[3].rules
            /\ frames'[3].loop = frames[3].loop /\ frames'[3].pos = frames[3].pos + 1
            /\ \A i \in 1..3 : i # 3 => frames'[i] = frames[i]
            /\ frames'[4] = Frame(GatherRules, NoLoop)
        BY <1>5, <3>3, FramesBegun
      <4> QED
        BY <1>4, <4>1
    <3>5. ~IsLoop(frames'[4]) /\ frames'[4].rules = GatherRules /\ frames'[4].pos = 1
      BY <3>4 DEF IsLoop, Frame
    <3>6. Within(frames'[3], WeaponRules, 2)
      BY <3>4 DEF Within
    <3>7. AtWeapons(frames', game)
      BY <1>1, <3>4 DEF AtWeapons, GoesOver, InRound, Root, IsLoop
    <3>8. /\ Gathered(lists', before', game, frames'[3].loop.at - 2)
          /\ IsAt(elements', "weapon", Pointer(lists'["weapons"].buf, frames'[3].loop.at - 1))
          /\ game.lists["weapons"].items[frames'[3].loop.at - 1].v.name \notin Taken(lists')
      BY <2>1, <2>6, <3>4 DEF a
    <3>9. Gathering(frames', lists', before', elements', game)
      BY <3>4, <3>5, <3>6, <3>7, <3>8 DEF Gathering
    <3> QED
      BY <2>1, <3>9 DEF Stage
  <2> QED
    BY <2>5, <2>6
<1> QED
  BY <1>7, <1>8, <1>9


\* Those it beats are gathered.
LEMMA PlayersGathered ==
  ASSUME NEW fixed, NEW views, NEW parts, Inv(fixed, views, parts),
         Orderly(game, fixed, views, parts), PlaysRounds(game), [Next]_vars,
         Fair(lists, game), Stage(frames, lists, before, elements, game),
         Len(frames) = 4, AtWeapons(frames, game), Within(frames[3], WeaponRules, 2),
         ~IsLoop(frames[4]), frames[4].rules = GatherRules, frames[4].pos = 1,
         Gathered(lists, before, game, frames[3].loop.at - 2),
         IsAt(elements, "weapon", Pointer(lists["weapons"].buf, frames[3].loop.at - 1)),
         game.lists["weapons"].items[frames[3].loop.at - 1].v.name \notin Taken(lists)
  PROVE  Stage(frames', lists', before', elements', game)
<1> DEFINE a == frames[3].loop.at
           w == lists["winners"].items
           b == Beaten(lists["players"])
           s == game.lists["weapons"].items
<1>1. GoesOver(frames[3], "weapons", "weapon", WeaponRules) /\ InRound(frames, game, 4)
      /\ IsLoop(frames[3])
  BY DEF AtWeapons, GoesOver
<1>2. lists["weapons"] = game.lists["weapons"] /\ Len(lists["weapons"].items) = 3
  BY DEF Fair, PlaysRounds
<1>3. a - 1 \in 1..3 /\ a - 2 \in 0..2 /\ (a - 2) + 1 = a - 1
  <2>1. 3 \in 1..Len(frames)
    OBVIOUS
  <2>2. a \in 1..4
    <3>1. frames[3].loop.at \in 1..(Len(lists["weapons"].items) + 1)
      BY ONLY <1>1, <2>1, Inv(fixed, views, parts), LoopOver
    <3> QED
      BY <1>2, <3>1
  <2>3. a - 2 \in Nat
    BY DEF Within
  <2> HIDE DEF a
  <2> QED
    BY <2>2, <2>3
<1>4. /\ frames # <<>> /\ Top = frames[4] /\ Top.pos <= Len(Top.rules)
      /\ Len(Top.rules) \in Nat /\ Top.pos \in Nat
      /\ Rule = ExtendBy("winners", Collect("players"))
  <2>1. Len(GatherRules) = 1 /\ GatherRules[1] = ExtendBy("winners", Collect("players"))
    BY ONLY InnerRules
  <2>2. Len(frames[4].rules) \in Nat /\ frames[4].pos \in Nat /\ 4 \in Nat \ {0}
        /\ frames[4].pos <= Len(frames[4].rules) /\ frames[4].rules[frames[4].pos] = GatherRules[1]
    BY <2>1
  <2>3. /\ frames # <<>> /\ Top = frames[4] /\ Len(Top.rules) \in Nat /\ Top.pos \in Nat
        /\ Top.pos <= Len(Top.rules) /\ Rule = frames[4].rules[frames[4].pos]
    BY ONLY <2>2, Inv(fixed, views, parts), Len(frames) = 4, TopIs
  <2> QED
    BY ONLY <2>1, <2>2, <2>3
<1>5. /\ Rule.rule = "extend" /\ Rule.target = "winners" /\ Rule.query = Collect("players")
  BY <1>4 DEF ExtendBy
<1>6. /\ IsTemporary(Rule.query) /\ Result(Rule.query) = b
  <2>1. Rule.query.via = "collect" /\ Rule.query.of = "players"
    BY ONLY <1>5 DEF Collect
  <2> QED
    BY ONLY <2>1 DEF IsTemporary, Result
<1>7. UNCHANGED vars \/ Extend
  BY <1>4, <1>5, RuleIsNext
<1>8. CASE UNCHANGED vars
  BY <1>8, Stays
<1>9. CASE Extend
  <2>1. /\ {"players", "weapons", "winners"} \subseteq DOMAIN lists
        /\ lists["winners"] = [buf |-> lists["winners"].buf, cap |-> lists["winners"].cap, items |-> w]
        /\ IsSequence(w)
    BY TablesAre
  <2>2. IsSequence(b) /\ Reached(b, lists["players"], s[a - 1].v.beats)
    BY <1>3, BeatenExactly DEF IsAt
  <2>3. /\ frames' = Advanced /\ before' = before
        /\ \E room, buf :
              /\ room.items = w
              /\ room = [buf |-> room.buf, cap |-> room.cap, items |-> room.items]
              /\ lists' = [lists EXCEPT !["winners"] = [room EXCEPT !.items = @ \o References(b, buf)]]
    <3> DEFINE t == lists["winners"]
               n == Len(t.items) + Len(b)
               room == Grown(t, n, newest + 2)
               buf == BufferOf(Rule.query)
    <3>1. lists' = [lists EXCEPT !["winners"] = [room EXCEPT !.items = @ \o References(b, buf)]]
          /\ frames' = Advanced /\ before' = before
      BY <1>5, <1>6, <1>9 DEF Extend, Advance
    <3>2. room.items = w /\ room = [buf |-> room.buf, cap |-> room.cap, items |-> room.items]
      <4>1. room = t \/ room = [buf |-> newest + 2, cap |-> n, items |-> w]
        BY <2>1 DEF Grown
      <4> HIDE DEF room, n, w
      <4>2. t.items = w /\ t = [buf |-> t.buf, cap |-> t.cap, items |-> t.items]
        <5> HIDE DEF t
        <5>1. t = [buf |-> lists["winners"].buf, cap |-> lists["winners"].cap, items |-> w]
          BY ONLY <2>1 DEF t
        <5> QED
          BY ONLY <5>1
      <4> HIDE DEF t
      <4> QED
        BY ONLY <4>1, <4>2
    <3> HIDE DEF room, buf
    <3> QED
      BY <3>1, <3>2
  <2>4. PICK room, buf :
           /\ room.items = w
           /\ room = [buf |-> room.buf, cap |-> room.cap, items |-> room.items]
           /\ lists' = [lists EXCEPT !["winners"] = [room EXCEPT !.items = @ \o References(b, buf)]]
    BY <2>3
  <2>5. References(b, buf) = b
    <3>1. \A j \in 1..Len(b) : b[j].is = "pointer"
      <4> SUFFICES ASSUME NEW j \in 1..Len(b) PROVE b[j].is = "pointer"
        OBVIOUS
      <4>1. b[j] = Pointer(lists["players"].buf, b[j].at)
        BY <2>2 DEF Reached
      <4>2. \A u, v : Pointer(u, v).is = "pointer"
        BY DEF Pointer
      <4> HIDE DEF b
      <4> QED
        BY <4>1, <4>2
    <3>2. /\ IsSequence(References(b, buf)) /\ Len(References(b, buf)) = Len(b)
          /\ \A j \in 1..Len(b) : References(b, buf)[j] = getReference(b[j], buf, j)
      BY <2>2, ReferencesOf
    <3>3. \A j \in 1..Len(b) : References(b, buf)[j] = b[j]
      BY <3>1, <3>2 DEF getReference
    <3> HIDE DEF b
    <3> QED
      BY <2>2, <3>2, <3>3, SameSequence
  <2>6. /\ lists'["players"] = lists["players"] /\ lists'["weapons"] = lists["weapons"]
        /\ lists'["winners"].items = w \o b
    <3> DEFINE r == [room EXCEPT !.items = @ \o References(b, buf)]
    <3>1. r.items = w \o b
      <4> HIDE DEF w, b
      <4> QED
        BY <2>4, <2>5
    <3>2. lists' = [lists EXCEPT !["winners"] = r]
      BY <2>4
    <3> HIDE DEF r
    <3>3. /\ lists'["players"] = lists["players"] /\ lists'["weapons"] = lists["weapons"]
          /\ lists'["winners"] = r
      BY <2>1, <3>2
    <3> QED
      BY <3>1, <3>3
  <2>7. Gathered(lists', before', game, a - 1)
    <3> DEFINE k == a - 2
    <3>1. /\ k \in 0..2 /\ k + 1 = a - 1 /\ Gathered(lists, before, game, k)
      BY <1>3
    <3>2. /\ Reached(b, lists["players"], s[k + 1].v.beats)
          /\ s[k + 1].v.name \notin Taken(lists)
      BY <2>2, <3>1
    <3> HIDE DEF k, b
    <3>3. Gathered(lists', before, game, k + 1)
      BY ONLY <2>1, <2>2, <2>6, <3>1, <3>2, PlaysRounds(game), GatheredMore DEF w, s
    <3> QED
      BY <2>3, <3>1, <3>3
  <2>8. Fair(lists', game)
    BY <2>6 DEF Fair
  <2>9. /\ Len(frames') = 4 /\ frames'[4].rules = frames[4].rules
        /\ frames'[4].loop = frames[4].loop /\ frames'[4].pos = 2
        /\ frames'[1] = frames[1] /\ frames'[2] = frames[2] /\ frames'[3] = frames[3]
    <3>1. /\ Len(frames') = 4 /\ frames'[4].rules = frames[4].rules
          /\ frames'[4].loop = frames[4].loop /\ frames'[4].pos = frames[4].pos + 1
          /\ \A i \in 1..4 : i # 4 => frames'[i] = frames[i]
      BY <1>4, <2>3, FramesAdvanced
    <3> QED
      BY <3>1
  <2>10. /\ AtWeapons(frames', game) /\ Within(frames'[3], WeaponRules, 2)
         /\ ~IsLoop(frames'[4]) /\ frames'[4].rules = GatherRules
    BY <1>1, <2>9 DEF AtWeapons, GoesOver, InRound, Root, IsLoop
  <2>11. Gathered(lists', before', game, frames'[3].loop.at - 1)
    BY <2>7, <2>9
  <2>12. Gathering(frames', lists', before', elements', game)
    BY <2>9, <2>10, <2>11 DEF Gathering
  <2> QED
    BY <2>8, <2>12 DEF Stage
<1> QED
  BY <1>7, <1>8, <1>9

LEMMA GatherEnds ==
  ASSUME NEW fixed, NEW views, NEW parts, Inv(fixed, views, parts), [Next]_vars,
         Fair(lists, game), Stage(frames, lists, before, elements, game),
         Len(frames) = 4, AtWeapons(frames, game), Within(frames[3], WeaponRules, 2),
         ~IsLoop(frames[4]), frames[4].rules = GatherRules, frames[4].pos = 2,
         Gathered(lists, before, game, frames[3].loop.at - 1)
  PROVE  Stage(frames', lists', before', elements', game)
<1>1. /\ frames # <<>> /\ Top = frames[4] /\ BodyDone(Top)
      /\ Len(Top.rules) \in Nat /\ Top.pos \in Nat
  BY InnerRules, TopIs
<1>2. UNCHANGED vars \/ EndRules
  BY <1>1, NoRuleIsNext
<1>3. CASE UNCHANGED vars
  BY <1>3, Stays
<1>4. CASE EndRules
  <2>1. /\ Len(frames') = 3 /\ lists' = lists /\ before' = before
        /\ frames'[1] = frames[1] /\ frames'[2] = frames[2] /\ frames'[3] = frames[3]
    <3>1. /\ Len(frames') = 3 /\ lists' = lists /\ before' = before
          /\ \A i \in 1..3 : frames'[i] = frames[i]
      BY <1>4, FramesEnded
    <3> QED
      BY <3>1
  <2>2. AtWeapons(frames', game)
    BY <2>1 DEF AtWeapons, InRound, Root
  <2>3. Gathering(frames', lists', before', elements', game)
    BY <2>1, <2>2 DEF Gathering
  <2> QED
    BY <2>1, <2>3 DEF Stage
<1> QED
  BY <1>2, <1>3, <1>4


-----------------------------------------------------------------------------
(* The wins are counted *)

\* There is no winner, or everybody is, or their wins are counted.
LEMMA RoundCounted ==
  ASSUME NEW fixed, NEW views, NEW parts, Inv(fixed, views, parts), [Next]_vars,
         Fair(lists, game), Stage(frames, lists, before, elements, game),
         Len(frames) = 3, InRound(frames, game, 5), ~IsLoop(frames[3]),
         \/ frames[3].rules = <<>> /\ frames[3].pos = 1
         \/ frames[3].rules = WonRules /\ frames[3].pos = 2,
         Scored(lists, before, game)
  PROVE  Stage(frames', lists', before', elements', game)
<1>1. \/ frames[3].rules = <<>> /\ frames[3].pos = 1
      \/ Len(frames[3].rules) = 1 /\ frames[3].pos = 2
  BY InnerRules
<1>2. /\ frames # <<>> /\ Top = frames[3] /\ BodyDone(Top)
      /\ Len(Top.rules) \in Nat /\ Top.pos \in Nat
  BY <1>1, NoSequence, TopIs
<1>3. UNCHANGED vars \/ EndRules
  BY <1>2, NoRuleIsNext
<1>4. CASE UNCHANGED vars
  BY <1>4, Stays
<1>5. CASE EndRules
  <2>1. /\ Len(frames') = 2 /\ lists' = lists /\ before' = before
        /\ frames'[1] = frames[1] /\ frames'[2] = frames[2]
    <3>1. /\ Len(frames') = 2 /\ lists' = lists /\ before' = before
          /\ \A i \in 1..2 : frames'[i] = frames[i]
      BY <1>5, FramesEnded
    <3> QED
      BY <3>1
  <2>2. InRound(frames', game, 5)
    BY <2>1 DEF InRound, Root
  <2> QED
    BY <2>1, <2>2 DEF Stage, BetweenRules
<1> QED
  BY <1>3, <1>4, <1>5

LEMMA CountingBegins ==
  ASSUME NEW fixed, NEW views, NEW parts, Inv(fixed, views, parts), [Next]_vars,
         Fair(lists, game), Stage(frames, lists, before, elements, game),
         Len(frames) = 3, AtWinners(frames, game, 1), Counting(lists, before, game, 0)
  PROVE  Stage(frames', lists', before', elements', game)
<1>0. InRound(frames, game, 5) /\ ~IsLoop(frames[3]) /\ frames[3].rules = WonRules
      /\ frames[3].pos = 1
  BY DEF AtWinners
<1>1. /\ frames # <<>> /\ Top = frames[3] /\ Top.pos <= Len(Top.rules)
      /\ Len(Top.rules) \in Nat /\ Top.pos \in Nat
      /\ Rule = ForEach(Itself("winners"), "winner", WinnerRules)
  BY <1>0, InnerRules, TopIs
<1>2. /\ Rule.rule = "foreach" /\ Rule.rules = WinnerRules /\ Rule.element = "winner"
      /\ Rule.query = Itself("winners")
  BY <1>1 DEF ForEach
<1>3. UNCHANGED vars \/ BeginForEach
  BY <1>1, <1>2, RuleIsNext
<1>4. CASE UNCHANGED vars
  BY <1>4, Stays
<1>5. CASE BeginForEach
  <2>1. PICK f : /\ frames' = Append(Advanced, f) /\ f.rules = <<>> /\ f.pos = 1
                 /\ f.loop.query = Itself("winners") /\ f.loop.element = "winner"
                 /\ f.loop.body = WinnerRules /\ f.loop.at = 1 /\ f.loop # NoLoop
    BY <1>2, <1>5, BegunLoop
  <2>2. lists' = lists /\ before' = before
    BY <1>5, BegunLoop
  <2>3. /\ Len(frames') = 4 /\ frames'[3].rules = frames[3].rules
        /\ frames'[3].loop = frames[3].loop /\ frames'[3].pos = 2
        /\ frames'[1] = frames[1] /\ frames'[2] = frames[2] /\ frames'[4] = f
    <3>1. /\ Len(frames') = 4 /\ frames'[3].rules = frames[3].rules
          /\ frames'[3].loop = frames[3].loop /\ frames'[3].pos = frames[3].pos + 1
          /\ \A i \in 1..3 : i # 3 => frames'[i] = frames[i]
          /\ frames'[4] = f
      BY <1>1, <2>1, FramesBegun
    <3> QED
      BY <1>0, <3>1
  <2>4. AtWinners(frames', game, 2)
    BY <1>0, <2>3 DEF AtWinners, InRound, Root, IsLoop
  <2>5. GoesOver(frames'[4], "winners", "winner", WinnerRules) /\ Fresh(frames'[4])
    BY <2>1, <2>3 DEF GoesOver, IsLoop, Fresh
  <2>6. Ending(frames', lists', before', elements', game)
    BY <2>2, <2>3, <2>4, <2>5 DEF Ending
  <2> QED
    BY <2>2, <2>6 DEF Stage
<1> QED
  BY <1>3, <1>4, <1>5

LEMMA NextWinner ==
  ASSUME NEW fixed, NEW views, NEW parts, Inv(fixed, views, parts),
         PlaysRounds(game), [Next]_vars,
         Fair(lists, game), Stage(frames, lists, before, elements, game),
         Len(frames) = 4, AtWinners(frames, game, 2),
         GoesOver(frames[4], "winners", "winner", WinnerRules),
         \/ Fresh(frames[4]) /\ Counting(lists, before, game, 0)
         \/ /\ Within(frames[4], WinnerRules, 2)
            /\ Counting(lists, before, game, frames[4].loop.at - 1)
  PROVE  Stage(frames', lists', before', elements', game)
<1> DEFINE a == frames[4].loop.at
           w == lists["winners"].items
<1>0. InRound(frames, game, 5) /\ ~IsLoop(frames[3]) /\ frames[3].rules = WonRules
      /\ frames[3].pos = 2 /\ IsLoop(frames[4])
  BY DEF AtWinners, GoesOver
<1>1. "winners" \in DOMAIN lists /\ Len(w) \in Nat
  BY TablesAre
<1>2. /\ frames[4].loop.buf = lists["winners"].buf /\ frames[4].loop.had = w
      /\ a \in 1..(Len(w) + 1)
  <2>1. 4 \in 1..Len(frames)
    OBVIOUS
  <2>2. /\ frames[4].loop.buf = lists["winners"].buf
        /\ frames[4].loop.had = lists["winners"].items
        /\ frames[4].loop.at \in 1..(Len(lists["winners"].items) + 1)
    BY <2>1, LoopOver
  <2> QED
    BY <2>2
<1>3. Counting(lists, before, game, a - 1)
  <2>1. CASE Fresh(frames[4]) /\ Counting(lists, before, game, 0)
    <3>1. a - 1 = 0
      BY <2>1 DEF Fresh
    <3> QED
      BY <2>1, <3>1
  <2> QED
    BY <2>1
<1>4. \/ frames[4].rules = <<>> /\ frames[4].pos = 1
      \/ Len(frames[4].rules) = 1 /\ frames[4].pos = 2
  BY InnerRules DEF Fresh, Within
<1>5. /\ frames # <<>> /\ Top = frames[4] /\ BodyDone(Top)
      /\ Len(Top.rules) \in Nat /\ Top.pos \in Nat
  BY <1>4, NoSequence, TopIs
<1>6. UNCHANGED vars \/ Visit \/ EndRules
  BY <1>5, NoRuleIsNext
<1>7. CASE UNCHANGED vars
  BY <1>7, Stays
<1>8. CASE Visit
  <2> DEFINE b == frames'[4].loop.at
  <2>1. /\ Len(frames') = 4 /\ IsLoop(frames'[4])
        /\ frames'[4].rules = frames[4].loop.body /\ frames'[4].pos = 1
        /\ frames'[4].loop.query = frames[4].loop.query
        /\ frames'[4].loop.element = frames[4].loop.element
        /\ frames'[4].loop.body = frames[4].loop.body
        /\ b = a + 1 /\ a \in 1..Len(frames[4].loop.had)
        /\ lists' = lists /\ before' = before
    BY <1>8, FramesVisited
  <2>2. frames'[1] = frames[1] /\ frames'[2] = frames[2] /\ frames'[3] = frames[3]
    <3>1. \A i \in 1..4 : i # 4 => frames'[i] = frames[i]
      BY <1>8, FramesVisited
    <3> QED
      BY <3>1
  <2>3. /\ frames[4].loop.element \in DOMAIN elements'
        /\ elements'[frames[4].loop.element]
              = getReference(frames[4].loop.had[a], frames[4].loop.buf, a)
    BY <1>8, FramesVisited
  <2>4. a \in 1..Len(w)
    BY <1>2, <2>1
  <2>5. w[a].is = "pointer"
    <3>1. w[a] = Pointer(lists["players"].buf, w[a].at)
      BY <1>3, <2>4 DEF Counting, Listed
    <3>2. \A u, v : Pointer(u, v).is = "pointer"
      BY DEF Pointer
    <3> HIDE DEF w
    <3> QED
      BY <3>1, <3>2
  <2>6. IsAt(elements', "winner", w[a])
    BY <1>2, <2>3, <2>5 DEF IsAt, GoesOver, getReference
  <2>7. b - 1 = a /\ b - 2 = a - 1 /\ b - 2 \in Nat
    <3>1. a \in Int /\ 1 <= a
      BY <1>1, <2>4
    <3> HIDE DEF a, b
    <3> QED
      BY <2>1, <3>1
  <2>8. AtWinners(frames', game, 2)
    BY <1>0, <2>1, <2>2 DEF AtWinners, InRound, Root
  <2>9. Within(frames'[4], WinnerRules, 1) /\ GoesOver(frames'[4], "winners", "winner", WinnerRules)
    BY <2>1, <2>7 DEF Within, GoesOver
  <2>10. Counting(lists', before', game, b - 2)
    BY <1>3, <2>1, <2>7
  <2>11. IsAt(elements', "winner", lists'["winners"].items[b - 1])
    BY <2>1, <2>6, <2>7
  <2> HIDE DEF a
  <2>12. Ending(frames', lists', before', elements', game)
    BY <2>1, <2>8, <2>9, <2>10, <2>11 DEF Ending
  <2> QED
    BY <2>1, <2>12 DEF Stage
<1>9. CASE EndRules
  <2>1. /\ Len(frames') = 3 /\ lists' = lists /\ before' = before
        /\ a = Len(frames[4].loop.had) + 1
        /\ frames'[1] = frames[1] /\ frames'[2] = frames[2] /\ frames'[3] = frames[3]
    <3>1. /\ Len(frames') = 3 /\ lists' = lists /\ before' = before
          /\ a = Len(frames[4].loop.had) + 1
          /\ \A i \in 1..3 : frames'[i] = frames[i]
      BY <1>0, <1>9, FramesEnded
    <3> QED
      BY <3>1
  <2>2. a - 1 = Len(w)
    BY <1>1, <1>2, <2>1
  <2>3. Scored(lists', before', game)
    BY <1>3, <2>1, <2>2, AllCounted
  <2>4. AtWinners(frames', game, 2)
    BY <1>0, <2>1 DEF AtWinners, InRound, Root
  <2>5. Ending(frames', lists', before', elements', game)
    BY <2>1, <2>3, <2>4 DEF Ending
  <2> QED
    BY <2>1, <2>5 DEF Stage
<1> QED
  BY <1>6, <1>7, <1>8, <1>9

LEMMA WinCounted ==
  ASSUME NEW fixed, NEW views, NEW parts, Inv(fixed, views, parts),
         PlaysRounds(game), [Next]_vars,
         Fair(lists, game), Stage(frames, lists, before, elements, game),
         Len(frames) = 4, AtWinners(frames, game, 2),
         GoesOver(frames[4], "winners", "winner", WinnerRules),
         Within(frames[4], WinnerRules, 1),
         Counting(lists, before, game, frames[4].loop.at - 2),
         IsAt(elements, "winner", lists["winners"].items[frames[4].loop.at - 1])
  PROVE  Stage(frames', lists', before', elements', game)
<1> DEFINE a == frames[4].loop.at
           k == a - 2
           w == lists["winners"].items
           s == lists["players"].items
           p == elements["winner"]
           i0 == w[k + 1].at
<1>0. InRound(frames, game, 5) /\ ~IsLoop(frames[3]) /\ frames[3].rules = WonRules
      /\ frames[3].pos = 2 /\ IsLoop(frames[4])
  BY DEF AtWinners, GoesOver
<1>1. /\ {"players", "weapons", "winners"} \subseteq DOMAIN lists
      /\ Len(w) \in Nat /\ IsSequence(s) /\ Len(s) \in Nat
      /\ lists["players"] = [buf |-> lists["players"].buf, cap |-> lists["players"].cap, items |-> s]
      /\ \A l \in DOMAIN lists : lists[l].buf = lists["players"].buf => l = "players"
  BY TablesAre
<1>2. k \in Nat /\ k + 1 = a - 1 /\ k + 1 \in 1..Len(w) /\ k + 1 <= Len(w)
  <2>1. 4 \in 1..Len(frames)
    OBVIOUS
  <2>2. a \in 1..(Len(w) + 1)
    BY <2>1, LoopOver
  <2>3. a - 2 \in Nat
    BY DEF Within
  <2> HIDE DEF a, w
  <2> QED
    BY <1>1, <2>2, <2>3
<1>3. /\ w[k + 1] = Pointer(lists["players"].buf, i0) /\ i0 \in 1..Len(s)
  BY <1>2 DEF Counting, Listed
<1>4. p = Pointer(lists["players"].buf, i0)
  BY <1>2, <1>3 DEF IsAt
<1>5. s[i0].is = "value"
  BY <1>3 DEF Fair
<1> HIDE DEF i0, a
<1>6. Target(p) = p /\ Reaches(p) /\ Read(p) = s[i0].v
  BY <1>1, <1>3, <1>4, <1>5, ReadInList
<1>7. /\ frames # <<>> /\ Top = frames[4] /\ Top.pos <= Len(Top.rules)
      /\ Len(Top.rules) \in Nat /\ Top.pos \in Nat /\ Rule = AddTo("winner")
  <2>1. frames[4].rules = WinnerRules /\ frames[4].pos = 1 /\ Len(WinnerRules) = 1
        /\ WinnerRules[1] = AddTo("winner")
    BY InnerRules DEF Within
  <2> QED
    BY <2>1, TopIs
<1>8. Rule.rule = "add" /\ Rule.element = "winner"
  BY <1>7 DEF AddTo
<1>9. UNCHANGED vars \/ Add
  BY <1>7, <1>8, RuleIsNext
<1>10. CASE UNCHANGED vars
  BY <1>10, Stays
<1>11. CASE Add
  <2> DEFINE x == Winning(s[i0])
  <2>1. /\ Write(p, [Read(p) EXCEPT !.wins = @ + 1])
        /\ frames' = Advanced /\ before' = before /\ elements' = elements
    BY <1>6, <1>8, <1>11 DEF Add, Advance
  <2>2. Value([Read(p) EXCEPT !.wins = @ + 1]) = x
    BY <1>6 DEF Winning
  <2>3. p.buf = lists["players"].buf /\ p.at = i0
    <3>1. \A u, v : Pointer(u, v).buf = u /\ Pointer(u, v).at = v
      BY DEF Pointer
    <3> HIDE DEF p
    <3> QED
      BY <1>4, <3>1
  <2> HIDE DEF x, p
  <2>4. lists' = [l \in DOMAIN lists |->
                    IF lists[l].buf = p.buf THEN [lists[l] EXCEPT !.items[p.at] = x] ELSE lists[l]]
    BY <2>1, <2>2 DEF Write
  <2>5. /\ lists'["winners"] = lists["winners"] /\ lists'["weapons"] = lists["weapons"]
        /\ lists'["players"] = [lists["players"] EXCEPT !.items[i0] = x]
    BY <1>1, <2>3, <2>4
  <2>6. /\ lists'["players"].buf = lists["players"].buf
        /\ lists'["players"].items = [s EXCEPT ![i0] = x]
    <3> DEFINE l == lists["players"]
    <3>1. l = [buf |-> l.buf, cap |-> l.cap, items |-> l.items]
      BY <1>1
    <3>2. lists'["players"] = [l EXCEPT !.items[i0] = x]
      BY <2>5
    <3> HIDE DEF l
    <3>3. lists'["players"].buf = l.buf /\ lists'["players"].items = [l.items EXCEPT ![i0] = x]
      BY <3>1, <3>2
    <3> QED
      BY <3>3 DEF l
  <2>7. /\ Len(lists'["players"].items) = Len(s)
        /\ \A i \in 1..Len(s) : lists'["players"].items[i] = IF i = i0 THEN Winning(s[i]) ELSE s[i]
    <3> DEFINE t == lists'["players"].items
    <3>1. s = [i \in 1..Len(s) |-> s[i]]
      BY <1>1, AnySequence
    <3>2. t = [s EXCEPT ![i0] = x]
      BY <2>6
    <3> HIDE DEF s, t
    <3>3. t = [i \in 1..Len(s) |-> t[i]] /\ t[i0] = x /\ \A i \in 1..Len(s) : i # i0 => t[i] = s[i]
      BY <1>3, <3>1, <3>2
    <3>4. Len(t) = Len(s)
      BY <1>1, <3>3, MadeSequence
    <3> QED
      BY <3>3, <3>4 DEF t, x
  <2>8. Fair(lists', game) /\ Counting(lists', before, game, k + 1)
    <3>1. /\ k \in Nat /\ Counting(lists, before, game, k) /\ Fair(lists, game)
          /\ k + 1 <= Len(lists["winners"].items) /\ Len(lists["winners"].items) \in Nat
          /\ i0 = lists["winners"].items[k + 1].at
      BY <1>1, <1>2 DEF i0, a
    <3>2. \A i \in 1..Len(lists["players"].items) :
             lists'["players"].items[i] =
                IF i = i0 THEN Winning(lists["players"].items[i]) ELSE lists["players"].items[i]
      BY <2>7
    <3>3. Len(lists'["players"].items) = Len(lists["players"].items)
      BY <2>7
    <3>4. /\ lists'["winners"] = lists["winners"] /\ lists'["weapons"] = lists["weapons"]
          /\ lists'["players"].buf = lists["players"].buf
      BY <2>5, <2>6
    <3> HIDE DEF k
    <3> QED
      BY ONLY <3>1, <3>2, <3>3, <3>4, CountedOne
  <2>9. /\ Len(frames') = 4 /\ frames'[4].rules = frames[4].rules
        /\ frames'[4].loop = frames[4].loop /\ frames'[4].pos = 2
        /\ frames'[1] = frames[1] /\ frames'[2] = frames[2] /\ frames'[3] = frames[3]
    <3>1. /\ Len(frames') = 4 /\ frames'[4].rules = frames[4].rules
          /\ frames'[4].loop = frames[4].loop /\ frames'[4].pos = frames[4].pos + 1
          /\ \A i \in 1..4 : i # 4 => frames'[i] = frames[i]
      BY <1>7, <2>1, FramesAdvanced
    <3>2. frames[4].pos = 1
      BY DEF Within
    <3> QED
      BY <3>1, <3>2
  <2>10. AtWinners(frames', game, 2)
    BY <1>0, <2>9 DEF AtWinners, InRound, Root
  <2>11. /\ GoesOver(frames'[4], "winners", "winner", WinnerRules)
         /\ Within(frames'[4], WinnerRules, 2)
    BY <2>9 DEF GoesOver, IsLoop, Within
  <2>12. Counting(lists', before', game, frames'[4].loop.at - 1)
    BY <1>2, <2>1, <2>8, <2>9 DEF a
  <2>13. Ending(frames', lists', before', elements', game)
    BY <2>9, <2>10, <2>11, <2>12 DEF Ending
  <2> QED
    BY <2>8, <2>13 DEF Stage
<1> QED
  BY <1>9, <1>10, <1>11


-----------------------------------------------------------------------------
(* The rounds are scored *)

LEMMA StageKept ==
  ASSUME NEW fixed, NEW views, NEW parts, Inv(fixed, views, parts),
         Orderly(game, fixed, views, parts), PlaysRounds(game), [Next]_vars,
         Stage(frames, lists, before, elements, game)
  PROVE  Stage(frames', lists', before', elements', game)
<1>0. Fair(lists, game)
  BY DEF Stage
<1>1. CASE BeforeRounds(frames, before, game)
  <2>1. CASE before = <<>> /\ Len(frames) = 1 /\ Root(frames, game, 1)
    BY <1>0, <2>1, RoundsBegin
  <2>2. CASE /\ Len(frames) = 2 /\ Root(frames, game, 2) /\ Fresh(frames[2])
             /\ IsLoop(frames[2]) /\ IsRound(frames[2].loop.body, game)
    BY <1>0, <2>2, NextRound DEF Fresh
  <2> QED
    BY <1>1, <2>1, <2>2 DEF BeforeRounds
<1>2. CASE AfterRounds(frames, game)
  BY <1>0, <1>2, RoundsOver
<1>3. CASE BetweenRules(frames, lists, before, game)
  <2>0. Len(frames) = 2
    BY <1>3 DEF BetweenRules
  <2>1. CASE InRound(frames, game, 1)
    BY <1>0, <2>0, <2>1, WeaponsChosen
  <2>2. CASE InRound(frames, game, 2) /\ Counted(lists, before, game, 0)
    BY <1>0, <2>0, <2>2, WinnersDiscarded
  <2>3. CASE InRound(frames, game, 3) /\ Gathered(lists, before, game, 0)
    BY <1>0, <2>0, <2>3, GatheringBegins
  <2>4. CASE InRound(frames, game, 4) /\ Gathered(lists, before, game, 3)
    BY <1>0, <2>0, <2>4, WinnersKnown
  <2>5. CASE InRound(frames, game, 5)
    <3>1. /\ Root(frames, game, 2) /\ IsLoop(frames[2]) /\ IsRound(frames[2].loop.body, game)
          /\ IsRound(frames[2].rules, game) /\ frames[2].pos = 5
      BY <2>5 DEF InRound
    <3> QED
      BY <1>0, <2>0, <3>1, NextRound
  <2> QED
    BY <1>3, <2>1, <2>2, <2>3, <2>4, <2>5 DEF BetweenRules
<1>4. CASE Gathering(frames, lists, before, elements, game)
  <2> DEFINE a == frames[3].loop.at
             p == Pointer(lists["weapons"].buf, a - 1)
  <2>0. AtWeapons(frames, game)
    BY <1>4 DEF Gathering
  <2>1. CASE /\ Len(frames) = 3
             /\ \/ Fresh(frames[3]) /\ Gathered(lists, before, game, 0)
                \/ /\ Within(frames[3], WeaponRules, 2)
                   /\ Gathered(lists, before, game, a - 1)
    BY <1>0, <2>0, <2>1, NextWeapon
  <2>2. CASE /\ Len(frames) = 3 /\ Within(frames[3], WeaponRules, 1)
             /\ Gathered(lists, before, game, a - 2) /\ IsAt(elements, "weapon", p)
    BY <1>0, <2>0, <2>2, WeaponTried
  <2>3. CASE /\ Len(frames) = 4 /\ Within(frames[3], WeaponRules, 2)
             /\ ~IsLoop(frames[4]) /\ frames[4].rules = GatherRules
             /\ frames[4].pos = 1 /\ Gathered(lists, before, game, a - 2)
             /\ IsAt(elements, "weapon", p)
             /\ game.lists["weapons"].items[a - 1].v.name \notin Taken(lists)
    BY <1>0, <2>0, <2>3, PlayersGathered
  <2>4. CASE /\ Len(frames) = 4 /\ Within(frames[3], WeaponRules, 2)
             /\ ~IsLoop(frames[4]) /\ frames[4].rules = GatherRules
             /\ frames[4].pos = 2 /\ Gathered(lists, before, game, a - 1)
    BY <1>0, <2>0, <2>4, GatherEnds
  <2> QED
    BY <1>4, <2>1, <2>2, <2>3, <2>4 DEF Gathering
<1>5. CASE Ending(frames, lists, before, elements, game)
  <2> DEFINE a == frames[4].loop.at
             w == lists["winners"].items
  <2>1. CASE /\ Len(frames) = 3 /\ InRound(frames, game, 5) /\ ~IsLoop(frames[3])
             /\ frames[3].rules = <<>> /\ frames[3].pos = 1 /\ Scored(lists, before, game)
    BY <1>0, <2>1, RoundCounted
  <2>2. CASE Len(frames) = 3 /\ AtWinners(frames, game, 1) /\ Counting(lists, before, game, 0)
    BY <1>0, <2>2, CountingBegins
  <2>3. CASE Len(frames) = 3 /\ AtWinners(frames, game, 2) /\ Scored(lists, before, game)
    <3>1. InRound(frames, game, 5) /\ ~IsLoop(frames[3]) /\ frames[3].rules = WonRules
          /\ frames[3].pos = 2
      BY <2>3 DEF AtWinners
    <3> QED
      BY <1>0, <2>3, <3>1, RoundCounted
  <2>4. CASE /\ Len(frames) = 4 /\ AtWinners(frames, game, 2)
             /\ GoesOver(frames[4], "winners", "winner", WinnerRules)
             /\ \/ Fresh(frames[4]) /\ Counting(lists, before, game, 0)
                \/ Within(frames[4], WinnerRules, 2) /\ Counting(lists, before, game, a - 1)
    BY <1>0, <2>4, NextWinner
  <2>5. CASE /\ Len(frames) = 4 /\ AtWinners(frames, game, 2)
             /\ GoesOver(frames[4], "winners", "winner", WinnerRules)
             /\ Within(frames[4], WinnerRules, 1) /\ Counting(lists, before, game, a - 2)
             /\ IsAt(elements, "winner", w[a - 1])
    BY <1>0, <2>5, WinCounted
  <2> QED
    BY <1>5, <2>1, <2>2, <2>3, <2>4, <2>5 DEF Ending
<1> QED
  BY <1>1, <1>2, <1>3, <1>4, <1>5 DEF Stage

LEMMA StageBegins ==
  ASSUME Init, NEW fixed, NEW views, NEW parts, Orderly(game, fixed, views, parts),
         PlaysRounds(game)
  PROVE  Stage(frames, lists, before, elements, game)
<1>1. lists = game.lists /\ frames = <<Frame(game.rules, NoLoop)>> /\ before = <<>>
  BY DEF Init
<1>2. Fair(lists, game)
  <2>1. "players" \in DOMAIN game.lists
    BY DEF PlaysRounds
  <2>2. \A i \in 1..Len(lists["players"].items) : lists["players"].items[i].is = "value"
    BY <1>1, <2>1 DEF Orderly
  <2> QED
    BY <1>1, <2>2 DEF Fair, PlaysRounds
<1>3. Len(frames) = 1 /\ Root(frames, game, 1)
  <2> DEFINE f == Frame(game.rules, NoLoop)
  <2>1. f.rules = game.rules /\ f.pos = 1 /\ f.loop = NoLoop
    BY DEF Frame
  <2> HIDE DEF f
  <2>2. Len(frames) = 1 /\ frames[1] = f
    BY <1>1 DEF f
  <2> QED
    BY <2>1, <2>2 DEF Root, IsLoop
<1> QED
  BY <1>1, <1>2, <1>3 DEF Stage, BeforeRounds

LEMMA StageScores ==
  ASSUME Stage(frames, lists, before, elements, game)
  PROVE  RoundsScored
<1> SUFFICES ASSUME RoundEnds, NEW i \in 1..Len(Players)
             PROVE  Players[i].v.wins = before[i] + IF Won(i) THEN 1 ELSE 0
  BY DEF RoundsScored
<1>1. before # <<>> /\ Len(frames) = 2 /\ BodyDone(frames[2])
  BY DEF RoundEnds
<1>2. \A pos \in 1..4 : ~InRound(frames, game, pos)
  <2> SUFFICES ASSUME NEW pos \in 1..4, InRound(frames, game, pos) PROVE FALSE
    OBVIOUS
  <2>1. Len(RoundRules(WeaponNames(game))) = 4
    BY ONLY RulesAre
  <2>2. frames[2].rules = RoundRules(WeaponNames(game)) /\ frames[2].pos = pos
    BY DEF InRound, IsRound
  <2>3. pos > Len(RoundRules(WeaponNames(game)))
    BY ONLY <1>1, <2>2 DEF BodyDone
  <2>4. pos > 4
    BY ONLY <2>1, <2>3
  <2> QED
    BY ONLY <2>4, pos \in 1..4
<1>3. Fair(lists, game) /\ Scored(lists, before, game)
  <2>1. ~BeforeRounds(frames, before, game) /\ ~AfterRounds(frames, game)
    BY <1>1 DEF BeforeRounds, AfterRounds
  <2>2. ~Gathering(frames, lists, before, elements, game)
    BY <1>1 DEF Gathering
  <2>3. ~Ending(frames, lists, before, elements, game)
    BY <1>1 DEF Ending
  <2>4. BetweenRules(frames, lists, before, game) => Scored(lists, before, game)
    BY <1>2 DEF BetweenRules
  <2> QED
    BY <2>1, <2>2, <2>3, <2>4 DEF Stage
<1>4. Won(i) <=> HasWon(lists, game, i)
  <2>1. lists["weapons"] = game.lists["weapons"]
    BY <1>3 DEF Fair
  <2>2. BeatsOf(Players[i].v.weapon)
           = BeatenBy(game.lists["weapons"].items, lists["players"].items[i].v.weapon)
    BY <2>1 DEF BeatsOf, BeatenBy, Players
  <2>3. Won(i) <=> /\ Cardinality(Taken(lists)) = 2
                   /\ BeatsOf(Players[i].v.weapon) \in Taken(lists)
    BY DEF Won, Taken, Players
  <2> QED
    BY <2>2, <2>3 DEF HasWon
<1>5. /\ Players[i].v.wins \in Nat
      /\ Players[i].v.wins = IF HasWon(lists, game, i) THEN before[i] + 1 ELSE before[i]
  BY <1>3 DEF Fair, Scored, Players
<1>6. CASE Won(i)
  BY <1>4, <1>5, <1>6
<1>7. CASE ~Won(i)
  <2>1. Players[i].v.wins = before[i] /\ before[i] \in Nat
    BY <1>4, <1>5, <1>7
  <2> QED
    BY <1>7, <2>1
<1> QED
  BY <1>6, <1>7

\* Where nobody chooses there are no rounds.
LEMMA NoChoice ==
  ASSUME NEW fixed, NEW views, NEW parts, Inv(fixed, views, parts),
         Orderly(game, fixed, views, parts), WithoutChoice(parts), [Next]_vars
  PROVE  before' = before
<1>1. ~Choose
  <2> SUFFICES ASSUME Choose PROVE FALSE
    OBVIOUS
  <2>1. frames # <<>> /\ Top.pos <= Len(Top.rules) /\ Rule.rule = "choose"
    BY DEF Choose, At
  <2> DEFINE part == Part(Top.rules, NamesOf(frames, Len(frames)), GoneOf(frames, Len(frames)))
  <2>2. part \in parts /\ Top.pos \in 1..Len(Top.rules)
    BY <2>1, RuleMayRun
  <2>3. part.rules = Top.rules
    BY DEF Part
  <2> HIDE DEF part
  <2> QED
    BY <2>1, <2>2, <2>3 DEF WithoutChoice, Rule
<1>2. CASE Extend \/ Discard \/ Deal \/ Add \/ When \/ BeginForEach \/ Visit \/ EndRules
  BY <1>2 DEF Extend, Discard, Deal, Add, When, BeginForEach, Visit, EndRules
<1>3. CASE ReverseList \/ Shuffle \/ Sort
  BY <1>3 DEF ReverseList, Shuffle, Sort, Rearrange
<1>4. CASE UNCHANGED vars
  BY <1>4 DEF vars
<1> QED
  BY <1>1, <1>2, <1>3, <1>4 DEF Next, Done

\* Every game that is played is orderly, and is rock, paper, scissors or without
\* anything to choose.
AllScored ==
    \A g \in Games : \E fixed, views, parts :
        Orderly(g, fixed, views, parts) /\ (PlaysRounds(g) \/ WithoutChoice(parts))

ScoredInv ==
    \E fixed, views, parts :
        /\ Orderly(game, fixed, views, parts) /\ Inv(fixed, views, parts)
        /\ \/ PlaysRounds(game) /\ Stage(frames, lists, before, elements, game)
           \/ WithoutChoice(parts) /\ before = <<>>

\* At the end of each round of rock, paper, scissors those have one more win, and
\* nobody else, who beat the only other weapon that was chosen: with any number
\* of players and of rounds, and whatever the list that collect fills, the loops
\* over it and the addresses in it go through to get there.
THEOREM RoundsAreScored ==
  ASSUME AllScored
  PROVE  Spec => []RoundsScored
<1>1. Init => ScoredInv
  <2> SUFFICES ASSUME Init PROVE ScoredInv
    OBVIOUS
  <2>1. PICK fixed, views, parts :
           Orderly(game, fixed, views, parts) /\ (PlaysRounds(game) \/ WithoutChoice(parts))
    BY DEF AllScored, Init
  <2>2. Inv(fixed, views, parts)
    BY <2>1, InitInv
  <2>3. PlaysRounds(game) => Stage(frames, lists, before, elements, game)
    BY <2>1, StageBegins
  <2>4. before = <<>>
    BY DEF Init
  <2> QED
    BY <2>1, <2>2, <2>3, <2>4 DEF ScoredInv
<1>2. ScoredInv /\ [Next]_vars => ScoredInv'
  <2> SUFFICES ASSUME ScoredInv, [Next]_vars PROVE ScoredInv'
    OBVIOUS
  <2>1. PICK fixed, views, parts :
           /\ Orderly(game, fixed, views, parts) /\ Inv(fixed, views, parts)
           /\ \/ PlaysRounds(game) /\ Stage(frames, lists, before, elements, game)
              \/ WithoutChoice(parts) /\ before = <<>>
    BY DEF ScoredInv
  <2>2. game' = game
    BY SameGame
  <2>3. Inv(fixed, views, parts)'
    BY <2>1, NextInv
  <2>4. CASE PlaysRounds(game) /\ Stage(frames, lists, before, elements, game)
    <3>1. Stage(frames', lists', before', elements', game)
      BY <2>1, <2>4, StageKept
    <3> QED
      BY <2>1, <2>2, <2>3, <2>4, <3>1 DEF ScoredInv
  <2>5. CASE WithoutChoice(parts) /\ before = <<>>
    <3>1. before' = <<>>
      BY <2>1, <2>5, NoChoice
    <3> QED
      BY <2>1, <2>2, <2>3, <2>5, <3>1 DEF ScoredInv
  <2> QED
    BY <2>1, <2>4, <2>5
<1>3. ScoredInv => RoundsScored
  <2> SUFFICES ASSUME ScoredInv PROVE RoundsScored
    OBVIOUS
  <2>1. CASE Stage(frames, lists, before, elements, game)
    BY <2>1, StageScores
  <2>2. CASE before = <<>>
    BY <2>2 DEF RoundsScored, RoundEnds
  <2> QED
    BY <2>1, <2>2 DEF ScoredInv
<1> QED
  BY <1>1, <1>2, <1>3, PTL DEF Spec
=============================================================================
