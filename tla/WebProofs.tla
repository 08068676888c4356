------------------------------ MODULE WebProofs ------------------------------
(***************************************************************************)
(* Proofs about Http: a session, for any number of requests, whatever they *)
(* are and whenever the operations under way fail.  And about Web: the     *)
(* session at the server behaves as module Http says whatever is at the    *)
(* other end, and the client neither loses nor reorders what it shows, nor *)
(* takes a text out of an empty queue; for any texts and any bounds.       *)
(***************************************************************************)
EXTENDS Web, FiniteSetTheorems, SequenceTheorems, TLAPS

-----------------------------------------------------------------------------
(* The answers to one request *)

LEMMA AnswersAreResponses ==
    ASSUME NEW r \in Request, NEW n \in Nat
    PROVE  AnswersTo(r, n + 1) \subseteq Response
<1> SUFFICES ASSUME NEW w \in AnswersTo(r, n + 1) PROVE w \in Response
  OBVIOUS
<1>1. PICK a \in Answers : w = [n |-> n + 1, is |-> a, keep |-> r.keep]
  BY DEF AnswersTo, Answers
<1>2. r.keep \in BOOLEAN /\ n + 1 \in Nat \ {0}
  BY DEF Request
<1>3. QED BY <1>1, <1>2 DEF Response

\* Adding to a finite set what is one element or none.
LEMMA AddAtMostOne ==
    ASSUME NEW S, IsFiniteSet(S), NEW x, NEW b \in BOOLEAN
    PROVE  LET T == S \cup (IF b THEN {} ELSE {x}) IN
           /\ IsFiniteSet(T)
           /\ Cardinality(T) \in Nat
           /\ Cardinality(T) <= Cardinality(S) + (IF b THEN 0 ELSE 1)
<1>1. Cardinality(S) \in Nat
  BY FS_CardinalityType
<1>2. CASE b
  BY <1>1, <1>2
<1>3. CASE ~b
  <2>1. IsFiniteSet(S \cup {x})
    BY FS_AddElement, Zenon
  <2>2. Cardinality(S \cup {x}) = Cardinality(S)
          \/ Cardinality(S \cup {x}) = Cardinality(S) + 1
    BY FS_AddElement, Zenon
  <2>3. QED BY <1>1, <1>3, <2>1, <2>2
<1>4. QED BY <1>2, <1>3

\* A request is answered once, and once more for each thing that is bad in it.
LEMMA AnswersCounted ==
    ASSUME NEW W, IsFiniteSet(W), NEW r \in Request, NEW n
    PROVE  LET T == W \cup AnswersTo(r, n) IN
           /\ IsFiniteSet(T)
           /\ Cardinality(T) \in Nat
           /\ Cardinality(T) <= Cardinality(W) + 1 + (IF r.method THEN 0 ELSE 1)
                                                   + (IF r.target THEN 0 ELSE 1)
<1> DEFINE Of(a) == [n |-> n, is |-> a, keep |-> r.keep]
           A == W \cup (IF FALSE THEN {} ELSE {Of("page")})
           B == A \cup (IF r.method THEN {} ELSE {Of("unknown method")})
           C == B \cup (IF r.target THEN {} ELSE {Of("illegal target")})
<1>1. r.method \in BOOLEAN /\ r.target \in BOOLEAN
  BY DEF Request
<1>2. IsFiniteSet(A) /\ Cardinality(A) \in Nat /\ Cardinality(A) <= Cardinality(W) + 1
  BY AddAtMostOne
<1>3. /\ IsFiniteSet(B) /\ Cardinality(B) \in Nat
      /\ Cardinality(B) <= Cardinality(A) + (IF r.method THEN 0 ELSE 1)
  <2> HIDE DEF A
  <2> QED BY <1>1, <1>2, AddAtMostOne
<1>4. /\ IsFiniteSet(C) /\ Cardinality(C) \in Nat
      /\ Cardinality(C) <= Cardinality(B) + (IF r.target THEN 0 ELSE 1)
  <2> HIDE DEF B
  <2> QED BY <1>1, <1>3, AddAtMostOne
<1>5. W \cup AnswersTo(r, n) = C
  BY DEF AnswersTo
<1>6. Cardinality(W) \in Nat
  BY FS_CardinalityType
<1> HIDE DEF A, B, C
<1>7. QED BY <1>2, <1>3, <1>4, <1>5, <1>6

-----------------------------------------------------------------------------
(* Types *)

\* The variables keep their types; so the operations under way can be counted.
THEOREM HttpTypeCorrect == HttpSpec => []HttpTypeOK
<1>1. HttpInit => HttpTypeOK
  <2>1. IsFiniteSet({}) /\ <<>> \in Seq(Request) /\ <<>> \in Seq(Response)
    BY FS_EmptySet
  <2>2. HttpInit => writes \subseteq Response /\ IsFiniteSet(writes)
    BY <2>1, Zenon DEF HttpInit
  <2>3. HttpInit => pending \in Seq(Request) /\ written \in Seq(Response)
    BY <2>1, Zenon DEF HttpInit
  <2>4. HttpInit => /\ socket \in {"listening", "open", "moved", "registered"}
                    /\ lost \in BOOLEAN /\ shut \in BOOLEAN
                    /\ reads \in Nat /\ handled \in Nat /\ bad \in Nat
    <3>1. 0 \in Nat
      OBVIOUS
    <3>2. QED BY <3>1, Zenon DEF HttpInit
  <2>5. QED BY <2>2, <2>3, <2>4, Zenon DEF HttpTypeOK
<1>2. HttpTypeOK /\ [HttpNext]_httpVars => HttpTypeOK'
  <2> SUFFICES ASSUME HttpTypeOK, [HttpNext]_httpVars PROVE HttpTypeOK'
    OBVIOUS
  <2> USE DEF HttpTypeOK
  <2>1. ASSUME AcceptSocket PROVE HttpTypeOK'
    BY <2>1 DEF AcceptSocket
  <2>2. ASSUME HandleRequest PROVE HttpTypeOK'
    <3>1. pending # <<>> /\ pending \in Seq(Request)
      BY <2>2 DEF HandleRequest
    <3>2. Head(pending) \in Request /\ Tail(pending) \in Seq(Request)
      BY ONLY <3>1
    <3>3. /\ IsFiniteSet(writes \cup AnswersTo(Head(pending), handled + 1))
          /\ writes \cup AnswersTo(Head(pending), handled + 1) \subseteq Response
      BY <3>2, AnswersCounted, AnswersAreResponses
    <3>4. /\ reads - 1 + AfterRequest \in Nat
          /\ bad + (IF Head(pending).method THEN 0 ELSE 1)
                 + (IF Head(pending).target THEN 0 ELSE 1) \in Nat
          /\ handled + 1 \in Nat
      BY <2>2 DEF HandleRequest, AfterRequest
    <3>5. QED BY <2>2, <3>2, <3>3, <3>4 DEF HandleRequest
  <2>3. ASSUME Upgrade PROVE HttpTypeOK'
    BY <2>3 DEF Upgrade
  <2>4. ASSUME RegisterChannel PROVE HttpTypeOK'
    BY <2>4 DEF RegisterChannel
  <2>5. ASSUME ReadFails PROVE HttpTypeOK'
    BY <2>5 DEF ReadFails
  <2>6. ASSUME NEW w \in writes, EndWrite(w) PROVE HttpTypeOK'
    <3>1. IsFiniteSet(writes \ {w}) /\ w \in Response
      BY FS_RemoveElement
    <3>2. Append(written, w) \in Seq(Response)
      BY <3>1
    <3>3. reads + (IF Persists(w) THEN Started ELSE 0) \in Nat
      BY DEF Started
    <3>4. (~Persists(w)) \in BOOLEAN
      BY <3>1 DEF Persists, Response
    <3>5. QED BY <2>6, <3>1, <3>2, <3>3, <3>4 DEF EndWrite
  <2>7. ASSUME NEW w \in writes, WriteFailsOn(w) PROVE HttpTypeOK'
    <3>1. IsFiniteSet(writes \ {w})
      BY FS_RemoveElement
    <3>2. QED BY <2>7, <3>1 DEF WriteFailsOn
  <2>8. ASSUME NEW r \in Request, Asks(r) PROVE HttpTypeOK'
    BY <2>8 DEF Asks
  <2>9. ASSUME Lose PROVE HttpTypeOK'
    BY <2>9 DEF Lose
  <2>10. ASSUME UNCHANGED httpVars PROVE HttpTypeOK'
    BY <2>10 DEF httpVars
  <2>11. QED
    BY <2>1, <2>2, <2>3, <2>4, <2>5, <2>6, <2>7, <2>8, <2>9, <2>10
    DEF HttpNext, HttpStep
<1>3. QED BY <1>1, <1>2, PTL DEF HttpSpec

-----------------------------------------------------------------------------
(* One chain *)

\* Before a connection is accepted nothing has happened on the socket.
Unused ==
    socket = "listening" =>
        reads = 0 /\ writes = {} /\ ~shut /\ handled = 0 /\ written = <<>>

LEMMA UnusedAtFirst == HttpSpec => []Unused
<1>1. HttpInit => Unused
  BY DEF HttpInit, Unused
<1>2. HttpTypeOK /\ Unused /\ [HttpNext]_httpVars => Unused'
  BY DEF HttpTypeOK, Unused, httpVars, HttpNext, HttpStep, AcceptSocket, HandleRequest,
         Upgrade, RegisterChannel, ReadFails, EndWrite, WriteFailsOn, Asks, Lose
<1>3. QED BY <1>1, <1>2, HttpTypeCorrect, PTL DEF HttpSpec

LEMMA RemoveOne ==
    ASSUME NEW S, IsFiniteSet(S), NEW x \in S
    PROVE  Cardinality(S) \in Nat /\ Cardinality(S \ {x}) = Cardinality(S) - 1
BY FS_RemoveElement, FS_CardinalityType

\* Each operation that ends starts at most one; an answer to a bad request may
\* start one more, which is all that breaks the chain.
LEMMA ChainStep ==
    HttpTypeOK /\ Unused /\ OneChain /\ [HttpNext]_httpVars => OneChain'
<1> SUFFICES ASSUME HttpTypeOK, Unused, OneChain, [HttpNext]_httpVars
             PROVE  OneChain'
  OBVIOUS
<1>0. Cardinality(writes) \in Nat /\ Cardinality({}) = 0
  BY FS_CardinalityType, FS_EmptySet DEF HttpTypeOK
<1> USE <1>0 DEF HttpTypeOK, OneChain, Count
<1>1. ASSUME AcceptSocket PROVE OneChain'
  <2>1. /\ reads' = 1 /\ Cardinality(writes') = 0 /\ bad' = bad
        /\ shut' = FALSE /\ socket' = "open"
    BY <1>1 DEF AcceptSocket, Unused
  <2>2. QED BY <2>1
<1>2. ASSUME HandleRequest PROVE OneChain'
  <2>1. pending # <<>> /\ pending \in Seq(Request)
    BY <1>2 DEF HandleRequest
  <2>2. Head(pending) \in Request
    BY ONLY <2>1
  <2> DEFINE W == writes \cup AnswersTo(Head(pending), handled + 1)
             b == (IF Head(pending).method THEN 0 ELSE 1)
                    + (IF Head(pending).target THEN 0 ELSE 1)
  <2>3. b \in Nat /\ Cardinality(W) \in Nat /\ Cardinality(W) <= Cardinality(writes) + 1 + b
    <3>1. b \in Nat
      OBVIOUS
    <3>2. IsFiniteSet(writes)
      OBVIOUS
    <3>3. /\ Cardinality(W) \in Nat
          /\ Cardinality(W) <= Cardinality(writes) + 1
                                 + (IF Head(pending).method THEN 0 ELSE 1)
                                 + (IF Head(pending).target THEN 0 ELSE 1)
      BY ONLY <2>2, <3>2, AnswersCounted
    <3>4. QED BY <3>1, <3>3
  <2>4. /\ writes' = W /\ bad' = bad + b /\ reads' = reads - 1
        /\ socket' = socket /\ shut' = shut
    BY <1>2 DEF HandleRequest, AfterRequest
  <2> HIDE DEF W, b
  <2>5. QED BY <2>3, <2>4
<1>3. ASSUME Upgrade PROVE OneChain'
  BY <1>3 DEF Upgrade
<1>4. ASSUME RegisterChannel PROVE OneChain'
  BY <1>4 DEF RegisterChannel
<1>5. ASSUME ReadFails PROVE OneChain'
  BY <1>5 DEF ReadFails
<1>6. ASSUME NEW w \in writes, EndWrite(w) PROVE OneChain'
  <2>1. Cardinality(writes') = Cardinality(writes) - 1
    BY <1>6, RemoveOne DEF EndWrite
  <2>2. QED BY <1>6, <2>1 DEF EndWrite, Started
<1>7. ASSUME NEW w \in writes, WriteFailsOn(w) PROVE OneChain'
  <2>1. Cardinality(writes') = Cardinality(writes) - 1
    BY <1>7, RemoveOne DEF WriteFailsOn
  <2>2. QED BY <1>7, <2>1 DEF WriteFailsOn
<1>8. ASSUME NEW r \in Request, Asks(r) PROVE OneChain'
  BY <1>8 DEF Asks
<1>9. ASSUME Lose PROVE OneChain'
  BY <1>9 DEF Lose
<1>10. ASSUME UNCHANGED httpVars PROVE OneChain'
  BY <1>10 DEF httpVars
<1>11. QED
  BY <1>1, <1>2, <1>3, <1>4, <1>5, <1>6, <1>7, <1>8, <1>9, <1>10 DEF HttpNext, HttpStep

\* The operations under way on a session form one chain, to which only the
\* answers to bad requests add: for any number of requests and failures.
THEOREM OneChainAtATime == HttpSpec => []OneChain
<1>1. HttpInit => OneChain
  BY FS_EmptySet DEF HttpInit, OneChain, Count
<1>2. QED BY <1>1, ChainStep, HttpTypeCorrect, UnusedAtFirst, PTL DEF HttpSpec

-----------------------------------------------------------------------------
(* Answers in order *)

\* While no request has been bad, the one that was handled last has been
\* answered or is being answered, and the session only goes on after answers
\* that keep the connection.
InTurn ==
    bad = 0 =>
        /\ \A w \in writes : w.n = Len(written) + 1 /\ handled = Len(written) + 1
        /\ reads > 0 => handled = Len(written)
        /\ \A i \in 1..Len(written) : written[i].n = i
        /\ \A i \in 1..Len(written) :
              i < Len(written) \/ reads > 0 \/ writes # {} => written[i].keep

\* While no request has been bad, there is one operation or none.
LEMMA OneOperation ==
    ASSUME HttpTypeOK, OneChain, bad = 0
    PROVE  /\ reads > 0 => reads = 1 /\ writes = {}
           /\ \A w \in writes : writes = {w} /\ reads = 0
<1>1. /\ IsFiniteSet(writes) /\ reads \in Nat /\ Cardinality(writes) \in Nat
      /\ reads + Cardinality(writes) <= 1
  BY FS_CardinalityType DEF HttpTypeOK, OneChain, Count
<1>2. Cardinality(writes) = 0 <=> writes = {}
  BY <1>1, FS_EmptySet
<1>3. Cardinality(writes) = 1 => \E x : writes = {x}
  BY <1>1, FS_Singleton
<1>4. QED BY <1>1, <1>2, <1>3

LEMMA InTurnStep ==
    HttpTypeOK /\ Unused /\ OneChain /\ InTurn /\ [HttpNext]_httpVars => InTurn'
<1> SUFFICES ASSUME HttpTypeOK, Unused, OneChain, InTurn, [HttpNext]_httpVars, bad' = 0
             PROVE  InTurn'
  BY DEF InTurn
<1>0. bad = 0
  BY DEF HttpTypeOK, httpVars, HttpNext, HttpStep, AcceptSocket, HandleRequest,
         Upgrade, RegisterChannel, ReadFails, EndWrite, WriteFailsOn, Asks, Lose
<1>a. /\ reads > 0 => reads = 1 /\ writes = {}
      /\ \A w \in writes : writes = {w} /\ reads = 0
  BY <1>0, OneOperation
<1>b. Len(written) \in Nat /\ reads \in Nat /\ handled \in Nat
  BY DEF HttpTypeOK
<1> USE <1>0, <1>a, <1>b DEF InTurn
<1>1. ASSUME AcceptSocket PROVE InTurn'
  BY <1>1 DEF AcceptSocket, Unused
<1>2. ASSUME HandleRequest PROVE InTurn'
  <2>1. reads = 1 /\ writes = {} /\ handled = Len(written)
    BY <1>2 DEF HandleRequest
  <2>2. Head(pending).method /\ Head(pending).target
    BY <1>2 DEF HandleRequest, HttpTypeOK
  <2>3. \A w \in writes' : w.n = handled + 1
    BY <1>2, <2>1, <2>2 DEF HandleRequest, AnswersTo
  <2>4. reads' = 0 /\ handled' = handled + 1 /\ written' = written
    BY <1>2, <2>1 DEF HandleRequest, AfterRequest
  <2>5. QED BY <2>1, <2>3, <2>4
<1>3. ASSUME Upgrade PROVE InTurn'
  BY <1>3 DEF Upgrade
<1>4. ASSUME RegisterChannel PROVE InTurn'
  BY <1>4 DEF RegisterChannel
<1>5. ASSUME ReadFails PROVE InTurn'
  BY <1>5 DEF ReadFails
<1>6. ASSUME NEW w \in writes, EndWrite(w) PROVE InTurn'
  <2>1. /\ writes = {w} /\ reads = 0
        /\ w.n = Len(written) + 1 /\ handled = Len(written) + 1
        /\ \A i \in 1..Len(written) : written[i].n = i /\ written[i].keep
    OBVIOUS
  <2>2. written \in Seq(Response) /\ w \in Response
    BY DEF HttpTypeOK
  <2>3. /\ Len(Append(written, w)) = Len(written) + 1
        /\ \A i \in 1..Len(written) : Append(written, w)[i] = written[i]
        /\ Append(written, w)[Len(written) + 1] = w
    BY ONLY <2>2
  <2>4. /\ writes' = {} /\ written' = Append(written, w) /\ handled' = handled
        /\ reads' > 0 => w.keep
    BY <1>6, <2>1 DEF EndWrite, Persists
  <2>5. \A i \in 1..Len(written') : i \in 1..Len(written) \/ i = Len(written) + 1
    BY <2>3, <2>4
  <2> HIDE <1>0, <1>a DEF InTurn
  <2>6. QED BY <2>1, <2>3, <2>4, <2>5 DEF InTurn
<1>7. ASSUME NEW w \in writes, WriteFailsOn(w) PROVE InTurn'
  BY <1>7 DEF WriteFailsOn
<1>8. ASSUME NEW r \in Request, Asks(r) PROVE InTurn'
  BY <1>8 DEF Asks
<1>9. ASSUME Lose PROVE InTurn'
  BY <1>9 DEF Lose
<1>10. ASSUME UNCHANGED httpVars PROVE InTurn'
  BY <1>10 DEF httpVars
<1>11. QED
  BY <1>1, <1>2, <1>3, <1>4, <1>5, <1>6, <1>7, <1>8, <1>9, <1>10 DEF HttpNext, HttpStep

\* Until there is a bad request each request is answered once and in order, and
\* one that asks to close is the last.
THEOREM AnswersAreInOrder == HttpSpec => []AnswersInOrder
<1>1. HttpInit => InTurn
  BY DEF HttpInit, InTurn
<1>2. InTurn => AnswersInOrder
  BY DEF InTurn, AnswersInOrder
<1>3. QED
  BY <1>1, <1>2, InTurnStep, OneChainAtATime, HttpTypeCorrect, UnusedAtFirst, PTL
  DEF HttpSpec

-----------------------------------------------------------------------------
(* The session in the composition *)

\* In the composition a session does nothing that it does not do by itself, so
\* what is proved of it above holds here.
THEOREM SessionIsHttp == Spec => HttpSpec
<1>1. Init => HttpInit
  BY DEF Init
<1>2. [Next]_vars => [HttpNext]_httpVars
  <2> SUFFICES ASSUME [Next]_vars PROVE HttpNext \/ UNCHANGED httpVars
    OBVIOUS
  <2>1. CASE Serve
    BY <2>1 DEF Serve, HttpNext
  <2>2. CASE Browse
    BY <2>2 DEF Browse, HttpNext
  <2>3. CASE Lost
    BY <2>3 DEF Lost, HttpNext
  <2>4. CASE Connect
    <3>1. [method |-> TRUE, target |-> FALSE, keep |-> TRUE, upgrade |-> TRUE] \in Request
      BY DEF Request
    <3>2. QED BY <2>4, <3>1 DEF Connect, HttpNext
  <2>5. CASE Handshake \/ Read \/ Break \/ Written \/ Shows \/ UserTypes
    BY <2>5 DEF Handshake, Read, Break, Written, Shows, UserTypes
  <2>6. ASSUME NEW m \in Text \cup {Empty}, ServerSends(m) PROVE UNCHANGED httpVars
    BY <2>6 DEF ServerSends
  <2>7. CASE UNCHANGED vars
    BY <2>7 DEF vars
  <2>8. QED BY <2>1, <2>2, <2>3, <2>4, <2>5, <2>6, <2>7 DEF Next, ClientLoop
<1>3. QED BY <1>1, <1>2, PTL DEF Spec, HttpSpec

\* The session of the composition has one chain of operations.
COROLLARY ChainInTheWeb == Spec => []OneChain
BY SessionIsHttp, OneChainAtATime, PTL

\* It answers in order.
COROLLARY OrderInTheWeb == Spec => []AnswersInOrder
BY SessionIsHttp, AnswersAreInOrder, PTL

-----------------------------------------------------------------------------
(* Types of the client and of what is under way *)

WireTypeOK ==
    /\ visitor \in {"browser", "client"}
    /\ sent \in Seq(Text) /\ toClient \in Seq(Text)

\* The steps that concern the client or the wire: what is proved of those is
\* proved of all.
LEMMA OnlyTheseMatter ==
    ASSUME [Next]_vars
    PROVE  \/ \E ok \in BOOLEAN : ConnectEnds(ok) /\ UNCHANGED wireVars
           \/ \E ok \in BOOLEAN : HandshakeEnds(ok) /\ UNCHANGED wireVars
           \/ Read
           \/ ReadBreaks /\ UNCHANGED wireVars
           \/ \E i \in clientWrites :
                 (WriteBreaks(i) \/ WriteEnds(i)) /\ UNCHANGED wireVars
           \/ Show /\ UNCHANGED wireVars
           \/ \E m \in Text : SendText(m) /\ UNCHANGED wireVars
           \/ Exit /\ UNCHANGED wireVars
           \/ \E m \in Text \cup {Empty} : ServerSends(m)
           \/ UNCHANGED <<clientVars, wireVars>>
<1>1. CASE Serve \/ Browse \/ Lost
  BY <1>1 DEF Serve, Browse, Lost
<1>2. CASE Connect \/ Handshake
  BY <1>2 DEF Connect, Handshake
<1>3. CASE Read
  BY <1>3
<1>4. CASE Break \/ Written
  BY <1>4 DEF Break, Written
<1>5. CASE Shows \/ UserTypes
  BY <1>5 DEF Shows, UserTypes
<1>6. CASE UNCHANGED vars
  BY <1>6 DEF vars
<1>7. QED BY <1>1, <1>2, <1>3, <1>4, <1>5, <1>6 DEF Next, ClientLoop

\* What waits for the client is a sequence of texts, none of them empty.
LEMMA WireTypeCorrect == Spec => []WireTypeOK
<1>1. Init => WireTypeOK
  <2>1. <<>> \in Seq(Text)
    OBVIOUS
  <2>2. QED BY <2>1 DEF Init, WireTypeOK
<1>2. WireTypeOK /\ [Next]_vars => WireTypeOK'
  <2> SUFFICES ASSUME WireTypeOK, [Next]_vars PROVE WireTypeOK'
    OBVIOUS
  <2> USE DEF WireTypeOK
  <2>1. ASSUME Read PROVE WireTypeOK'
    BY <2>1 DEF Read
  <2>2. ASSUME NEW m \in Text \cup {Empty}, ServerSends(m) PROVE WireTypeOK'
    <3>1. sent \in Seq(Text) /\ toClient \in Seq(Text)
      OBVIOUS
    <3>2. m # Empty => Append(sent, m) \in Seq(Text) /\ Append(toClient, m) \in Seq(Text)
      BY ONLY <2>2, <3>1
    <3>3. sent' \in Seq(Text) /\ toClient' \in Seq(Text) /\ visitor' = visitor
      BY <2>2, <3>1, <3>2 DEF ServerSends, Accepts
    <3>4. QED BY <3>3
  <2>3. ASSUME UNCHANGED wireVars PROVE WireTypeOK'
    BY <2>3 DEF wireVars
  <2>4. QED BY <2>1, <2>2, <2>3, OnlyTheseMatter
<1>3. QED BY <1>1, <1>2, PTL DEF Spec

\* The types of the client, with popped any number: that pop_front finds a text
\* needs the number of writes under way.
ClientTypes ==
    /\ stage \in {"connecting", "handshaking", "up", "failed"}
    /\ reading \in BOOLEAN /\ isClosed \in BOOLEAN /\ done \in BOOLEAN
    /\ typed \in Seq(Text) /\ popped \in Nat
    /\ clientWrites \subseteq 1..Len(typed)
    /\ incoming \in Seq(Text) /\ shown \in Seq(Text)

\* Each write under way has a text of its own in writeBuffer.
Unpopped == IsFiniteSet(clientWrites) /\ popped + Cardinality(clientWrites) <= Len(typed)

LEMMA SendTypes ==
    ASSUME NEW m \in Text, ClientTypes, SendText(m)
    PROVE  /\ typed' \in Seq(Text) /\ Len(typed') = Len(typed) + 1
           /\ clientWrites' = clientWrites \cup {Len(typed')}
           /\ clientWrites' \subseteq 1..Len(typed')
           /\ Len(typed) + 1 \notin clientWrites
<1>1. typed \in Seq(Text) /\ clientWrites \subseteq 1..Len(typed)
  BY DEF ClientTypes
<1>2. typed' = Append(typed, m) /\ clientWrites' = clientWrites \cup {Len(typed) + 1}
  BY DEF SendText
<1>3. typed' \in Seq(Text) /\ Len(typed') = Len(typed) + 1 /\ Len(typed) \in Nat
  BY ONLY <1>1, <1>2, m \in Text
<1>4. 1..Len(typed) \subseteq 1..Len(typed')
  BY ONLY <1>3
<1>5. clientWrites' = clientWrites \cup {Len(typed')} /\ Len(typed) + 1 \notin clientWrites
  BY ONLY <1>1, <1>2, <1>3
<1>6. clientWrites' \subseteq 1..Len(typed')
  <2>1. Len(typed') \in 1..Len(typed')
    BY ONLY <1>3
  <2>2. QED BY ONLY <1>1, <1>4, <1>5, <2>1, Zenon
<1>7. QED BY <1>3, <1>5, <1>6

LEMMA ClientTypesCorrect == Spec => []ClientTypes
<1>1. Init => ClientTypes
  <2>1. <<>> \in Seq(Text) /\ 0 \in Nat
    OBVIOUS
  <2>2. Init => typed \in Seq(Text) /\ incoming \in Seq(Text) /\ shown \in Seq(Text)
    BY <2>1, Zenon DEF Init, ClientInit
  <2>3. Init => clientWrites \subseteq 1..Len(typed) /\ popped \in Nat
    BY <2>1, Zenon DEF Init, ClientInit
  <2>4. Init => /\ stage \in {"connecting", "handshaking", "up", "failed"}
                /\ reading \in BOOLEAN /\ isClosed \in BOOLEAN /\ done \in BOOLEAN
    BY Zenon DEF Init, ClientInit
  <2>5. QED BY <2>2, <2>3, <2>4, Zenon DEF ClientTypes
<1>2. ClientTypes /\ WireTypeOK /\ [Next]_vars => ClientTypes'
  <2> SUFFICES ASSUME ClientTypes, WireTypeOK, [Next]_vars PROVE ClientTypes'
    OBVIOUS
  <2> USE DEF ClientTypes
  <2>1. ASSUME NEW ok \in BOOLEAN, ConnectEnds(ok) \/ HandshakeEnds(ok)
        PROVE  ClientTypes'
    BY <2>1 DEF ConnectEnds, HandshakeEnds
  <2>2. ASSUME Read PROVE ClientTypes'
    <3>1. toClient \in Seq(Text) /\ toClient # <<>> /\ incoming \in Seq(Text)
      BY <2>2 DEF Read, WireTypeOK
    <3>2. Append(incoming, Head(toClient)) \in Seq(Text)
      BY ONLY <3>1
    <3>3. incoming' \in Seq(Text) /\ reading' \in BOOLEAN
      BY <2>2, <3>2 DEF Read, ReadEnds
    <3>4. QED BY <2>2, <3>3 DEF Read, ReadEnds
  <2>3. ASSUME ReadBreaks \/ Exit PROVE ClientTypes'
    BY <2>3 DEF ReadBreaks, Exit
  <2>4. ASSUME NEW i \in clientWrites, WriteBreaks(i) PROVE ClientTypes'
    BY <2>4 DEF WriteBreaks
  <2>5. ASSUME NEW i \in clientWrites, WriteEnds(i) PROVE ClientTypes'
    BY <2>5 DEF WriteEnds
  <2>6. ASSUME Show PROVE ClientTypes'
    <3>1. shown \o incoming \in Seq(Text) /\ <<>> \in Seq(Text)
      BY ConcatProperties
    <3>2. QED BY <2>6, <3>1 DEF Show, AfterReceive
  <2>7. ASSUME NEW m \in Text, SendText(m) PROVE ClientTypes'
    <3>1. typed' \in Seq(Text) /\ clientWrites' \subseteq 1..Len(typed')
      BY <2>7, SendTypes
    <3>2. /\ stage' = stage /\ reading' = reading /\ isClosed' = isClosed
          /\ done' = done /\ popped' = popped /\ incoming' = incoming /\ shown' = shown
      BY <2>7 DEF SendText
    <3>3. QED BY <3>1, <3>2
  <2>8. ASSUME UNCHANGED clientVars PROVE ClientTypes'
    BY <2>8 DEF clientVars
  <2>9. QED
    BY <2>1, <2>2, <2>3, <2>4, <2>5, <2>6, <2>7, <2>8, OnlyTheseMatter DEF ServerSends
<1>3. QED BY <1>1, <1>2, WireTypeCorrect, PTL DEF Spec

\* Where the client may take a text out of writeBuffer, or put one in.
LEMMA OnlyTheseWrite ==
    ASSUME [Next]_vars
    PROVE  \/ \E m \in Text : SendText(m)
           \/ \E i \in clientWrites : WriteEnds(i)
           \/ \E i \in clientWrites : WriteBreaks(i)
           \/ UNCHANGED <<typed, popped, clientWrites>>
BY OnlyTheseMatter DEF ConnectEnds, HandshakeEnds, Read, ReadEnds, ReadBreaks, Show, Exit,
   ServerSends, clientVars

\* However many writes overlap, pop_front finds a text in writeBuffer.
LEMMA QueueIsNotOverdrawn == Spec => []Unpopped
<1>1. Init => Unpopped
  BY FS_EmptySet DEF Init, ClientInit, Unpopped
<1>2. ClientTypes /\ Unpopped /\ [Next]_vars => Unpopped'
  <2> SUFFICES ASSUME ClientTypes, Unpopped, [Next]_vars PROVE Unpopped'
    OBVIOUS
  <2>0. /\ IsFiniteSet(clientWrites) /\ Cardinality(clientWrites) \in Nat
        /\ popped \in Nat /\ Len(typed) \in Nat
        /\ popped + Cardinality(clientWrites) <= Len(typed)
    BY FS_CardinalityType DEF Unpopped, ClientTypes
  <2>1. ASSUME NEW m \in Text, SendText(m) PROVE Unpopped'
    <3>1. /\ clientWrites' = clientWrites \cup {Len(typed) + 1}
          /\ Len(typed) + 1 \notin clientWrites /\ Len(typed') = Len(typed) + 1
          /\ popped' = popped
      BY <2>1, SendTypes DEF SendText
    <3>2. /\ IsFiniteSet(clientWrites')
          /\ Cardinality(clientWrites') = Cardinality(clientWrites) + 1
      BY <2>0, <3>1, FS_AddElement
    <3>3. QED BY <2>0, <3>1, <3>2 DEF Unpopped
  <2>2. ASSUME NEW i \in clientWrites, WriteEnds(i) \/ WriteBreaks(i) PROVE Unpopped'
    <3>1. /\ clientWrites' = clientWrites \ {i} /\ typed' = typed
          /\ popped' \in {popped, popped + 1}
      BY <2>2 DEF WriteEnds, WriteBreaks
    <3>2. /\ IsFiniteSet(clientWrites')
          /\ Cardinality(clientWrites') = Cardinality(clientWrites) - 1
      BY <2>0, <3>1, FS_RemoveElement
    <3>3. QED BY <2>0, <3>1, <3>2 DEF Unpopped
  <2>3. ASSUME UNCHANGED <<typed, popped, clientWrites>> PROVE Unpopped'
    BY <2>3 DEF Unpopped
  <2>4. QED BY <2>1, <2>2, <2>3, OnlyTheseWrite
<1>3. QED BY <1>1, <1>2, ClientTypesCorrect, PTL DEF Spec

\* The variables of the client keep their types; writeBuffer is not overdrawn.
THEOREM ClientTypeCorrect == Spec => []ClientTypeOK
<1>1. ClientTypes /\ Unpopped => ClientTypeOK
  <2> SUFFICES ASSUME ClientTypes, Unpopped PROVE ClientTypeOK
    OBVIOUS
  <2>1. popped \in 0..Len(typed)
    BY FS_CardinalityType DEF ClientTypes, Unpopped
  <2>2. QED BY <2>1 DEF ClientTypes, ClientTypeOK
<1>2. QED BY <1>1, ClientTypesCorrect, QueueIsNotOverdrawn, PTL

-----------------------------------------------------------------------------
(* What the client shows *)

\* What was sent has been shown, waits in the client, or is under way.
NothingUnread == sent = (shown \o incoming) \o toClient

LEMMA MoveHead ==
    ASSUME NEW u \in Seq(Text), NEW t \in Seq(Text), t # <<>>
    PROVE  Append(u, Head(t)) \o Tail(t) = u \o t
OBVIOUS

LEMMA MoveText ==
    ASSUME NEW s \in Seq(Text), NEW i \in Seq(Text), NEW t \in Seq(Text), t # <<>>
    PROVE  /\ s \o Append(i, Head(t)) = Append(s \o i, Head(t))
           /\ (s \o Append(i, Head(t))) \o Tail(t) = (s \o i) \o t
           /\ Len(s \o i) < Len((s \o i) \o t)
           /\ ((s \o i) \o t)[Len(s \o i) + 1] = Head(t)
<1>1. s \o Append(i, Head(t)) = Append(s \o i, Head(t))
  OBVIOUS
<1>2. Append(s \o i, Head(t)) \o Tail(t) = (s \o i) \o t
  <2>1. s \o i \in Seq(Text)
    BY ConcatProperties
  <2>2. QED BY <2>1, MoveHead, Zenon
<1>3. (s \o Append(i, Head(t))) \o Tail(t) = (s \o i) \o t
  BY ONLY <1>1, <1>2, Zenon
<1>4. /\ Len(s \o i) < Len((s \o i) \o t)
      /\ ((s \o i) \o t)[Len(s \o i) + 1] = Head(t)
  OBVIOUS
<1>5. QED BY <1>1, <1>3, <1>4, Zenon

LEMMA AppendText ==
    ASSUME NEW s \in Seq(Text), NEW t \in Seq(Text), NEW m \in Text
    PROVE  Append(s \o t, m) = s \o Append(t, m)
OBVIOUS

\* Where something is sent or read.
LEMMA OnlyTheseRead ==
    ASSUME [Next]_vars
    PROVE  \/ Read
           \/ Show /\ UNCHANGED wireVars
           \/ \E m \in Text \cup {Empty} : ServerSends(m)
           \/ UNCHANGED <<sent, shown, incoming, toClient>>
BY OnlyTheseMatter DEF ConnectEnds, HandshakeEnds, ReadBreaks, Exit, SendText, WriteEnds,
   WriteBreaks, clientVars, wireVars

\* The client takes the first of the texts under way, none of which is empty.
LEMMA ReadTakesFirst ==
    ASSUME WireTypeOK, Read
    PROVE  /\ toClient # <<>> /\ toClient' = Tail(toClient)
           /\ incoming' = Append(incoming, Head(toClient))
           /\ shown' = shown /\ sent' = sent
<1>1. toClient # <<>> /\ toClient \in Seq(Text)
  BY DEF Read, WireTypeOK
<1>2. Head(toClient) \in Text
  BY ONLY <1>1
<1>3. QED BY <1>1, <1>2, TextAssumption DEF Read, ReadEnds

LEMMA ShowMovesAll ==
    ASSUME ClientTypes, Show
    PROVE  shown' \o incoming' = shown \o incoming
<1>1. shown \o incoming \in Seq(Text)
  BY ConcatProperties DEF ClientTypes
<1>2. QED BY <1>1, ConcatEmptySeq DEF Show, AfterReceive

LEMMA NothingIsUnread == Spec => []NothingUnread
<1>1. Init => NothingUnread
  BY DEF Init, ClientInit, NothingUnread
<1>2. ClientTypes /\ WireTypeOK /\ NothingUnread /\ [Next]_vars => NothingUnread'
  <2> SUFFICES ASSUME ClientTypes, WireTypeOK, NothingUnread, [Next]_vars
               PROVE  NothingUnread'
    OBVIOUS
  <2>0. shown \in Seq(Text) /\ incoming \in Seq(Text) /\ toClient \in Seq(Text)
    BY DEF ClientTypes, WireTypeOK
  <2>1. CASE Read
    <3>1. /\ toClient # <<>> /\ toClient' = Tail(toClient)
          /\ incoming' = Append(incoming, Head(toClient))
          /\ shown' = shown /\ sent' = sent
      BY <2>1, ReadTakesFirst
    <3>2. (shown \o Append(incoming, Head(toClient))) \o Tail(toClient)
            = (shown \o incoming) \o toClient
      BY <2>0, <3>1, MoveText
    <3>3. QED BY <3>1, <3>2 DEF NothingUnread
  <2>2. CASE Show /\ UNCHANGED wireVars
    BY <2>2, ShowMovesAll DEF NothingUnread, wireVars
  <2>3. ASSUME NEW m \in Text \cup {Empty}, ServerSends(m) PROVE NothingUnread'
    <3>1. CASE m = Empty
      BY <2>3, <3>1 DEF ServerSends, Accepts, clientVars, NothingUnread
    <3>2. CASE m # Empty
      <4>1. /\ m \in Text
            /\ sent' = Append(sent, m) /\ toClient' = Append(toClient, m)
            /\ shown' = shown /\ incoming' = incoming
        BY <2>3, <3>2 DEF ServerSends, Accepts, clientVars
      <4>2. shown \o incoming \in Seq(Text)
        BY <2>0, ConcatProperties
      <4>3. QED BY <2>0, <4>1, <4>2, AppendText DEF NothingUnread
    <3>3. QED BY <3>1, <3>2
  <2>4. CASE UNCHANGED <<sent, shown, incoming, toClient>>
    BY <2>4 DEF NothingUnread
  <2>5. QED BY <2>1, <2>2, <2>3, <2>4, OnlyTheseRead
<1>3. QED BY <1>1, <1>2, ClientTypesCorrect, WireTypeCorrect, PTL DEF Spec

\* What the client shows, and has ready to show, is what the server has sent:
\* each text once, unchanged and in order, though messages are concatenated.
THEOREM ClientReadsAPipe == Spec => ClientReads
<1>1. Init => Shown!PipeInit
  BY DEF Init, ClientInit, Shown!PipeInit
<1>2. ClientTypes /\ WireTypeOK /\ NothingUnread /\ [Next]_vars
        => [Shown!PipeNext]_(Shown!pipeVars)
  <2> SUFFICES ASSUME ClientTypes, WireTypeOK, NothingUnread, [Next]_vars
               PROVE  [Shown!PipeNext]_(Shown!pipeVars)
    OBVIOUS
  <2> USE DEF Shown!PipeNext, Shown!pipeVars
  <2>0. shown \in Seq(Text) /\ incoming \in Seq(Text) /\ toClient \in Seq(Text)
    BY DEF ClientTypes, WireTypeOK
  <2>1. ASSUME Read PROVE Shown!DeliverText
    <3>1. /\ toClient # <<>> /\ shown' = shown /\ sent' = sent
          /\ incoming' = Append(incoming, Head(toClient))
      BY <2>1, ReadTakesFirst
    <3>2. /\ shown \o Append(incoming, Head(toClient))
               = Append(shown \o incoming, Head(toClient))
          /\ Len(shown \o incoming) < Len(sent)
          /\ sent[Len(shown \o incoming) + 1] = Head(toClient)
      BY <2>0, <3>1, MoveText DEF NothingUnread
    <3>3. QED BY <3>1, <3>2 DEF Shown!DeliverText
  <2>2. ASSUME Show, UNCHANGED wireVars PROVE UNCHANGED Shown!pipeVars
    BY <2>2, ShowMovesAll DEF wireVars
  <2>3. ASSUME NEW m \in Text \cup {Empty}, ServerSends(m)
        PROVE  (\E n \in Text : Shown!AcceptText(n)) \/ UNCHANGED Shown!pipeVars
    BY <2>3 DEF ServerSends, Accepts, clientVars, Shown!AcceptText
  <2>4. ASSUME UNCHANGED <<sent, shown, incoming, toClient>>
        PROVE  UNCHANGED Shown!pipeVars
    BY <2>4
  <2>5. QED BY <2>1, <2>2, <2>3, <2>4, OnlyTheseRead
<1>3. QED
  BY <1>1, <1>2, NothingIsUnread, ClientTypesCorrect, WireTypeCorrect, PTL
  DEF Spec, ClientReads, Shown!PipeSpec
=============================================================================
