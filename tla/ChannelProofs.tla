---------------------------- MODULE ChannelProofs ----------------------------
(***************************************************************************)
(* Proofs about Channel.  The types and ChainAlive hold whatever threads   *)
(* use the server.  OneWrite, NothingLost and the promise of the text pipe *)
(* for writing hold when the main thread is the only one, as it is while   *)
(* no game runs; with a second thread TLC shows OneWrite violated, and the *)
(* promise for reading.                                                    *)
(***************************************************************************)
EXTENDS Channel, SequenceTheorems, TLAPS

\* A thread that uses a deque under the lock holds it; the main thread holds it
\* while it closes the channel, and is in no other call then.
LockHeld ==
    /\ \A t \in Threads : step[t] \in {"pushed", "taking"} => lock = t
    /\ phase = "closing" => lock = Main /\ step[Main] \notin {"pushed", "taking"}

\* The handler of a read has something to store, and what receive has taken is
\* still in its place.
Underway ==
    /\ step[Main] \in {"queueing", "exposed"} => arrived # <<>>
    /\ \A t \in Threads : step[t] = "taking" => readBuffer # <<>>

\* A sequence with something appended is not empty.
LEMMA AppendNotEmpty ==
    ASSUME NEW S, NEW s \in Seq(S), NEW e \in S
    PROVE  Append(s, e) # <<>>
BY AppendProperties, Zenon

\* The last of a sequence is one of its elements.
LEMMA LastOf ==
    ASSUME NEW S, NEW s \in Seq(S), s # <<>>
    PROVE  s[Len(s)] \in S
<1>1. Len(s) \in 1..Len(s)
  BY EmptySeq, LenProperties
<1>2. QED BY <1>1, ElementOfSeq, Zenon

\* Something else in the last place of a sequence.
LEMMA PutLast ==
    ASSUME NEW S, NEW s \in Seq(S), s # <<>>, NEW e \in S
    PROVE  /\ [s EXCEPT ![Len(s)] = e] \in Seq(S)
           /\ [s EXCEPT ![Len(s)] = e] # <<>>
<1>1. Len(s) \in 1..Len(s)
  BY EmptySeq, LenProperties
<1>2. [s EXCEPT ![Len(s)] = e] \in Seq(S) /\ Len([s EXCEPT ![Len(s)] = e]) = Len(s)
  BY <1>1, ExceptSeq
<1>3. QED BY <1>1, <1>2, EmptySeq

\* No step takes a variable out of its type.
LEMMA TypesKept ==
    ASSUME TypeOK, Underway, [Next]_vars
    PROVE  TypeOK'
<1> USE MainAssumption DEF TypeOK, Phases, Steps, StartedWrite, Queued, Alone,
                           MoreToWrite, NextText
<1>1. ASSUME NEW t \in Threads, NEW m \in Text, Push(t, m) PROVE TypeOK'
  BY <1>1 DEF Push, readVars
<1>2. ASSUME NEW t \in Threads, ChainSend(t) PROVE TypeOK'
  BY <1>2 DEF ChainSend, sendVars, readVars
<1>3. ASSUME NEW t \in Threads, StartWrite(t) PROVE TypeOK'
  <2>1. writeBuffer[1] \in Text
    <3>1. writeBuffer \in Seq(Text) /\ 1 \in 1..Len(writeBuffer)
      BY <1>3 DEF StartWrite
    <3> HIDE DEF TypeOK
    <3>2. QED BY <3>1, ElementOfSeq, Zenon
  <2>2. QED BY <1>3, <2>1 DEF StartWrite, readVars
<1>4. ASSUME NEW t \in Threads, TakeFront(t) PROVE TypeOK'
  <2>1. Head(readBuffer) \in Text \cup {Unwritten}
    BY <1>4 DEF TakeFront
  <2>2. QED BY <1>4, <2>1 DEF TakeFront, sendVars
<1>5. ASSUME NEW t \in Threads, PopFront(t) PROVE TypeOK'
  <2>1. readBuffer # <<>>
    BY <1>5 DEF PopFront, Underway
  <2>2. QED BY <1>5, <2>1 DEF PopFront, sendVars
<1>6. ASSUME Accept PROVE TypeOK'
  BY <1>6 DEF Accept, sendVars
<1>7. ASSUME Refuse PROVE TypeOK'
  BY <1>7 DEF Refuse, sendVars, readVars
<1>8. ASSUME CompleteWrite PROVE TypeOK'
  BY <1>8 DEF CompleteWrite, readVars
<1>9. ASSUME ContinueWrite PROVE TypeOK'
  <2>1. Head(writeBuffer) \in Text
    BY <1>9 DEF ContinueWrite
  <2>2. QED BY <1>9, <2>1 DEF ContinueWrite, readVars
<1>10. ASSUME ChainEnds PROVE TypeOK'
  BY <1>10 DEF ChainEnds, sendVars, readVars
<1>11. ASSUME WriteFails PROVE TypeOK'
  BY <1>11 DEF WriteFails, readVars
<1>12. ASSUME WriteAborted PROVE TypeOK'
  BY <1>12 DEF WriteAborted, readVars
<1>13. ASSUME NEW m \in Text, ReadArrives(m) PROVE TypeOK'
  <2>1. step' \in [Threads -> Steps]
    BY <1>13 DEF ReadArrives
  <2>2. readBuffer' \in Seq(Text \cup {Unwritten})
    <3>1. readBuffer' = readBuffer \/ readBuffer' = Append(readBuffer, Unwritten)
      BY <1>13 DEF ReadArrives
    <3>2. readBuffer \in Seq(Text \cup {Unwritten})
      OBVIOUS
    <3>3. Append(readBuffer, Unwritten) \in Seq(Text \cup {Unwritten})
      BY <3>2, AppendProperties, Zenon
    <3>4. QED BY <3>1, <3>2, <3>3
  <2>3. arrived' \in Seq(Text)
    BY <1>13 DEF ReadArrives
  <2>4. QED BY <1>13, <2>1, <2>2, <2>3 DEF ReadArrives, sendVars
<1>14. ASSUME StoreText \/ FillPlace PROVE TypeOK'
  <2>1. arrived[Len(arrived)] \in Text
    <3>1. arrived \in Seq(Text) /\ arrived # <<>>
      BY <1>14 DEF StoreText, FillPlace, Underway
    <3> HIDE DEF TypeOK
    <3>2. QED BY <3>1, LastOf
  <2>2. readBuffer' \in Seq(Text \cup {Unwritten})
    <3>1. CASE StoreText
      BY <2>1, <3>1 DEF StoreText
    <3>2. CASE FillPlace /\ readBuffer = <<>>
      BY <3>2 DEF FillPlace
    <3>3. CASE FillPlace /\ readBuffer # <<>>
      BY <2>1, <3>3, PutLast DEF FillPlace
    <3>4. QED BY <1>14, <3>1, <3>2, <3>3
  <2>3. QED BY <1>14, <2>2 DEF StoreText, FillPlace, sendVars
<1>15. ASSUME ReadFails PROVE TypeOK'
  BY <1>15 DEF ReadFails, sendVars
<1>16. ASSUME ReadAborted PROVE TypeOK'
  BY <1>16 DEF ReadAborted, sendVars
<1>17. ASSUME CloseNext PROVE TypeOK'
  BY <1>17 DEF CloseNext, HandlerReturns, LobbyDisconnect, Erase, Released,
               vars, sendVars, readVars
<1>18. ASSUME UNCHANGED vars PROVE TypeOK'
  BY <1>18 DEF vars, sendVars, readVars
<1>19. QED
  BY <1>1, <1>2, <1>3, <1>4, <1>5, <1>6, <1>7, <1>8, <1>9, <1>10, <1>11, <1>12,
     <1>13, <1>14, <1>15, <1>16, <1>17, <1>18 DEF Next, ThreadNext, HandlerNext

\* The lock is held by whoever must hold it.
LEMMA LockKept ==
    ASSUME TypeOK, LockHeld, [Next]_vars
    PROVE  LockHeld'
<1> USE MainAssumption DEF TypeOK, LockHeld
<1>1. ASSUME NEW t \in Threads, ThreadNext(t) PROVE LockHeld'
  BY <1>1 DEF ThreadNext, Push, ChainSend, StartWrite, TakeFront, PopFront, sendVars,
              readVars
<1>2. ASSUME HandlerNext PROVE LockHeld'
  BY <1>2 DEF HandlerNext, Accept, Refuse, CompleteWrite, ContinueWrite, ChainEnds,
              WriteFails, WriteAborted, ReadArrives, StoreText, FillPlace, ReadFails,
              ReadAborted, MainPolls, sendVars, readVars
<1>3. ASSUME CloseNext PROVE LockHeld'
  BY <1>3 DEF CloseNext, HandlerReturns, LobbyDisconnect, Erase, Released, vars
<1>4. ASSUME UNCHANGED vars PROVE LockHeld'
  BY <1>4 DEF vars
<1>5. QED BY <1>1, <1>2, <1>3, <1>4 DEF Next

\* Only receive empties the deque, and the lock lets one thread receive.
LEMMA UnderwayKept ==
    ASSUME TypeOK, LockHeld, Underway, [Next]_vars
    PROVE  Underway'
<1> USE MainAssumption DEF TypeOK, Underway
<1>1. ASSUME NEW t \in Threads, (\E m \in Text : Push(t, m)) \/ ChainSend(t) \/ StartWrite(t)
      PROVE  Underway'
  BY <1>1 DEF Push, ChainSend, StartWrite, readVars
<1>2. ASSUME NEW t \in Threads, TakeFront(t) PROVE Underway'
  BY <1>2 DEF TakeFront
<1>3. ASSUME NEW t \in Threads, PopFront(t) PROVE Underway'
  BY <1>3 DEF PopFront, LockHeld
<1>4. ASSUME NEW m \in Text, ReadArrives(m) PROVE Underway'
  <2>1. arrived' # <<>>
    BY <1>4, AppendNotEmpty DEF ReadArrives
  <2>2. readBuffer # <<>> => readBuffer' # <<>>
    <3>1. readBuffer' = readBuffer \/ readBuffer' = Append(readBuffer, Unwritten)
      BY <1>4 DEF ReadArrives, Queued
    <3>2. Append(readBuffer, Unwritten) # <<>>
      BY AppendNotEmpty
    <3>3. QED BY <3>1, <3>2
  <2>3. \A t \in Threads : step'[t] = "taking" => step[t] = "taking"
    BY <1>4 DEF ReadArrives
  <2> HIDE DEF TypeOK
  <2>4. QED BY <2>1, <2>2, <2>3
<1>5. ASSUME StoreText \/ FillPlace PROVE Underway'
  <2>1. arrived \in Seq(Text) /\ arrived # <<>> /\ arrived' = arrived
    BY <1>5 DEF StoreText, FillPlace
  <2>2. arrived[Len(arrived)] \in Text
    BY <2>1, LastOf
  <2>3. readBuffer # <<>> => readBuffer' # <<>>
    <3>1. CASE StoreText
      <4>1. readBuffer' = Append(readBuffer, arrived[Len(arrived)])
        BY <3>1 DEF StoreText, Queued
      <4>2. Append(readBuffer, arrived[Len(arrived)]) # <<>>
        BY <2>2, AppendNotEmpty
      <4>3. QED BY <4>1, <4>2
    <3>2. CASE FillPlace
      BY <2>2, <3>2, PutLast DEF FillPlace
    <3>3. QED BY <1>5, <3>1, <3>2
  <2>4. \A t \in Threads : step'[t] = "taking" => step[t] = "taking"
    BY <1>5 DEF StoreText, FillPlace
  <2> HIDE DEF TypeOK
  <2>5. QED BY <2>1, <2>3, <2>4
<1>6. ASSUME Accept \/ Refuse \/ CompleteWrite \/ ContinueWrite \/ ChainEnds \/ WriteFails
             \/ WriteAborted \/ ReadFails \/ ReadAborted \/ CloseNext \/ UNCHANGED vars
      PROVE  Underway'
  BY <1>6 DEF Accept, Refuse, CompleteWrite, ContinueWrite, ChainEnds, WriteFails,
              WriteAborted, ReadFails, ReadAborted, CloseNext, HandlerReturns,
              LobbyDisconnect, Erase, Released, vars, readVars
<1>7. QED BY <1>1, <1>2, <1>3, <1>4, <1>5, <1>6 DEF Next, ThreadNext, HandlerNext

\* The three hold together: the types of what the handler of a read stores and
\* of what receive leaves need the other two.
LEMMA TypesAndLock == Spec => [](TypeOK /\ LockHeld /\ Underway)
<1>1. Init => TypeOK /\ LockHeld /\ Underway
  <2> SUFFICES ASSUME Init PROVE TypeOK /\ LockHeld /\ Underway
    OBVIOUS
  <2>1. <<>> \in Seq(Text) /\ <<>> \in Seq(Text \cup {Unwritten})
    OBVIOUS
  <2>2. step \in [Threads -> Steps]
    BY DEF Init, Steps
  <2>3. TypeOK
    BY <2>1, <2>2 DEF Init, TypeOK, Phases
  <2>4. QED BY <2>3, MainAssumption DEF Init, LockHeld, Underway
<1>2. TypeOK /\ LockHeld /\ Underway /\ [Next]_vars => TypeOK' /\ LockHeld' /\ Underway'
  BY TypesKept, LockKept, UnderwayKept
<1>3. QED BY <1>1, <1>2, PTL DEF Spec

\* Every variable keeps its type, so that the queues hold texts only and a
\* thread is at one of the points of its call or handler.
THEOREM TypeCorrect == Spec => []TypeOK
BY TypesAndLock, PTL

-----------------------------------------------------------------------------
(* Whatever the threads *)

\* Somebody is responsible for a queue that is not empty: asio with a write,
\* the main thread with its look at the queue, or the sender whose text is
\* the only one.
Responsible ==
    phase \in {"accepting", "open"} /\ writeBuffer # <<>>
        => \/ writing # <<>>
           \/ step[Main] = "popped"
           \/ \E t \in Threads : step[t] = "pushed" /\ Len(writeBuffer) = 1

\* Every queued text has somebody responsible for it, at every moment.
LEMMA SomebodyIsResponsible == Spec => []Responsible
<1>1. Init => Responsible
  BY DEF Init, Responsible
<1>2. TypeOK /\ LockHeld /\ Responsible /\ [Next]_vars => Responsible'
  <2> SUFFICES ASSUME TypeOK, LockHeld, Responsible, [Next]_vars PROVE Responsible'
    OBVIOUS
  <2> USE MainAssumption DEF Responsible, Queued, Alone, MoreToWrite, NextText
  <2>1. ASSUME NEW t \in Threads, NEW m \in Text, Push(t, m) PROVE Responsible'
    <3>1. \A u \in Threads : step[u] # "pushed"
      BY <2>1 DEF Push, LockHeld
    <3>2. CASE writeBuffer = <<>>
      <4>1. Len(writeBuffer') = 1
        BY <2>1, <3>2 DEF Push, TypeOK
      <4>2. step'[t] = "pushed"
        BY <2>1 DEF Push, TypeOK
      <4>3. QED BY <4>1, <4>2
    <3>3. CASE writeBuffer # <<>>
      BY <2>1, <3>1, <3>3 DEF Push, TypeOK
    <3>4. QED BY <3>2, <3>3
  <2>2. ASSUME NEW t \in Threads, ChainSend(t) PROVE Responsible'
    <3>1. Len(writeBuffer) # 1 /\ step[t] = "pushed"
      <4>1. Len(writeBuffer) \in Nat
        BY LenProperties DEF TypeOK
      <4>2. 1 < Len(writeBuffer) /\ step[t] = "pushed"
        BY <2>2 DEF ChainSend
      <4> HIDE DEF Responsible
      <4>3. Len(writeBuffer) # 1
        BY <4>1, <4>2
      <4>4. QED BY <4>2, <4>3
    <3>2. step'[Main] = "popped" <=> step[Main] = "popped"
      BY <2>2, <3>1 DEF ChainSend, TypeOK
    <3>3. UNCHANGED <<phase, writeBuffer, writing>>
      BY <2>2 DEF ChainSend, sendVars
    <3>4. QED BY <3>1, <3>2, <3>3
  <2>3. ASSUME NEW t \in Threads, StartWrite(t) PROVE Responsible'
    <3>1. phase \in {"accepting", "open"} => writing' = Append(writing, writeBuffer[1])
      BY <2>3 DEF StartWrite, StartedWrite, disconnected
    <3>2. writeBuffer[1] \in Text
      <4>1. writeBuffer \in Seq(Text) /\ 1 \in 1..Len(writeBuffer)
        BY <2>3 DEF StartWrite, TypeOK
      <4>2. QED BY <4>1, ElementOfSeq, Zenon
    <3>3. Append(writing, writeBuffer[1]) # <<>>
      BY <3>2, AppendNotEmpty DEF TypeOK
    <3>4. phase' = phase
      BY <2>3 DEF StartWrite
    <3>5. QED BY <3>1, <3>3, <3>4
  <2>4. ASSUME NEW t \in Threads, TakeFront(t) \/ PopFront(t) PROVE Responsible'
    BY <2>4 DEF TakeFront, PopFront, TypeOK, sendVars
  <2>5. ASSUME CompleteWrite PROVE Responsible'
    BY <2>5 DEF CompleteWrite, TypeOK
  <2>6. ASSUME ContinueWrite PROVE Responsible'
    <3>1. phase \in {"accepting", "open"} => writing' = Append(writing, Head(writeBuffer))
      BY <2>6 DEF ContinueWrite, StartedWrite, disconnected
    <3>2. Head(writeBuffer) \in Text
      BY <2>6 DEF ContinueWrite, TypeOK
    <3>3. Append(writing, Head(writeBuffer)) # <<>>
      BY <3>2, AppendNotEmpty DEF TypeOK
    <3>4. phase' = phase
      BY <2>6 DEF ContinueWrite
    <3>5. QED BY <3>1, <3>3, <3>4
  <2>7. ASSUME ChainEnds PROVE Responsible'
    BY <2>7 DEF ChainEnds, sendVars
  <2>8. ASSUME Accept \/ Refuse \/ WriteFails \/ WriteAborted \/ ReadFails
               \/ ReadAborted \/ CloseNext
        PROVE Responsible'
    BY <2>8 DEF Accept, Refuse, WriteFails, WriteAborted, ReadFails, ReadAborted,
                CloseNext, HandlerReturns, LobbyDisconnect, Erase,
                Released, vars, sendVars
  <2>a. ASSUME (\E m \in Text : ReadArrives(m)) \/ StoreText \/ FillPlace
        PROVE  Responsible'
    <3>1. UNCHANGED <<phase, writeBuffer, writing>>
      BY <2>a DEF ReadArrives, StoreText, FillPlace, sendVars
    <3>2. step[Main] # "popped" /\ \A t \in Threads : step[t] = "pushed" => step'[t] = "pushed"
      BY <2>a DEF ReadArrives, StoreText, FillPlace, MainPolls, TypeOK
    <3>3. QED BY <3>1, <3>2
  <2>9. ASSUME UNCHANGED vars PROVE Responsible'
    BY <2>9 DEF vars, sendVars
  <2>10. QED
    BY <2>1, <2>2, <2>3, <2>4, <2>5, <2>6, <2>7, <2>8, <2>9, <2>a
    DEF Next, ThreadNext, HandlerNext
<1>3. QED BY <1>1, <1>2, TypesAndLock, PTL DEF Spec

\* However many threads send, a queue on an open connection is never left
\* without a write that will come back for it.
THEOREM ChainNeverStalls == Spec => []ChainAlive
<1>1. Responsible => ChainAlive
  BY MainAssumption DEF Responsible, ChainAlive
<1>2. QED BY <1>1, SomebodyIsResponsible, PTL

-----------------------------------------------------------------------------
(* The main thread alone *)

\* Moving the front of a queue to the end of what was written before it keeps
\* the whole.
LEMMA MoveFront ==
    ASSUME NEW S, NEW w \in Seq(S), NEW q \in Seq(S), q # <<>>
    PROVE  /\ Append(w, Head(q)) \o Tail(q) = w \o q
           /\ Len(w) < Len(w \o q)
           /\ (w \o q)[Len(w) + 1] = Head(q)
<1>1. q = <<Head(q)>> \o Tail(q)
  OBVIOUS
<1>2. Append(w, Head(q)) \o Tail(q) = w \o q
  BY <1>1
<1>3. Len(w) < Len(w \o q) /\ (w \o q)[Len(w) + 1] = Head(q)
  OBVIOUS
<1>4. QED BY <1>2, <1>3

\* OneWrite and NothingLost become inductive with what the main thread knows
\* in the middle of send (its text is alone only if nothing is being written)
\* and of afterWrite (nothing is being written).
Chained ==
    /\ OneWrite
    /\ NothingLost
    /\ step[Main] = "pushed" => (Len(writeBuffer) = 1 => writing = <<>>)
    /\ step[Main] = "popped" => writing = <<>>

\* A queue of at most one text is empty without it.
LEMMA TailOfOne ==
    ASSUME NEW S, NEW s \in Seq(S), Len(s) <= 1, s # <<>>
    PROVE  Tail(s) = <<>>
BY EmptySeq, HeadTailProperties, LenProperties

\* A queue of one text has it in front.
LEMMA FrontOfOne ==
    ASSUME NEW S, NEW s \in Seq(S), Len(s) = 1
    PROVE  s # <<>> /\ s[1] = Head(s)
OBVIOUS

\* Both ways to write OneWrite's second half after a start of a write.
LEMMA OneStarted ==
    ASSUME NEW m, writing' \in {<<>>, <<m>>}, writeBuffer' # <<>>, Head(writeBuffer') = m
    PROVE  OneWrite'
<1>1. Len(<<m>>) = 1 /\ Len(<<>>) = 0 /\ Head(<<m>>) = m
  OBVIOUS
<1>2. CASE writing' = <<>>
  BY <1>1, <1>2 DEF OneWrite
<1>3. CASE writing' = <<m>>
  BY <1>1, <1>3 DEF OneWrite
<1>4. QED BY <1>2, <1>3

\* With one thread, a write that is started finds no other outstanding.
LEMMA ChainedStep ==
    ASSUME Threads = {Main}, TypeOK, TypeOK', Chained, [Next]_vars
    PROVE  Chained'
<1> USE DEF Chained, OneWrite, NothingLost, Queued, Alone, MoreToWrite, NextText
<1>1. ASSUME NEW m \in Text, Push(Main, m) PROVE Chained'
  <2>1. NothingLost'
    <3>1. wire \in Seq(Text) /\ writeBuffer \in Seq(Text) /\ m \in Text
      BY <1>1 DEF TypeOK
    <3>2. Append(wire \o writeBuffer, m) = wire \o Append(writeBuffer, m)
      BY ONLY <3>1
    <3>3. QED BY <1>1, <3>2 DEF Push
  <2>2. writing # <<>> => Head(writeBuffer') = Head(writeBuffer) /\ writeBuffer' # <<>>
    BY <1>1 DEF Push, TypeOK
  <2>3. OneWrite'
    BY <1>1, <2>2 DEF Push
  <2>4. Len(writeBuffer') = 1 => writing = <<>>
    BY <1>1 DEF Push, TypeOK
  <2>5. step'[Main] = "pushed"
    BY <1>1 DEF Push, TypeOK
  <2>6. QED BY <1>1, <2>1, <2>3, <2>4, <2>5 DEF Push
<1>2. ASSUME ChainSend(Main) PROVE Chained'
  BY <1>2 DEF ChainSend, TypeOK, sendVars
<1>3. ASSUME StartWrite(Main) PROVE Chained'
  <2>1. writing = <<>> /\ writeBuffer # <<>> /\ writeBuffer[1] = Head(writeBuffer)
    <3>1. step[Main] = "pushed" /\ Len(writeBuffer) = 1
      BY <1>3 DEF StartWrite
    <3>2. writeBuffer \in Seq(Text)
      BY DEF TypeOK
    <3>3. writing = <<>>
      BY <3>1
    <3>4. QED BY <3>1, <3>2, <3>3, FrontOfOne
  <2>2. writing' \in {<<>>, <<Head(writeBuffer)>>}
    BY <1>3, <2>1 DEF StartWrite, StartedWrite
  <2>3. OneWrite'
    BY <1>3, <2>1, <2>2, OneStarted DEF StartWrite
  <2>4. step'[Main] = "idle"
    BY <1>3 DEF StartWrite, TypeOK
  <2>5. QED BY <1>3, <2>3, <2>4 DEF StartWrite
<1>4. ASSUME CompleteWrite PROVE Chained'
  <2>1. writing' = <<>>
    BY <1>4, TailOfOne DEF CompleteWrite, TypeOK
  <2>2. wire' \o writeBuffer' = wire \o writeBuffer
    <3>1. /\ wire' = Append(wire, Head(writeBuffer))
          /\ writeBuffer' = Tail(writeBuffer)
          /\ writeBuffer # <<>>
      BY <1>4 DEF CompleteWrite
    <3>2. QED BY <3>1, MoveFront DEF TypeOK
  <2>3. step'[Main] = "popped"
    BY <1>4, MainAssumption DEF CompleteWrite, TypeOK
  <2>4. wire' \o writeBuffer' = sent'
    BY <1>4, <2>2 DEF CompleteWrite
  <2>5. Len(<<>>) <= 1
    OBVIOUS
  <2>6. QED BY <2>1, <2>3, <2>4, <2>5
<1>5. ASSUME ContinueWrite PROVE Chained'
  <2>1. writing' \in {<<>>, <<Head(writeBuffer)>>} /\ writeBuffer # <<>>
    BY <1>5 DEF ContinueWrite, StartedWrite
  <2>2. OneWrite'
    BY <1>5, <2>1, OneStarted DEF ContinueWrite
  <2>3. step'[Main] = "idle"
    BY <1>5, MainAssumption DEF ContinueWrite, TypeOK
  <2>4. QED BY <1>5, <2>2, <2>3 DEF ContinueWrite
<1>6. ASSUME ChainEnds PROVE Chained'
  BY <1>6, MainAssumption DEF ChainEnds, TypeOK, sendVars
<1>7. ASSUME WriteFails \/ WriteAborted PROVE Chained'
  <2>1. writing' = <<>>
    BY <1>7, TailOfOne DEF WriteFails, WriteAborted, TypeOK
  <2>2. UNCHANGED <<writeBuffer, step, sent, wire>>
    BY <1>7 DEF WriteFails, WriteAborted
  <2>3. Len(<<>>) <= 1
    OBVIOUS
  <2>4. QED BY <2>1, <2>2, <2>3
<1>8. ASSUME Accept \/ Refuse \/ ReadFails \/ ReadAborted \/ CloseNext
      PROVE Chained'
  BY <1>8 DEF Accept, Refuse, ReadFails, ReadAborted, CloseNext, HandlerReturns,
              LobbyDisconnect, Erase, Released, vars, sendVars
<1>a. ASSUME TakeFront(Main) \/ PopFront(Main) \/ (\E m \in Text : ReadArrives(m))
             \/ StoreText \/ FillPlace
      PROVE Chained'
  <2>1. UNCHANGED sendVars
    BY <1>a DEF TakeFront, PopFront, ReadArrives, StoreText, FillPlace
  <2>2. step'[Main] \in {"idle", "taking", "queueing", "exposed"}
    BY <1>a, MainAssumption DEF TakeFront, PopFront, ReadArrives, StoreText, FillPlace,
                                TypeOK
  <2>3. QED BY <2>1, <2>2 DEF sendVars
<1>9. ASSUME UNCHANGED vars PROVE Chained'
  BY <1>9 DEF vars, sendVars
<1>10. QED
  BY <1>1, <1>2, <1>3, <1>4, <1>5, <1>6, <1>7, <1>8, <1>9, <1>a
  DEF Next, ThreadNext, HandlerNext

\* While the main thread is the only one to use the server, at most one
\* async_write is outstanding, that of the text in front of the queue, and
\* every text sent has been written or is queued, in order.
THEOREM WritesAreChained ==
    ASSUME Threads = {Main}
    PROVE  Spec => [](OneWrite /\ NothingLost)
<1>1. Init => Chained
  BY MainAssumption DEF Init, Chained, OneWrite, NothingLost
<1>2. TypeOK /\ TypeOK' /\ Chained /\ [Next]_vars => Chained'
  BY ChainedStep
<1>3. Chained => OneWrite /\ NothingLost
  BY DEF Chained
<1>4. QED BY <1>1, <1>2, <1>3, TypeCorrect, PTL DEF Spec

\* NothingLost by itself: what a thread has handed over and is not written is in
\* the queue, after every step of send and of afterWrite.
THEOREM NothingIsLost ==
    ASSUME Threads = {Main}
    PROVE  Spec => []NothingLost
BY WritesAreChained, PTL

\* Then the outgoing direction implements the text pipe: each text is written
\* once, unchanged and in the order of the calls of send.
THEOREM OutgoingIsAPipe ==
    ASSUME Threads = {Main}
    PROVE  Spec => OutgoingPipe
<1>1. Init => Outgoing!PipeInit
  BY DEF Init, Outgoing!PipeInit
<1>2. TypeOK /\ OneWrite /\ NothingLost /\ [Next]_vars
        => [Outgoing!PipeNext]_(Outgoing!pipeVars)
  <2> SUFFICES ASSUME TypeOK, OneWrite, NothingLost, [Next]_vars
               PROVE  [Outgoing!PipeNext]_(Outgoing!pipeVars)
    OBVIOUS
  <2> USE DEF Outgoing!PipeNext, Outgoing!pipeVars
  <2>1. ASSUME NEW t \in Threads, NEW m \in Text, Push(t, m)
        PROVE  Outgoing!AcceptText(m)
    BY <2>1 DEF Push, Outgoing!AcceptText
  <2>2. ASSUME CompleteWrite PROVE Outgoing!DeliverText
    <3>1. /\ wire' = Append(wire, Head(writeBuffer))
          /\ writeBuffer # <<>>
          /\ sent' = sent
      BY <2>2 DEF CompleteWrite, OneWrite
    <3>2. Len(wire) < Len(sent) /\ sent[Len(wire) + 1] = Head(writeBuffer)
      BY <3>1, MoveFront DEF NothingLost, TypeOK
    <3>3. QED BY <3>1, <3>2 DEF Outgoing!DeliverText
  <2>3. ASSUME NEW t \in Threads, ChainSend(t) \/ StartWrite(t) \/ TakeFront(t)
                                        \/ PopFront(t)
        PROVE  UNCHANGED <<sent, wire>>
    BY <2>3 DEF ChainSend, StartWrite, TakeFront, PopFront, sendVars
  <2>4. ASSUME Accept \/ Refuse \/ ContinueWrite \/ ChainEnds \/ WriteFails
               \/ WriteAborted \/ (\E m \in Text : ReadArrives(m)) \/ StoreText
               \/ FillPlace \/ ReadFails \/ ReadAborted \/ CloseNext \/ UNCHANGED vars
        PROVE  UNCHANGED <<sent, wire>>
    BY <2>4 DEF Accept, Refuse, ContinueWrite, ChainEnds, WriteFails, WriteAborted,
                ReadArrives, StoreText, FillPlace, ReadFails, ReadAborted, CloseNext,
                HandlerReturns,
                LobbyDisconnect, Erase, Released, vars, sendVars
  <2>5. QED BY <2>1, <2>2, <2>3, <2>4 DEF Next, ThreadNext, HandlerNext
<1>3. QED
  BY <1>1, <1>2, TypeCorrect, WritesAreChained, PTL
  DEF Spec, OutgoingPipe, Outgoing!PipeSpec
=============================================================================
