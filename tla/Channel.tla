------------------------------- MODULE Channel -------------------------------
(***************************************************************************)
(* One Channel of the server (lib/networking/src/Server.cpp): a websocket, *)
(* the queue of texts waiting to be written to it, the queue of texts read *)
(* from it, and the part of Server that opens, uses and closes it.         *)
(*                                                                         *)
(* The handlers of asio run on the main thread, inside Server::update,     *)
(* and take no lock.  Server::send, Server::receive and Server::disconnect *)
(* may be called by any thread and take the mutex Server::lock.            *)
(*                                                                         *)
(* Texts are model values; an empty outgoing text is dropped at once by    *)
(* Channel::send and changes nothing, so Text holds non-empty ones.        *)
(*                                                                         *)
(* Both queues are used under the lock by one side and without it by the   *)
(* other, which is a data race.  What it does to the operations of a deque *)
(* themselves is modelled for readBuffer: the handler that appends and     *)
(* receive are cut where the other can come between.  An operation on      *)
(* writeBuffer is one step, and the looks at it are steps of their own.    *)
(***************************************************************************)
EXTENDS Sequences, Naturals

CONSTANTS
    Text,           \* the texts that are told apart
    Threads,        \* the threads that call the server
    Main,           \* the one that also runs Server::update
    NoThread,       \* "nobody" holds the lock
    Unwritten,      \* what is in the place of a text not yet stored there
    MaxSends,       \* bound: texts sent in a behaviour
    MaxArrivals     \* bound: texts read in a behaviour

ASSUME MainAssumption == Main \in Threads /\ NoThread \notin Threads
ASSUME UnwrittenAssumption == Unwritten \notin Text
ASSUME BoundsAssumption == MaxSends \in Nat /\ MaxArrivals \in Nat

VARIABLES
    phase,          \* where the channel is in its life, see Phases
    lock,           \* the holder of Server::lock
    step,           \* step[t]: where thread t is in Channel::send, afterWrite
                    \* or receive, or in the handler of readMessage
    writeBuffer,    \* texts to be written, the one being written in front
    writing,        \* outstanding calls of async_write, oldest first
    readBuffer,     \* texts read and not yet received
    reading,        \* a call of async_read is outstanding
    sent,           \* history: texts given to Channel::send
    wire,           \* history: texts the websocket has written
    arrived,        \* history: texts the websocket has read
    received        \* history: texts returned by Channel::receive

sendVars == <<writeBuffer, writing, sent, wire>>
readVars == <<readBuffer, reading, arrived, received>>
vars == <<phase, lock, step, sendVars, readVars>>

(***************************************************************************)
(* accepting: the websocket handshake is outstanding; refused: it failed.  *)
(* open: registered in ServerImpl::channels.  handling: still registered,  *)
(* Server::disconnect has released the lock and called onDisconnect.       *)
(* closing: Channel::disconnect runs, under the lock.  closed: erased from *)
(* the channels; only the outstanding handlers still hold the object.      *)
(*                                                                         *)
(* pushed: send has appended a text; popped: afterWrite has removed one.   *)
(* queueing, exposed: the handler of a read is inside push_back, and other *)
(* threads do not, or do, see the new end of readBuffer already.  taking:  *)
(* receive has the text in front, and is about to call pop_front.          *)
(***************************************************************************)
Phases == {"accepting", "refused", "open", "handling", "closing", "closed"}
Steps == {"idle", "pushed", "popped", "queueing", "exposed", "taking"}

TypeOK ==
    /\ phase \in Phases
    /\ lock \in Threads \cup {NoThread}
    /\ step \in [Threads -> Steps]
    /\ writeBuffer \in Seq(Text)
    /\ writing \in Seq(Text)
    /\ readBuffer \in Seq(Text \cup {Unwritten})
    /\ reading \in BOOLEAN
    /\ sent \in Seq(Text)
    /\ wire \in Seq(Text)
    /\ arrived \in Seq(Text)
    /\ received \in Seq(Text \cup {Unwritten})

Init ==
    /\ phase = "accepting"
    /\ lock = NoThread
    /\ step = [t \in Threads |-> "idle"]
    /\ writeBuffer = <<>> /\ writing = <<>> /\ sent = <<>> /\ wire = <<>>
    /\ readBuffer = <<>> /\ reading = FALSE /\ arrived = <<>> /\ received = <<>>

Registered == phase \in {"open", "handling", "closing"}

\* The flag Channel::disconnected.
disconnected == phase \in {"closing", "closed"}

\* Server::update can run a handler: the main thread is in none already.
MainPolls == step[Main] = "idle" /\ phase \notin {"handling", "closing"}

-----------------------------------------------------------------------------
(***************************************************************************)
(* Faulty variants of the definitions below, one plausible slip each.      *)
(* Nothing uses them: put in the place of what they vary, they show that   *)
(* the properties at the end of the module can fail.                       *)
(***************************************************************************)
QueuedInFront(q, m) == <<m>> \o q       \* before the texts that wait
AloneAlways == TRUE                     \* no look at the size of the queue
MoreThanOne == 1 < Len(writeBuffer)     \* one text is not enough to go on
LastText == writeBuffer[Len(writeBuffer)]   \* the back instead of the front
StartedWriteOfQueue(m) ==               \* the queue instead of its text
    IF disconnected THEN writing ELSE Append(writing, writeBuffer)

-----------------------------------------------------------------------------
(* Parts of the actions *)

\* A text is appended to writeBuffer or readBuffer.
Queued(q, m) == Append(q, m)

\* The text just queued is the only one; there is one to go on with, the front.
Alone == Len(writeBuffer) = 1
MoreToWrite == writeBuffer # <<>>
NextText == Head(writeBuffer)

\* Call async_write for m.  On a websocket that was closed the operation ends
\* with an error, on which Channel::afterWrite returns without a trace.
StartedWrite(m) == IF disconnected THEN writing ELSE Append(writing, m)

-----------------------------------------------------------------------------
(* Opening *)

\* The handler of Channel::start: registerChannel, then readMessage.
Accept ==
    /\ phase = "accepting"
    /\ lock = NoThread
    /\ phase' = "open"
    /\ reading' = TRUE
    /\ UNCHANGED <<lock, step, sendVars, readBuffer, arrived, received>>

\* The same handler after an error: Server::disconnect finds no such channel.
Refuse ==
    /\ phase = "accepting"
    /\ lock = NoThread
    /\ phase' = "refused"
    /\ UNCHANGED <<lock, step, sendVars, readVars>>

-----------------------------------------------------------------------------
(* Sending *)

\* Server::send takes the lock and finds the channel, Channel::send appends
\* the text.  The main thread calls it from its loop and from onDisconnect.
Push(t, m) ==
    /\ lock = NoThread
    /\ Registered
    /\ step[t] = "idle"
    /\ Len(sent) < MaxSends
    /\ lock' = t
    /\ step' = [step EXCEPT ![t] = "pushed"]
    /\ writeBuffer' = Queued(writeBuffer, m)
    /\ sent' = Append(sent, m)
    /\ UNCHANGED <<phase, writing, wire, readVars>>

\* Channel::send leaves the text to the chain of writes that is under way.
ChainSend(t) ==
    /\ step[t] = "pushed"
    /\ 1 < Len(writeBuffer)
    /\ step' = [step EXCEPT ![t] = "idle"]
    /\ lock' = NoThread
    /\ UNCHANGED <<phase, sendVars, readVars>>

\* Channel::send starts a chain of writes with the text in the back.
StartWrite(t) ==
    /\ step[t] = "pushed"
    /\ Alone
    /\ writing' = StartedWrite(writeBuffer[1])
    /\ step' = [step EXCEPT ![t] = "idle"]
    /\ lock' = NoThread
    /\ UNCHANGED <<phase, writeBuffer, sent, wire, readVars>>

\* A write ended well: Channel::afterWrite pops the text.  (pop_front on an
\* empty deque is undefined; OneWrite rules it out.)
CompleteWrite ==
    /\ MainPolls
    /\ writing # <<>>
    /\ writeBuffer # <<>>
    /\ wire' = Append(wire, Head(writing))
    /\ writing' = Tail(writing)
    /\ writeBuffer' = Tail(writeBuffer)
    /\ step' = [step EXCEPT ![Main] = "popped"]
    /\ UNCHANGED <<phase, lock, sent, readVars>>

\* ... and writes the next text, if there is one.
ContinueWrite ==
    /\ step[Main] = "popped"
    /\ MoreToWrite
    /\ writing' = StartedWrite(NextText)
    /\ step' = [step EXCEPT ![Main] = "idle"]
    /\ UNCHANGED <<phase, lock, writeBuffer, sent, wire, readVars>>

ChainEnds ==
    /\ step[Main] = "popped"
    /\ ~MoreToWrite
    /\ step' = [step EXCEPT ![Main] = "idle"]
    /\ UNCHANGED <<phase, lock, sendVars, readVars>>

\* A write failed on a connection nobody has closed: Channel::afterWrite calls
\* Server::disconnect, which calls onDisconnect without the lock.
WriteFails ==
    /\ MainPolls
    /\ phase = "open"
    /\ lock = NoThread
    /\ writing # <<>>
    /\ writing' = Tail(writing)
    /\ phase' = "handling"
    /\ UNCHANGED <<lock, step, writeBuffer, sent, wire, readVars>>

\* A write failed because the server closed the connection.
WriteAborted ==
    /\ MainPolls
    /\ phase = "closed"
    /\ writing # <<>>
    /\ writing' = Tail(writing)
    /\ UNCHANGED <<phase, lock, step, writeBuffer, sent, wire, readVars>>

-----------------------------------------------------------------------------
(* Receiving *)

\* The handler of Channel::readMessage begins to queue the text, and reads on.
\* push_back stores the text and the new end of the deque.  Nothing orders the
\* two for another thread, which may see the end first.
ReadArrives(m) ==
    /\ MainPolls
    /\ reading
    /\ Len(arrived) < MaxArrivals
    /\ arrived' = Append(arrived, m)
    /\ \/ /\ step' = [step EXCEPT ![Main] = "queueing"]
          /\ UNCHANGED readBuffer
       \/ /\ step' = [step EXCEPT ![Main] = "exposed"]
          /\ readBuffer' = Queued(readBuffer, Unwritten)
    /\ UNCHANGED <<phase, lock, sendVars, reading, received>>

\* ... and has done so.
StoreText ==
    /\ step[Main] = "queueing"
    /\ readBuffer' = Queued(readBuffer, arrived[Len(arrived)])
    /\ step' = [step EXCEPT ![Main] = "idle"]
    /\ UNCHANGED <<phase, lock, sendVars, reading, arrived, received>>

\* The place of the text is the last, unless somebody has taken it out.
FillPlace ==
    /\ step[Main] = "exposed"
    /\ readBuffer' = IF readBuffer = <<>> THEN <<>>
                     ELSE [readBuffer EXCEPT ![Len(readBuffer)] = arrived[Len(arrived)]]
    /\ step' = [step EXCEPT ![Main] = "idle"]
    /\ UNCHANGED <<phase, lock, sendVars, reading, arrived, received>>

\* The same handler after an error on a connection nobody has closed.
ReadFails ==
    /\ MainPolls
    /\ reading
    /\ phase = "open"
    /\ lock = NoThread
    /\ reading' = FALSE
    /\ phase' = "handling"
    /\ UNCHANGED <<lock, step, sendVars, readBuffer, arrived, received>>

\* The same handler after the server closed the connection.
ReadAborted ==
    /\ MainPolls
    /\ reading
    /\ phase = "closed"
    /\ reading' = FALSE
    /\ UNCHANGED <<phase, lock, step, sendVars, readBuffer, arrived, received>>

\* Server::receive by thread t: move the text in front out of the deque, if
\* there is one.
TakeFront(t) ==
    /\ lock = NoThread
    /\ Registered
    /\ step[t] = "idle"
    /\ t = Main => phase = "open"
    /\ readBuffer # <<>>
    /\ lock' = t
    /\ step' = [step EXCEPT ![t] = "taking"]
    /\ received' = Append(received, Head(readBuffer))
    /\ UNCHANGED <<phase, sendVars, readBuffer, reading, arrived>>

\* ... then drop its place, and return the text.
PopFront(t) ==
    /\ step[t] = "taking"
    /\ readBuffer' = Tail(readBuffer)
    /\ step' = [step EXCEPT ![t] = "idle"]
    /\ lock' = NoThread
    /\ UNCHANGED <<phase, sendVars, reading, arrived, received>>

-----------------------------------------------------------------------------
(* Closing *)

\* onDisconnect returns, Server::disconnect takes the lock again and calls
\* Channel::disconnect.
HandlerReturns ==
    /\ phase = "handling"
    /\ step[Main] = "idle"
    /\ lock = NoThread
    /\ phase' = "closing"
    /\ lock' = Main
    /\ UNCHANGED <<step, sendVars, readVars>>

\* The main loop calls Server::disconnect(c, false) for /quit and /shutdown.
LobbyDisconnect ==
    /\ phase = "open"
    /\ step[Main] = "idle"
    /\ lock = NoThread
    /\ phase' = "closing"
    /\ lock' = Main
    /\ UNCHANGED <<step, sendVars, readVars>>

\* Channel::disconnect returns: the channel is erased, the lock released.
Erase ==
    /\ phase = "closing"
    /\ phase' = "closed"
    /\ lock' = NoThread
    /\ UNCHANGED <<step, sendVars, readVars>>

\* Nothing refers to the channel any more.
Released ==
    /\ phase \in {"refused", "closed"}
    /\ ~reading
    /\ writing = <<>>
    /\ step[Main] = "idle"
    /\ UNCHANGED vars

-----------------------------------------------------------------------------
ThreadNext(t) ==
    \/ \E m \in Text : Push(t, m)
    \/ ChainSend(t)
    \/ StartWrite(t)
    \/ TakeFront(t)
    \/ PopFront(t)

HandlerNext ==
    \/ Accept
    \/ Refuse
    \/ CompleteWrite
    \/ ContinueWrite
    \/ ChainEnds
    \/ WriteFails
    \/ WriteAborted
    \/ \E m \in Text : ReadArrives(m)
    \/ StoreText
    \/ FillPlace
    \/ ReadFails
    \/ ReadAborted

CloseNext == HandlerReturns \/ LobbyDisconnect \/ Erase \/ Released

Next == (\E t \in Threads : ThreadNext(t)) \/ HandlerNext \/ CloseNext

Spec == Init /\ [][Next]_vars

(***************************************************************************)
(* Fairness.  A thread inside send, receive or a handler, which never      *)
(* wait, goes on; and an outstanding async_write ends, well or with an     *)
(* error, and its handler is run, for the main loop calls                  *)
(* Server::update again and again.  Nothing is assumed of new texts, of    *)
(* lost connections or of the lobby.                                       *)
(***************************************************************************)
Fairness ==
    /\ \A t \in Threads : WF_vars(ChainSend(t) \/ StartWrite(t) \/ PopFront(t))
    /\ WF_vars(ContinueWrite \/ ChainEnds \/ StoreText \/ FillPlace)
    /\ WF_vars(CompleteWrite \/ WriteFails)

FairSpec == Spec /\ Fairness

-----------------------------------------------------------------------------
(* Properties *)

\* At most one async_write is outstanding, and it is the one of the text in
\* front of the queue, which afterWrite will pop.  This is what the comment in
\* Channel::send says the chaining is for.
OneWrite ==
    /\ Len(writing) <= 1
    /\ writing # <<>> => /\ writeBuffer # <<>>
                         /\ Head(writing) = Head(writeBuffer)

\* No lost wake-up: while a connection is open, texts are queued and nobody is
\* inside send or afterWrite, a write is outstanding.  Otherwise nothing would
\* ever write the queue, since later sends only append to it.  Unlike OneWrite
\* this survives the threads that send without the main one knowing.
ChainAlive ==
    (/\ phase = "open"
     /\ writeBuffer # <<>>
     /\ \A t \in Threads : step[t] = "idle")
        => writing # <<>>

\* Every text given to send is either written or still queued, each once and
\* in order, whatever fails or is closed in between.
NothingLost == sent = wire \o writeBuffer

\* The outgoing direction keeps the promise of a text pipe.
Outgoing == INSTANCE TextPipe WITH accepted <- sent, delivered <- wire
OutgoingPipe == Outgoing!PipeSpec

\* So should the incoming one: Server::receive "returns all Message instances
\* collected by previous calls to Server::update() and not yet received"
\* (Server.h).  It does not when a game thread receives while the handler of a
\* read appends to the same deque: the text may be taken before it is stored.
Incoming == INSTANCE TextPipe WITH accepted <- arrived, delivered <- received
IncomingPipe == Incoming!PipeSpec

\* Every text sent on a connection that stays open is written in the end.
EverySentIsWritten ==
    \A n \in 1..MaxSends :
        (Len(sent) >= n /\ phase = "open")
            ~> (Len(wire) >= n \/ phase # "open")
=============================================================================
