--------------------------------- MODULE Http ---------------------------------
(***************************************************************************)
(* One HTTPSession of the server (lib/networking/src/Server.cpp): a socket *)
(* on which requests are read and answered until it is closed or a request *)
(* makes it a websocket, a Channel.  Reads and writes are operations of    *)
(* asio, whose handlers start the next one: a chain, with no other thread. *)
(*                                                                         *)
(* handleRequest does not return after it has answered a bad request, so   *)
(* it answers again, and each of the answers carries on a chain.           *)
(***************************************************************************)
EXTENDS Naturals, FiniteSets, Sequences

CONSTANTS
    MaxRequests     \* bound: requests sent on the connection

(***************************************************************************)
(* A request: method is one of the two that are supported, target is /     *)
(* or ends in /index.html, keep is keep_alive, upgrade is is_upgrade.      *)
(***************************************************************************)
Request == [method : BOOLEAN, target : BOOLEAN, keep : BOOLEAN, upgrade : BOOLEAN]
Answers == {"unknown method", "illegal target", "page"}

ASSUME RequestsAssumption == MaxRequests \in Nat

VARIABLES
    socket,         \* listening: async_accept is outstanding; open; moved: to
                    \* a Channel whose async_accept is outstanding; registered
    lost,           \* the connection is gone: operations fail
    pending,        \* the requests that have arrived and are not read
    reads,          \* how many async_reads are outstanding
    writes,         \* the answers that are being written, see Response
    shut,           \* shutdown_send has been done: writes fail
    handled,        \* history: how many requests handleRequest has answered
    bad,            \* history: how many answers said that a request was bad
    written         \* history: the answers written, in the order they ended

httpVars == <<socket, lost, pending, reads, writes, shut, handled, bad, written>>

\* An answer to the n-th request.
Response == [n : Nat \ {0}, is : Answers, keep : BOOLEAN]

HttpTypeOK ==
    /\ socket \in {"listening", "open", "moved", "registered"}
    /\ lost \in BOOLEAN /\ shut \in BOOLEAN
    /\ pending \in Seq(Request)
    /\ reads \in Nat /\ handled \in Nat /\ bad \in Nat
    /\ writes \subseteq Response /\ IsFiniteSet(writes)
    /\ written \in Seq(Response)

HttpInit ==
    /\ socket = "listening" /\ lost = FALSE
    /\ pending = <<>>
    /\ reads = 0 /\ writes = {} /\ shut = FALSE
    /\ handled = 0 /\ bad = 0 /\ written = <<>>

-----------------------------------------------------------------------------
(* Faulty variants of the definitions below, one plausible slip each.      *)

ReadsAhead == 1                 \* the next read is started with the answers
PersistsAlways(w) == TRUE       \* does not look at need_eof
StartsNothing == 0              \* no next read after an answer

-----------------------------------------------------------------------------
\* How many async_reads handleRequest starts by itself, and start does.
AfterRequest == 0
Started == 1

\* ~need_eof
Persists(w) == w.keep

\* listenForConnections: whether it succeeds or not, the server listens again
\* with a new session.
AcceptSocket ==
    /\ socket = "listening"
    /\ socket' = "open"
    /\ reads' = 1
    /\ UNCHANGED <<lost, pending, writes, shut, handled, bad, written>>

\* The answers of handleRequest to the n-th request, r.
AnswersTo(r, n) ==
    {[n |-> n, is |-> a, keep |-> r.keep] :
        a \in {"page"} \cup (IF r.method THEN {} ELSE {"unknown method"})
                       \cup (IF r.target THEN {} ELSE {"illegal target"})}

\* The handler of async_read: one that is no upgrade is answered.
HandleRequest ==
    LET r == Head(pending) IN
    /\ socket = "open" /\ reads > 0 /\ ~lost
    /\ pending # <<>> /\ ~r.upgrade
    /\ pending' = Tail(pending)
    /\ reads' = reads - 1 + AfterRequest
    /\ handled' = handled + 1
    /\ writes' = writes \cup AnswersTo(r, handled + 1)
    /\ bad' = bad + (IF r.method THEN 0 ELSE 1) + (IF r.target THEN 0 ELSE 1)
    /\ UNCHANGED <<socket, lost, shut, written>>

\* ... or Channel::start is called; the session goes with the last operation
\* that holds it.
Upgrade ==
    /\ socket = "open" /\ reads > 0 /\ ~lost
    /\ pending # <<>> /\ Head(pending).upgrade
    /\ pending' = Tail(pending)
    /\ reads' = reads - 1
    /\ socket' = "moved"
    /\ UNCHANGED <<lost, writes, shut, handled, bad, written>>

\* async_accept ends: registerChannel.  When it fails the channel is dropped,
\* which it is not told apart from a lost connection here.
RegisterChannel ==
    /\ socket = "moved" /\ ~lost
    /\ socket' = "registered"
    /\ UNCHANGED <<lost, pending, reads, writes, shut, handled, bad, written>>

\* A read fails when the connection is lost, and may do so when the socket has
\* been moved away or several operations overlap on it.
Disturbed == lost \/ socket \in {"moved", "registered"} \/ reads + Cardinality(writes) > 1
ReadFails ==
    /\ reads > 0 /\ Disturbed
    /\ reads' = reads - 1
    /\ UNCHANGED <<socket, lost, pending, writes, shut, handled, bad, written>>

\* The handler of async_write: the next request is read, or the answer was the
\* last one, a deliberate close.
EndWrite(w) ==
    /\ w \in writes /\ ~lost /\ ~shut /\ socket = "open"
    /\ writes' = writes \ {w}
    /\ written' = Append(written, w)
    /\ reads' = reads + (IF Persists(w) THEN Started ELSE 0)
    /\ shut' = ~Persists(w)
    /\ UNCHANGED <<socket, lost, pending, handled, bad>>

\* On an error the socket, if it is still here, is shut down with a function
\* that may throw; Server::update catches the exception.
WriteFailsOn(w) ==
    /\ w \in writes /\ (Disturbed \/ shut)
    /\ writes' = writes \ {w}
    /\ shut' = (shut \/ socket = "open")
    /\ UNCHANGED <<socket, lost, pending, reads, handled, bad, written>>

HttpStep ==
    \/ AcceptSocket \/ HandleRequest \/ Upgrade \/ RegisterChannel \/ ReadFails
    \/ \E w \in writes : EndWrite(w) \/ WriteFailsOn(w)

-----------------------------------------------------------------------------
(* The visitor at the other end *)

Asks(r) ==
    /\ Len(pending) + handled < MaxRequests
    /\ pending' = Append(pending, r)
    /\ UNCHANGED <<socket, lost, reads, writes, shut, handled, bad, written>>

Lose ==
    /\ ~lost
    /\ lost' = TRUE
    /\ UNCHANGED <<socket, pending, reads, writes, shut, handled, bad, written>>

\* A session by itself, with a visitor who may ask for anything at any time.
HttpNext == HttpStep \/ (\E r \in Request : Asks(r)) \/ Lose
HttpSpec == HttpInit /\ [][HttpNext]_httpVars

-----------------------------------------------------------------------------
(* Properties *)

Count(b) == IF b THEN 1 ELSE 0

\* The operations under way on a session form one chain, which a shutdown or
\* the move to a channel ends; only the answers to bad requests begin others.
\* Beast allows one read and one write of a stream at a time.
OneChain ==
    reads + Cardinality(writes) + Count(shut) + Count(socket \in {"moved", "registered"})
        <= 1 + bad

\* Until there is a bad request each request is answered once and in order, and
\* one that asks to close is the last.
AnswersInOrder ==
    bad = 0 =>
        \A i \in 1..Len(written) :
            written[i].n = i /\ (i < Len(written) => written[i].keep)
=============================================================================
