--------------------------------- MODULE Web ---------------------------------
(***************************************************************************)
(* One connection from end to end: at the server an HTTPSession and then a *)
(* Channel, at the other end a browser, which asks for pages, or the       *)
(* client of module Client.  The channel is what module Channel shows it   *)
(* to be while no game runs: what Channel::send accepts arrives in order.  *)
(***************************************************************************)
EXTENDS Http, Client

CONSTANTS
    MaxSent         \* bound: texts given to Channel::send

ASSUME WebAssumption == MaxSent \in Nat

VARIABLES
    visitor,        \* browser, client
    given,          \* bound: how many texts Channel::send was given
    sent,           \* those it accepted, in order
    toClient        \* those under way to the client

wireVars == <<visitor, given, sent, toClient>>
vars == <<httpVars, clientVars, wireVars>>

TypeOK ==
    /\ HttpTypeOK /\ ClientTypeOK
    /\ visitor \in {"browser", "client"}
    /\ given \in 0..MaxSent
    /\ sent \in Seq(Text) /\ toClient \in Seq(Text)

Init ==
    /\ HttpInit /\ ClientInit
    /\ visitor \in {"browser", "client"}
    /\ given = 0 /\ sent = <<>> /\ toClient = <<>>

\* A faulty variant of Accepts: an empty text is sent, too.
AcceptsAll(m) == TRUE
Accepts(m) == m # Empty

Serve == HttpStep /\ UNCHANGED <<clientVars, wireVars>>

\* Channel::send, on the channel the session has become.  What a browser is
\* sent is left out.
ServerSends(m) ==
    /\ visitor = "client" /\ socket = "registered" /\ ~lost
    /\ given < MaxSent
    /\ given' = given + 1
    /\ IF Accepts(m) THEN sent' = Append(sent, m) /\ toClient' = Append(toClient, m)
       ELSE UNCHANGED <<sent, toClient>>
    /\ UNCHANGED <<httpVars, clientVars, visitor>>

Browse ==
    /\ visitor = "browser" /\ socket # "listening" /\ ~lost
    /\ \E r \in Request : Asks(r)
    /\ UNCHANGED <<clientVars, wireVars>>

-----------------------------------------------------------------------------
(* The client meets the server *)

IsClient == visitor = "client"

\* The kernel of the server completes the connection; the client's handler
\* then sends the request of its handshake.
Connect ==
    /\ IsClient /\ socket # "listening"
    /\ \/ /\ ~lost /\ ConnectEnds(TRUE)
          /\ Asks([method |-> TRUE, target |-> FALSE, keep |-> TRUE, upgrade |-> TRUE])
       \/ ConnectEnds(FALSE) /\ UNCHANGED httpVars
    /\ UNCHANGED wireVars

Handshake ==
    /\ IsClient
    /\ \/ socket \in {"moved", "registered"} /\ HandshakeEnds(TRUE)
       \/ lost /\ HandshakeEnds(FALSE)
    /\ UNCHANGED <<httpVars, wireVars>>

Read ==
    /\ IsClient /\ toClient # <<>>
    /\ ReadEnds(Head(toClient))
    /\ toClient' = Tail(toClient)
    /\ UNCHANGED <<httpVars, visitor, given, sent>>

\* The connection has gone, or was never made.
Break ==
    /\ IsClient
    /\ \/ lost /\ ReadBreaks
       \/ (lost \/ stage # "up") /\ \E i \in clientWrites : WriteBreaks(i)
    /\ UNCHANGED <<httpVars, wireVars>>

Written ==
    /\ IsClient /\ stage = "up"
    /\ \E i \in clientWrites : WriteEnds(i)
    /\ UNCHANGED <<httpVars, wireVars>>

Shows == IsClient /\ Show /\ UNCHANGED <<httpVars, wireVars>>

UserTypes ==
    /\ IsClient
    /\ \/ Len(typed) < MaxTyped /\ \E m \in Text : SendText(m)
       \/ Exit
    /\ UNCHANGED <<httpVars, wireVars>>

\* The connection is lost; when the client has ended it is.
Lost == Lose /\ socket # "listening" /\ UNCHANGED <<clientVars, wireVars>>

ClientLoop == Connect \/ Handshake \/ Read \/ Break \/ Written \/ Shows

Next ==
    \/ Serve \/ Browse \/ Lost \/ ClientLoop \/ UserTypes
    \/ \E m \in Text \cup {Empty} : ServerSends(m)

Spec == Init /\ [][Next]_vars

(***************************************************************************)
(* Fairness.  Server::update and Client::update are called again and again *)
(* (poll runs what is ready), and the operations of asio end.  Nothing is  *)
(* assumed of the people at both ends.                                     *)
(***************************************************************************)
FairSpec == Spec /\ WF_vars(Serve) /\ WF_vars(ClientLoop)

-----------------------------------------------------------------------------
(* Properties *)

\* What the client shows is what the server has sent, once and in order,
\* though messages are concatenated.
Shown == INSTANCE TextPipe WITH accepted <- sent, delivered <- shown \o incoming
ClientReads == Shown!PipeSpec

\* A client that is connected notices that the connection is lost, and ends; a
\* client that did not read would go on for ever.
LossIsNoticed == stage = "up" /\ lost ~> ~Running

\* Each request is answered, unless an earlier one asked to close or to upgrade,
\* or was a bad one.
RequestsAreAnswered ==
    \A n \in 1..MaxRequests :
        handled + Len(pending) >= n
            ~> (Len(written) >= n \/ lost \/ shut \/ bad > 0
                  \/ socket \in {"moved", "registered"})
=============================================================================
