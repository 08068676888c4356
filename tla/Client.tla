-------------------------------- MODULE Client --------------------------------
(***************************************************************************)
(* The command line client: networking::Client                             *)
(* (lib/networking/src/Client.cpp) and the main loop of                    *)
(* tools/gameclient/gameclient.cpp, one thread.  What it connects to is    *)
(* in module Web.                                                          *)
(***************************************************************************)
EXTENDS Naturals, FiniteSets, Sequences

CONSTANTS
    Text,           \* texts that are not empty
    Empty,
    MaxTyped        \* bound: texts typed

ASSUME TextAssumption == Empty \notin Text /\ MaxTyped \in Nat

VARIABLES
    stage,          \* connecting, handshaking, up; failed: one of these did
    reading,        \* an async_read is outstanding
    isClosed,
    typed,          \* the texts given to async_write, in order
    popped,         \* how many of them pop_front took out of writeBuffer
    clientWrites,   \* the positions in typed of the async_writes outstanding
    incoming,       \* incomingMessage: the texts that are concatenated in it
    shown,          \* the texts in what receive has returned
    done            \* the local variable of main: the user has ended the client

clientVars == <<stage, reading, isClosed, typed, popped, clientWrites, incoming, shown,
                done>>

ClientTypeOK ==
    /\ stage \in {"connecting", "handshaking", "up", "failed"}
    /\ reading \in BOOLEAN /\ isClosed \in BOOLEAN /\ done \in BOOLEAN
    /\ typed \in Seq(Text) /\ popped \in 0..Len(typed)
    /\ clientWrites \subseteq 1..Len(typed)
    /\ incoming \in Seq(Text) /\ shown \in Seq(Text)

ClientInit ==
    /\ stage = "connecting"
    /\ reading = FALSE /\ isClosed = FALSE
    /\ typed = <<>> /\ popped = 0 /\ clientWrites = {}
    /\ incoming = <<>> /\ shown = <<>>
    /\ done = FALSE

\* The condition of the main loop.
Running == ~done /\ ~isClosed

-----------------------------------------------------------------------------
(* A faulty variant of a definition below, one plausible slip.             *)

KeepsIncoming == incoming       \* receive does not empty the stream

-----------------------------------------------------------------------------
(* The handlers that Client::update runs *)

ConnectEnds(ok) ==
    /\ Running /\ stage = "connecting"
    /\ stage' = IF ok THEN "handshaking" ELSE "failed"
    /\ UNCHANGED <<reading, isClosed, typed, popped, clientWrites, incoming, shown,
                   done>>

HandshakeEnds(ok) ==
    /\ Running /\ stage = "handshaking"
    /\ stage' = IF ok THEN "up" ELSE "failed"
    /\ reading' = ok
    /\ UNCHANGED <<isClosed, typed, popped, clientWrites, incoming, shown, done>>

\* A message of size 0 is the last that is read.
ReadEnds(m) ==
    /\ Running /\ reading
    /\ IF m = Empty THEN reading' = FALSE /\ UNCHANGED incoming
       ELSE incoming' = Append(incoming, m) /\ UNCHANGED reading
    /\ UNCHANGED <<stage, isClosed, typed, popped, clientWrites, shown, done>>

ReadBreaks ==
    /\ Running /\ reading
    /\ reading' = FALSE /\ isClosed' = TRUE
    /\ UNCHANGED <<stage, typed, popped, clientWrites, incoming, shown, done>>

\* pop_front takes out the first text, whichever write has ended.
WriteEnds(i) ==
    /\ Running /\ i \in clientWrites
    /\ clientWrites' = clientWrites \ {i}
    /\ popped' = popped + 1
    /\ UNCHANGED <<stage, reading, isClosed, typed, incoming, shown, done>>

WriteBreaks(i) ==
    /\ Running /\ i \in clientWrites
    /\ clientWrites' = clientWrites \ {i}
    /\ isClosed' = TRUE
    /\ UNCHANGED <<stage, reading, typed, popped, incoming, shown, done>>

-----------------------------------------------------------------------------
(* The main loop *)

\* Client::send starts a write whether or not another is outstanding.
SendText(m) ==
    /\ Running
    /\ typed' = Append(typed, m)
    /\ clientWrites' = clientWrites \cup {Len(typed) + 1}
    /\ UNCHANGED <<stage, reading, isClosed, popped, incoming, shown, done>>

\* Client::receive returns everything, and empties the stream.  (The loop does
\* so once more when it is about to end.)
AfterReceive == <<>>
Show ==
    /\ ~done /\ incoming # <<>>
    /\ shown' = shown \o incoming
    /\ incoming' = AfterReceive
    /\ UNCHANGED <<stage, reading, isClosed, typed, popped, clientWrites, done>>

\* "exit", "quit".
Exit ==
    /\ Running
    /\ done' = TRUE
    /\ UNCHANGED <<stage, reading, isClosed, typed, popped, clientWrites, incoming, shown>>
=============================================================================
