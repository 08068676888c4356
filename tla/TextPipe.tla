------------------------------ MODULE TextPipe ------------------------------
(***************************************************************************)
(* What one direction of a connection promises (the Server and Client      *)
(* classes of lib/networking are "for transferring text"): every text that *)
(* was accepted is delivered at most once, unchanged, and in the order in  *)
(* which the texts were accepted.  Nothing is said of when, and a pipe may *)
(* stop for good, as a connection that is lost does.                       *)
(***************************************************************************)
EXTENDS Sequences, Naturals

CONSTANT Text           \* the texts that are told apart

VARIABLES
    accepted,           \* texts given to the sending side, oldest first
    delivered           \* texts that left the pipe, oldest first

pipeVars == <<accepted, delivered>>

PipeInit == accepted = <<>> /\ delivered = <<>>

\* The sending side hands a text over.
AcceptText(m) ==
    /\ accepted' = Append(accepted, m)
    /\ UNCHANGED delivered

\* The oldest text that has not been delivered leaves the pipe.
DeliverText ==
    /\ Len(delivered) < Len(accepted)
    /\ delivered' = Append(delivered, accepted[Len(delivered) + 1])
    /\ UNCHANGED accepted

PipeNext == (\E m \in Text : AcceptText(m)) \/ DeliverText

PipeSpec == PipeInit /\ [][PipeNext]_pipeVars
=============================================================================
