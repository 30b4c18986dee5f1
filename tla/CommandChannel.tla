--------------------------- MODULE CommandChannel ---------------------------
(***************************************************************************)
(* What the control connection promises to the negotiation: the commands   *)
(* of one direction are processed in the order in which they were sent,    *)
(* each once and none skipped.  Negotiation uses such a channel; CtlStream *)
(* is the byte stream that has to provide it.                              *)
(***************************************************************************)
EXTENDS Naturals, Sequences

CONSTANTS
    Command,    \* the commands
    MaxSent     \* bound on the commands sent

VARIABLES
    queue,      \* commands on their way
    got         \* commands that reached the backlog of the receiver

Init ==
    /\ queue = <<>>
    /\ got = <<>>

Send(c) ==
    /\ Len(got) + Len(queue) < MaxSent
    /\ queue' = Append(queue, c)
    /\ UNCHANGED got

Deliver ==
    /\ queue # <<>>
    /\ got' = Append(got, Head(queue))
    /\ queue' = Tail(queue)

Next == Deliver \/ \E c \in Command : Send(c)

Safe == Init /\ [][Next]_<<queue, got>>

Spec == Safe /\ WF_<<queue, got>>(Deliver)
=============================================================================
