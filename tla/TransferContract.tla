-------------------------- MODULE TransferContract --------------------------
(***************************************************************************)
(* What the two ends of a file transfer promise each other, without the    *)
(* commands, connections and failures by which they keep it.  The owner of *)
(* a transfer suggests a file to the other node.  Both agree before either *)
(* moves data, the receiving node first; an end may stop at any time       *)
(* without telling its peer, several at once when a connection closes; and *)
(* what has ended stays ended.  Negotiation keeps this contract.           *)
(***************************************************************************)
CONSTANTS
    Node,       \* the two programs
    Id          \* numbers the transfers of an owner

VARIABLE
    end         \* each node's end of each transfer

Transfer == Node \X Id
Stage == {"UNKNOWN", "OPEN", "AGREED", "MOVING", "DONE", "STOPPED"}
End == [stage : Stage, accepted : BOOLEAN]

Owns(n, t) == t[1] = n

Init == end = [n \in Node |-> [t \in Transfer |-> [stage |-> "UNKNOWN", accepted |-> FALSE]]]

\* What one end may do: mine becomes new while its peer is as theirs says.
Opens(mine, new, theirs, owns) ==
    /\ mine.stage = "UNKNOWN"
    /\ owns \/ theirs.stage # "UNKNOWN"
    /\ new = [stage |-> "OPEN", accepted |-> FALSE]

\* The receiving end accepts by itself, its owner only what was accepted.
Accepts(mine, new, theirs, owns) ==
    /\ mine.stage = "OPEN" /\ ~mine.accepted
    /\ owns => theirs.accepted
    /\ new.stage \in {"OPEN", "AGREED", "STOPPED"} /\ new.accepted

Agrees(mine, new) ==
    /\ mine.stage = "OPEN" /\ mine.accepted
    /\ new = [mine EXCEPT !.stage = "AGREED"]

Moves(mine, new, theirs) ==
    /\ mine.stage = "AGREED"
    /\ theirs.accepted
    /\ new = [mine EXCEPT !.stage = "MOVING"]

Completes(mine, new) ==
    /\ mine.stage = "MOVING"
    /\ new = [mine EXCEPT !.stage = "DONE"]

Stops(mine, new) ==
    /\ mine.stage \in {"OPEN", "AGREED", "MOVING"}
    /\ new = [mine EXCEPT !.stage = "STOPPED"]

Advances(mine, new, theirs, owns) ==
    \/ Opens(mine, new, theirs, owns)
    \/ Accepts(mine, new, theirs, owns)
    \/ Agrees(mine, new)
    \/ Moves(mine, new, theirs)
    \/ Completes(mine, new)
    \/ Stops(mine, new)

\* One node acts, on one of its ends or, when it stops, on several.
Act(n) ==
    \A m \in Node \ {n} :
        /\ end'[m] = end[m]
        /\ \A t \in Transfer :
             \/ end'[n][t] = end[n][t]
             \/ Advances(end[n][t], end'[n][t], end[m][t], Owns(n, t))

Next == \E n \in Node : Act(n)

Spec == Init /\ [][Next]_end
=============================================================================
