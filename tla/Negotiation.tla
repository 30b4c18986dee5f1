---------------------------- MODULE Negotiation ----------------------------
(***************************************************************************)
(* File-transfer negotiation between two running programs that share one   *)
(* control connection (sd_peers.c, sd_protocol_commands.c, sd_protocol.c). *)
(*                                                                         *)
(* Each endpoint keeps a table of data transfers: outgoing ones that it    *)
(* suggested and incoming ones that its peer suggested.  The two copies of *)
(* a transfer agree on a state only through FILE-SUGGEST, FILE-VERDICT and *)
(* FILE-PREPARED commands, sent over a FIFO control connection that either *)
(* side may close, and each program runs one thread: a tick of ui_idle or  *)
(* a user callback, never two of them at once.                             *)
(***************************************************************************)
EXTENDS Naturals, Sequences

CONSTANTS
    MaxId,        \* bound on the transfers suggested in one direction
    MaxBatch,     \* bound on the files suggested in one use of the dialog
    MaxFaults,    \* bound on spontaneous failures of sends, reads, threads
    Suggesters,   \* the endpoints whose user suggests files
    UserStops     \* whether users also decline, abort and disconnect

ASSUME BoundsAssumption ==
    /\ MaxId \in Nat \ {0}
    /\ MaxBatch \in Nat \ {0}
    /\ MaxFaults \in Nat
    /\ Suggesters \subseteq {"A", "B"}
    /\ UserStops \in BOOLEAN

Node == {"A", "B"}
Other(e) == IF e = "A" THEN "B" ELSE "A"

Id == 1 .. MaxId
Dir == {"OUT", "IN"}
Flip(d) == IF d = "OUT" THEN "IN" ELSE "OUT"

\* A transfer is found in a table by its direction and its id; the peer's
\* copy of it has the same id and the other direction.
Key == Dir \X Id
Mirror(k) == <<Flip(k[1]), k[2]>>

\* Names a transfer independently of the endpoint that looks at it.
Tid(e, k) == <<IF k[1] = "OUT" THEN e ELSE Other(e), k[2]>>

Method == {"ACTIVE", "PASSIVE"}
Opposite(m) == IF m = "ACTIVE" THEN "PASSIVE" ELSE "ACTIVE"

State == {"NONE", "SETUP_PENDING", "ACTIVE_RESOLVE_SRC_IP",
          "PASSIVE_RESOLVE_ACCEPT_IP", "VERDICT_PENDING",
          "PREPARATION_PENDING", "TRANSFERING", "COMPLETED", "ABORTED"}
Ended == {"COMPLETED", "ABORTED"}

Copy == [state    : State,
         verdict  : {"PENDING", "ACCEPTED", "DECLINED"},
         prepared : BOOLEAN,         \* peer_prepared
         meth     : Method,          \* con_meth
         local    : BOOLEAN,         \* using_local_address
         accept   : {"NONE", "RESOLVE_IP", "RESOLVED", "ERROR", "DELETE"},
         dcon     : {"CLOSED", "RESOLVE_SRC_IP", "RESOLVED_SRC_IP",
                     "CONNECTING", "ESTABLISHED"}]

Suggest(i, m)  == [cmd |-> "SUGGEST", id |-> i, meth |-> m]
Verdict(i, v)  == [cmd |-> "VERDICT", id |-> i, ver |-> v]
Prepared(d, i) == [cmd |-> "PREPARED", id |-> i, dir |-> d]

Message ==
    [cmd : {"SUGGEST"}, id : Id, meth : Method]
        \cup [cmd : {"VERDICT"}, id : Id, ver : {"ACCEPTED", "DECLINED"}]
        \cup [cmd : {"PREPARED"}, id : Id, dir : Dir]

VARIABLES
    ctl,      \* state of each endpoint's control connection
    xfer,     \* each endpoint's table of data transfers
    chan,     \* commands on their way to each endpoint, oldest first
    due,      \* how many of them this tick has read (ctl_cmd_backlog)
    todo,     \* the rest of a running loop of the suggest dialog
    dialled,  \* data connections made but not yet taken by their listener
    faults    \* spontaneous failures so far

vars == <<ctl, xfer, chan, due, todo, dialled, faults>>

NoLoop == [n |-> 0, meth |-> "PASSIVE", local |-> FALSE]
NoCopy == [state |-> "NONE", verdict |-> "PENDING", prepared |-> FALSE,
           meth |-> "PASSIVE", local |-> FALSE, accept |-> "NONE",
           dcon |-> "CLOSED"]

TypeOK ==
    /\ ctl \in [Node -> {"ESTABLISHED", "CLOSED"}]
    /\ xfer \in [Node -> [Key -> Copy]]
    /\ chan \in [Node -> Seq(Message)]
    /\ due \in [Node -> Nat]
    /\ \A e \in Node : due[e] <= Len(chan[e])
    /\ todo \in [Node -> [n : Nat, meth : Method, local : BOOLEAN]]
    /\ dialled \subseteq Node \X Id
    /\ faults \in Nat

Init ==
    /\ ctl = [e \in Node |-> "ESTABLISHED"]
    /\ xfer = [e \in Node |-> [k \in Key |-> NoCopy]]
    /\ chan = [e \in Node |-> <<>>]
    /\ due = [e \in Node |-> 0]
    /\ todo = [e \in Node |-> NoLoop]
    /\ dialled = {}
    /\ faults = 0

-----------------------------------------------------------------------------
(* Helpers on a table T of transfers.                                      *)

\* Mutant of Abort: the check for an ended transfer is dropped.
AbortAnything(c) ==
    IF c.state = "NONE" THEN c ELSE [c EXCEPT !.state = "ABORTED"]

\* data_transfer_abort: nothing happens to a transfer that has ended.
Abort(c) ==
    IF c.state \in Ended \cup {"NONE"} THEN c ELSE [c EXCEPT !.state = "ABORTED"]

\* Mutant of AbortUnest: only transfers whose connection was never begun.
AbortUnbegun(T) ==
    [k \in Key |-> IF T[k].dcon = "CLOSED" THEN Abort(T[k]) ELSE T[k]]

\* peer_set_closed: abort what has no established data connection.
AbortUnest(T) ==
    [k \in Key |-> IF T[k].dcon # "ESTABLISHED" THEN Abort(T[k]) ELSE T[k]]

\* get_next_transfer_id: one more than the highest id of that direction.
IsNextId(T, i) ==
    /\ \A j \in Id : T[<<"OUT", j>>].state # "NONE" => j < i
    /\ i = 1 \/ (i - 1 \in Id /\ T[<<"OUT", i - 1>>].state # "NONE")

\* Mutant of Idle: user callbacks and ticks run while commands are processed.
IdleBetweenCommands(e) == todo[e].n = 0

\* A program is between two callbacks: no loop and no backlog is unfinished.
Idle(e) == due[e] = 0 /\ todo[e].n = 0

\* A spontaneous failure is charged to the bound unless the peer's end of
\* the control connection is already closed.
MayFail(e) == ctl[Other(e)] = "CLOSED" \/ faults < MaxFaults
Charge(e) == faults' = IF ctl[Other(e)] = "CLOSED" THEN faults ELSE faults + 1

\* What is sent to a closed end is discarded by its kernel.
Deliver(c, e, msgs) ==
    [c EXCEPT ![Other(e)] = IF ctl[Other(e)] = "CLOSED" THEN @ ELSE @ \o msgs]

\* ctl_con_close between two callbacks.  What has not been read is lost.
CtlConClose(e) ==
    /\ ctl' = [ctl EXCEPT ![e] = "CLOSED"]
    /\ chan' = [chan EXCEPT ![e] = <<>>]
    /\ xfer' = [xfer EXCEPT ![e] = AbortUnest(@)]

(***************************************************************************)
(* send_protocol_command, once per message.  If all are sent the table     *)
(* becomes "ok".  A failed send closes the control connection              *)
(* (ctl_con_close, peer_set_closed); on a closed connection every later    *)
(* send fails as well, and the table becomes "failed".  c is the content   *)
(* of the channels the calling handler has left.                           *)
(***************************************************************************)
Send(e, c, msgs, ok, failed) ==
    \/ /\ ctl[e] = "ESTABLISHED"
       /\ chan' = Deliver(c, e, msgs)
       /\ xfer' = [xfer EXCEPT ![e] = ok]
       /\ UNCHANGED <<ctl, faults>>
    \/ /\ ctl[e] = "ESTABLISHED"
       /\ MayFail(e)
       /\ Charge(e)
       /\ \E n \in 0 .. Len(msgs) - 1 : chan' = Deliver(c, e, SubSeq(msgs, 1, n))
       /\ xfer' = [xfer EXCEPT ![e] = failed]
       /\ ctl' = [ctl EXCEPT ![e] = "CLOSED"]
    \/ /\ ctl[e] = "CLOSED"
       /\ chan' = c
       /\ xfer' = [xfer EXCEPT ![e] = failed]
       /\ UNCHANGED <<ctl, faults>>

\* Setting PREPARATION_PENDING sends FILE-PREPARED (data_transfer_set_state).
\* If that or the verdict sent with it fails, the transfer is aborted along
\* with the others that are not established.
Prepare(e, c, k, T, msgs) ==
    LET P == [T EXCEPT ![k].state = "PREPARATION_PENDING",
                       ![k].verdict = "ACCEPTED"]
    IN  Send(e, c, msgs, P, AbortUnest(P))

\* file_suggest_command_pack_and_send: VERDICT_PENDING whatever the send did.
SendSuggest(e, k, T) ==
    LET Await(U) == [U EXCEPT ![k].state = "VERDICT_PENDING"]
    IN  Send(e, chan, <<Suggest(k[2], T[k].meth)>>, Await(T), Await(AbortUnest(T)))

-----------------------------------------------------------------------------
(* The user of endpoint e.                                                 *)

\* The suggest button is pressed for n files; the connection is looked at
\* once, before the loop.  Only a passive method has a local-address setting.
UISuggest(e, n, m, l) ==
    /\ Idle(e)
    /\ e \in Suggesters
    /\ ctl[e] # "CLOSED"
    /\ m = "ACTIVE" => ~l
    /\ \E i \in Id : IsNextId(xfer[e], i) /\ i + n - 1 <= MaxId
    /\ todo' = [todo EXCEPT ![e] = [n |-> n, meth |-> m, local |-> l]]
    /\ UNCHANGED <<ctl, xfer, chan, due, dialled, faults>>

\* What is left of a loop after one pass.
Shorter(t) == IF t.n = 1 THEN NoLoop ELSE [t EXCEPT !.n = @ - 1]

\* One pass of that loop.  A passive transfer is suggested at once, an active
\* one starts by resolving its source address.
SuggestFile(e) ==
    /\ todo[e].n > 0
    /\ todo' = [todo EXCEPT ![e] = Shorter(@)]
    /\ \E i \in Id :
         LET k == <<"OUT", i>>
             New == [NoCopy EXCEPT !.state = "SETUP_PENDING",
                                   !.meth = todo[e].meth,
                                   !.local = todo[e].local]
         IN  /\ IsNextId(xfer[e], i)
             /\ \/ /\ todo[e].meth = "PASSIVE"
                   /\ SendSuggest(e, k, [xfer[e] EXCEPT ![k] = New])
                \/ /\ todo[e].meth = "ACTIVE"
                   /\ xfer' = [xfer EXCEPT ![e][k] =
                                 [New EXCEPT !.state = "ACTIVE_RESOLVE_SRC_IP",
                                             !.dcon = "RESOLVE_SRC_IP"]]
                   /\ UNCHANGED <<ctl, chan, faults>>
    /\ UNCHANGED <<due, dialled>>

\* Accepting a suggestion; l is the local-address setting of the dialog.
UIAccept(e, i, l) ==
    LET k == <<"IN", i>>
        c == xfer[e][k]
    IN  /\ Idle(e)
        /\ c.state = "SETUP_PENDING"
        /\ \/ /\ c.meth = "ACTIVE"
              /\ xfer' = [xfer EXCEPT ![e][k].state = "ACTIVE_RESOLVE_SRC_IP",
                                      ![e][k].dcon = "RESOLVE_SRC_IP"]
              /\ UNCHANGED <<ctl, chan, faults>>
           \/ /\ c.meth = "PASSIVE"
              /\ l
              /\ xfer' = [xfer EXCEPT ![e][k].state = "PASSIVE_RESOLVE_ACCEPT_IP",
                                      ![e][k].local = TRUE,
                                      ![e][k].accept = "RESOLVE_IP"]
              /\ UNCHANGED <<ctl, chan, faults>>
           \/ /\ c.meth = "PASSIVE"
              /\ ~l
              /\ Prepare(e, chan, k, xfer[e],
                         <<Prepared("IN", i), Verdict(i, "ACCEPTED")>>)
        /\ UNCHANGED <<due, todo, dialled>>

\* Declining sends the verdict and aborts the transfer either way.
UIDecline(e, i) ==
    LET k == <<"IN", i>>
        D == [xfer[e] EXCEPT ![k].state = "ABORTED", ![k].verdict = "DECLINED"]
    IN  /\ Idle(e)
        /\ UserStops
        /\ xfer[e][k].state = "SETUP_PENDING"
        /\ Send(e, chan, <<Verdict(i, "DECLINED")>>, D, AbortUnest(D))
        /\ UNCHANGED <<due, todo, dialled>>

\* The abort menu item.  The peer is not told.
UIAbort(e, k) ==
    /\ Idle(e)
    /\ UserStops
    /\ xfer[e][k].state \notin Ended \cup {"NONE"}
    /\ xfer' = [xfer EXCEPT ![e][k] = Abort(@)]
    /\ UNCHANGED <<ctl, chan, due, todo, dialled, faults>>

\* ctl_con_close from the disconnect button.
UIDisconnect(e) ==
    /\ Idle(e)
    /\ UserStops
    /\ ctl[e] # "CLOSED"
    /\ CtlConClose(e)
    /\ UNCHANGED <<due, todo, dialled, faults>>

-----------------------------------------------------------------------------
(* handle_data_transfer_state, one action per case that does something.    *)

\* Mutant of SourceResolved: the direction is not looked at.
SourceResolvedAlike(e, k) ==
    /\ Idle(e)
    /\ xfer[e][k].state = "ACTIVE_RESOLVE_SRC_IP"
    /\ xfer[e][k].dcon = "RESOLVED_SRC_IP"
    /\ Prepare(e, chan, k, xfer[e],
               <<Verdict(k[2], "ACCEPTED"), Prepared(k[1], k[2])>>)
    /\ UNCHANGED <<due, todo, dialled>>

SourceResolved(e, k) ==
    /\ Idle(e)
    /\ xfer[e][k].state = "ACTIVE_RESOLVE_SRC_IP"
    /\ xfer[e][k].dcon = "RESOLVED_SRC_IP"
    /\ \/ /\ k[1] = "IN"
          /\ Prepare(e, chan, k, xfer[e],
                     <<Verdict(k[2], "ACCEPTED"), Prepared("IN", k[2])>>)
       \/ /\ k[1] = "OUT"
          /\ SendSuggest(e, k, xfer[e])
    /\ UNCHANGED <<due, todo, dialled>>

SourceFailed(e, k) ==
    /\ Idle(e)
    /\ xfer[e][k].state = "ACTIVE_RESOLVE_SRC_IP"
    /\ xfer[e][k].dcon = "CLOSED"
    /\ xfer' = [xfer EXCEPT ![e][k] = Abort(@)]
    /\ UNCHANGED <<ctl, chan, due, todo, dialled, faults>>

\* Mutant of AcceptResolved: does not wait for the entry to be resolved.
AcceptBegun(e, k) ==
    /\ Idle(e)
    /\ xfer[e][k].state = "PASSIVE_RESOLVE_ACCEPT_IP"
    /\ xfer[e][k].accept \in {"RESOLVE_IP", "RESOLVED"}
    /\ Prepare(e, chan, k, xfer[e],
               IF k[1] = "OUT" THEN <<Prepared("OUT", k[2])>>
               ELSE <<Verdict(k[2], "ACCEPTED"), Prepared("IN", k[2])>>)
    /\ UNCHANGED <<due, todo, dialled>>

AcceptResolved(e, k) ==
    /\ Idle(e)
    /\ xfer[e][k].state = "PASSIVE_RESOLVE_ACCEPT_IP"
    /\ xfer[e][k].accept = "RESOLVED"
    /\ \/ /\ k[1] = "IN"
          /\ Prepare(e, chan, k, xfer[e],
                     <<Verdict(k[2], "ACCEPTED"), Prepared("IN", k[2])>>)
       \/ /\ k[1] = "OUT"
          /\ Prepare(e, chan, k, xfer[e], <<Prepared("OUT", k[2])>>)
    /\ UNCHANGED <<due, todo, dialled>>

AcceptFailed(e, k) ==
    /\ Idle(e)
    /\ xfer[e][k].state = "PASSIVE_RESOLVE_ACCEPT_IP"
    /\ xfer[e][k].accept = "ERROR"
    /\ xfer' = [xfer EXCEPT ![e][k] = [Abort(@) EXCEPT !.accept = "DELETE"]]
    /\ UNCHANGED <<ctl, chan, due, todo, dialled, faults>>

\* Mutant of StartTransfer: starts without looking at peer_prepared.
StartUnprepared(e, k) ==
    /\ Idle(e)
    /\ xfer[e][k].state = "PREPARATION_PENDING"
    /\ xfer' = [xfer EXCEPT ![e][k].state = "TRANSFERING",
                            ![e][k].dcon = IF xfer[e][k].meth = "ACTIVE"
                                           THEN "CONNECTING" ELSE @]
    /\ UNCHANGED <<ctl, chan, due, todo, dialled, faults>>

\* Both sides are prepared: the active one starts to connect.
StartTransfer(e, k) ==
    /\ Idle(e)
    /\ xfer[e][k].state = "PREPARATION_PENDING"
    /\ xfer[e][k].prepared
    /\ xfer' = [xfer EXCEPT ![e][k].state = "TRANSFERING",
                            ![e][k].dcon = IF xfer[e][k].meth = "ACTIVE"
                                           THEN "CONNECTING" ELSE @]
    /\ UNCHANGED <<ctl, chan, due, todo, dialled, faults>>

\* The byte stream ends: all bytes are through (data_transfer_set_completed),
\* the connection fails (data_con_close), or the file cannot be opened, which
\* aborts the transfer without changing the state of the connection.
EndTransfer(e, k) ==
    /\ Idle(e)
    /\ xfer[e][k].state = "TRANSFERING"
    /\ xfer[e][k].dcon = "ESTABLISHED"
    /\ \E s \in Ended, d \in {"CLOSED", "ESTABLISHED"} :
         /\ s = "COMPLETED" => d = "CLOSED"
         /\ xfer' = [xfer EXCEPT ![e][k].state = s, ![e][k].dcon = d]
    /\ UNCHANGED <<ctl, chan, due, todo, dialled, faults>>

-----------------------------------------------------------------------------
(* handle_con_state, handle_server_accept_state and server_handle_con, as  *)
(* far as the negotiation depends on them.                                 *)

ConResolveSource(e, k) ==
    /\ Idle(e)
    /\ xfer[e][k].dcon = "RESOLVE_SRC_IP"
    /\ \/ /\ xfer' = [xfer EXCEPT ![e][k].dcon = "RESOLVED_SRC_IP"]
          /\ UNCHANGED faults
       \/ /\ faults < MaxFaults
          /\ faults' = faults + 1
          /\ xfer' = [xfer EXCEPT ![e][k].dcon = "CLOSED"]
    /\ UNCHANGED <<ctl, chan, due, todo, dialled>>

\* The connection of an active transfer, from RESOLVE_DST_IP to ESTABLISHED.
\* A completion left over from an earlier thread is taken for its own, so
\* ESTABLISHED does not imply that the listener has seen a connection.
ConConnect(e, k) ==
    /\ Idle(e)
    /\ xfer[e][k].dcon = "CONNECTING"
    /\ \/ /\ xfer' = [xfer EXCEPT ![e][k].dcon = "ESTABLISHED"]
          /\ dialled' \in {dialled, dialled \cup {Tid(e, k)}}
          /\ UNCHANGED faults
       \/ /\ faults < MaxFaults
          /\ faults' = faults + 1
          /\ xfer' = [xfer EXCEPT ![e][k].dcon = "CLOSED"]
          /\ UNCHANGED dialled
    /\ UNCHANGED <<ctl, chan, due, todo>>

AcceptResolve(e, k) ==
    /\ Idle(e)
    /\ xfer[e][k].accept = "RESOLVE_IP"
    /\ \/ /\ xfer' = [xfer EXCEPT ![e][k].accept = "RESOLVED"]
          /\ UNCHANGED faults
       \/ /\ faults < MaxFaults
          /\ faults' = faults + 1
          /\ xfer' = [xfer EXCEPT ![e][k].accept = "ERROR"]
    /\ UNCHANGED <<ctl, chan, due, todo, dialled>>

\* The listener takes the peer's connection if an entry admits it and closes
\* it otherwise.
ServerHandleCon(e, k) ==
    /\ Idle(e)
    /\ xfer[e][k].meth = "PASSIVE"
    /\ Tid(e, k) \in dialled
    /\ dialled' = dialled \ {Tid(e, k)}
    /\ xfer' = IF xfer[e][k].accept = "RESOLVED"
               THEN [xfer EXCEPT ![e][k].accept = "DELETE",
                                 ![e][k].dcon = "ESTABLISHED"]
               ELSE xfer
    /\ UNCHANGED <<ctl, chan, due, todo, faults>>

-----------------------------------------------------------------------------
(* The control connection.                                                 *)

\* handle_ctl_recv reads some of the commands that have arrived; all of them
\* are processed before the thread does anything else.
CtlRecv(e) ==
    /\ Idle(e)
    /\ ctl[e] = "ESTABLISHED"
    /\ \E n \in 1 .. Len(chan[e]) : due' = [due EXCEPT ![e] = n]
    /\ UNCHANGED <<ctl, xfer, chan, todo, dialled, faults>>

\* The read returns end of file or an error.  A reset may overtake commands.
CtlRecvClosed(e) ==
    /\ Idle(e)
    /\ ctl[e] = "ESTABLISHED"
    /\ MayFail(e)
    /\ Charge(e)
    /\ CtlConClose(e)
    /\ UNCHANGED <<due, todo, dialled>>

\* Takes the oldest read command off the backlog.
Take(e, cmd) ==
    /\ due[e] > 0
    /\ Head(chan[e]).cmd = cmd
    /\ due' = [due EXCEPT ![e] = @ - 1]
Rest(e) == [chan EXCEPT ![e] = Tail(@)]

ProcessSuggest(e) ==
    LET m == Head(chan[e])
        k == <<"IN", m.id>>
    IN  /\ Take(e, "SUGGEST")
        /\ chan' = Rest(e)
        /\ xfer' = IF xfer[e][k].state # "NONE" THEN xfer
                   ELSE [xfer EXCEPT ![e][k] =
                           [NoCopy EXCEPT !.state = "SETUP_PENDING",
                                          !.meth = Opposite(m.meth)]]
        /\ UNCHANGED <<ctl, todo, dialled, faults>>

\* Mutant of ProcessVerdict: the verdict's value is not looked at.
ProcessAnyVerdict(e) ==
    LET m == Head(chan[e])
        k == <<"OUT", m.id>>
        c == xfer[e][k]
    IN  /\ Take(e, "VERDICT")
        /\ \/ /\ c.state # "VERDICT_PENDING"
              /\ chan' = Rest(e)
              /\ UNCHANGED <<ctl, xfer, faults>>
           \/ /\ c.state = "VERDICT_PENDING"
              /\ Prepare(e, Rest(e), k, xfer[e], <<Prepared("OUT", m.id)>>)
        /\ UNCHANGED <<todo, dialled>>

\* A verdict counts only for a transfer that waits for one.
ProcessVerdict(e) ==
    LET m == Head(chan[e])
        k == <<"OUT", m.id>>
        c == xfer[e][k]
    IN  /\ Take(e, "VERDICT")
        /\ \/ /\ c.state # "VERDICT_PENDING"
              /\ chan' = Rest(e)
              /\ UNCHANGED <<ctl, xfer, faults>>
           \/ /\ c.state = "VERDICT_PENDING"
              /\ m.ver = "DECLINED"
              /\ chan' = Rest(e)
              /\ xfer' = [xfer EXCEPT ![e][k] =
                            [Abort(@) EXCEPT !.verdict = "DECLINED"]]
              /\ UNCHANGED <<ctl, faults>>
           \/ /\ c.state = "VERDICT_PENDING"
              /\ m.ver = "ACCEPTED"
              /\ c.meth = "PASSIVE" /\ c.local
              /\ chan' = Rest(e)
              /\ xfer' = [xfer EXCEPT ![e][k].state = "PASSIVE_RESOLVE_ACCEPT_IP",
                                      ![e][k].verdict = "ACCEPTED",
                                      ![e][k].accept = "RESOLVE_IP"]
              /\ UNCHANGED <<ctl, faults>>
           \/ /\ c.state = "VERDICT_PENDING"
              /\ m.ver = "ACCEPTED"
              /\ c.meth = "ACTIVE" \/ ~c.local
              /\ Prepare(e, Rest(e), k, xfer[e], <<Prepared("OUT", m.id)>>)
        /\ UNCHANGED <<todo, dialled>>

\* Mutant of ProcessPrepared: the direction is not flipped.
ProcessPreparedUnflipped(e) ==
    LET m == Head(chan[e])
        k == <<m.dir, m.id>>
    IN  /\ Take(e, "PREPARED")
        /\ chan' = Rest(e)
        /\ xfer' = IF xfer[e][k].state = "NONE" THEN xfer
                   ELSE [xfer EXCEPT ![e][k].prepared = TRUE]
        /\ UNCHANGED <<ctl, todo, dialled, faults>>

\* Mutant of ProcessPrepared: heeded only while the receiver waits for it.
ProcessPreparedInTurn(e) ==
    LET m == Head(chan[e])
        k == <<Flip(m.dir), m.id>>
    IN  /\ Take(e, "PREPARED")
        /\ chan' = Rest(e)
        /\ xfer' = IF xfer[e][k].state # "PREPARATION_PENDING" THEN xfer
                   ELSE [xfer EXCEPT ![e][k].prepared = TRUE]
        /\ UNCHANGED <<ctl, todo, dialled, faults>>

\* FILE-PREPARED names the sender's direction; it only raises a flag.
ProcessPrepared(e) ==
    LET m == Head(chan[e])
        k == <<Flip(m.dir), m.id>>
    IN  /\ Take(e, "PREPARED")
        /\ chan' = Rest(e)
        /\ xfer' = IF xfer[e][k].state = "NONE" THEN xfer
                   ELSE [xfer EXCEPT ![e][k].prepared = TRUE]
        /\ UNCHANGED <<ctl, todo, dialled, faults>>

-----------------------------------------------------------------------------
User(e) ==
    \/ \E n \in 1 .. MaxBatch, m \in Method, l \in BOOLEAN : UISuggest(e, n, m, l)
    \/ \E i \in Id, l \in BOOLEAN : UIAccept(e, i, l)
    \/ \E i \in Id : UIDecline(e, i)
    \/ \E k \in Key : UIAbort(e, k)
    \/ UIDisconnect(e)

Transfer(e, k) ==
    \/ SourceResolved(e, k) \/ SourceFailed(e, k)
    \/ AcceptResolved(e, k) \/ AcceptFailed(e, k)
    \/ StartTransfer(e, k) \/ EndTransfer(e, k)

Connection(e, k) ==
    \/ ConResolveSource(e, k) \/ ConConnect(e, k)
    \/ AcceptResolve(e, k) \/ ServerHandleCon(e, k)

Command(e) == ProcessSuggest(e) \/ ProcessVerdict(e) \/ ProcessPrepared(e)

Next ==
    \E e \in Node :
        \/ User(e)
        \/ SuggestFile(e)
        \/ \E k \in Key : Transfer(e, k) \/ Connection(e, k)
        \/ CtlRecv(e) \/ CtlRecvClosed(e)
        \/ Command(e)

Spec == Init /\ [][Next]_vars

\* The main loop runs every 15 ms and threads return: whatever the program
\* itself can do it does.  Nothing is assumed of the users.
FairSpec ==
    /\ Spec
    /\ \A e \in Node :
         /\ WF_vars(SuggestFile(e))
         /\ WF_vars(CtlRecv(e))
         /\ WF_vars(Command(e))
         /\ \A k \in Key :
              /\ WF_vars(ConResolveSource(e, k))
              /\ WF_vars(AcceptResolve(e, k))
              /\ WF_vars(SourceResolved(e, k))
              /\ WF_vars(AcceptResolved(e, k))
              /\ WF_vars(StartTransfer(e, k))

-----------------------------------------------------------------------------
(* Properties.                                                             *)

Copies(e, k) == [mine |-> xfer[e][k], theirs |-> xfer[Other(e)][Mirror(k)]]

\* States a copy reaches only by having sent FILE-PREPARED, or by aborting.
Agreed == {"PREPARATION_PENDING", "TRANSFERING", "COMPLETED"}

\* The command m is on its way to e, read by it or not.
InFlight(m, e) == \E j \in 1 .. Len(chan[e]) : chan[e][j] = m

\* No transfer is prepared, moved or completed at either end unless the user
\* at the receiving end accepted it: the verdict travels while connections
\* close, sends fail and transfers of both directions share one id space.
Consent ==
    \A e \in Node, i \in Id :
        xfer[e][<<"OUT", i>>].state \in Agreed =>
            xfer[Other(e)][<<"IN", i>>].verdict = "ACCEPTED"

\* An end moves data only after its peer's copy was itself prepared.
BothPrepared ==
    \A e \in Node, k \in Key :
        LET c == Copies(e, k) IN
        c.mine.state \in {"TRANSFERING", "COMPLETED"} =>
            c.theirs.state \in Agreed \cup {"ABORTED"}

\* The point of FILE-PREPARED: the active end dials only when its peer takes
\* the passive role for this transfer and, if the peer listens itself, holds
\* an accept entry that has been resolved.
ListenerReady ==
    \A e \in Node, k \in Key :
        LET c == Copies(e, k) IN
        c.mine.meth = "ACTIVE" /\ c.mine.dcon \in {"CONNECTING", "ESTABLISHED"} =>
            /\ c.theirs.meth = "PASSIVE"
            /\ c.theirs.local => c.theirs.accept \in {"RESOLVED", "DELETE"}

\* Every command finds its receiver in the state the sender counts on.  The
\* "unexpected command" branches of the process callbacks are taken only
\* because of an abort: a suggestion is for an unused id, a verdict for a
\* transfer that waits for it, a prepared message for a transfer that exists
\* and has not been told so before.
ExpectedCommands ==
    \A e \in Node, i \in Id :
        /\ \A m \in Method : InFlight(Suggest(i, m), e) =>
              xfer[e][<<"IN", i>>].state = "NONE"
        /\ \A v \in {"ACCEPTED", "DECLINED"} : InFlight(Verdict(i, v), e) =>
              xfer[e][<<"OUT", i>>].state \in {"VERDICT_PENDING", "ABORTED"}
        /\ \A d \in Dir : InFlight(Prepared(d, i), e) =>
              LET c == xfer[e][<<Flip(d), i>>]
              IN  c.state # "NONE" /\ ~c.prepared

\* Once the control connection is closed no transfer is prepared or started
\* any more: what is still in these states owns an established data
\* connection, which peer_set_closed spares.
ClosedPeerStartsNothing ==
    \A e \in Node, k \in Key :
        ctl[e] = "CLOSED" /\ xfer[e][k].state \in {"PREPARATION_PENDING", "TRANSFERING"}
            => xfer[e][k].dcon = "ESTABLISHED"

\* A verdict is given once, and an end of a transfer is for good: neither the
\* aborts that run through the whole table when a connection closes nor a
\* late command revises them.
Final ==
    [][\A e \in Node, k \in Key :
          /\ xfer[e][k].verdict # "PENDING" =>
                xfer'[e][k].verdict = xfer[e][k].verdict
          /\ xfer[e][k].state \in Ended =>
                xfer'[e][k].state = xfer[e][k].state]_vars

\* How far a copy in each state is, seen from outside.
Stage ==
    [s \in State |->
       IF s = "NONE" THEN "UNKNOWN"
       ELSE IF s = "PREPARATION_PENDING" THEN "AGREED"
       ELSE IF s = "TRANSFERING" THEN "MOVING"
       ELSE IF s = "COMPLETED" THEN "DONE"
       ELSE IF s = "ABORTED" THEN "STOPPED"
       ELSE "OPEN"]

\* The table entry with which endpoint e takes part in transfer t.
EntryOf(e, t) == xfer[e][<<IF t[1] = e THEN "OUT" ELSE "IN", t[2]>>]

\* What the contract sees of a copy, and of all copies.
View(c) == [stage |-> Stage[c.state], accepted |-> c.verdict = "ACCEPTED"]
Ends == [e \in Node |-> [t \in Node \X Id |-> View(EntryOf(e, t))]]

Contract == INSTANCE TransferContract WITH end <- Ends

\* Every callback and handler keeps the contract of a transfer: whatever fails in
\* it, and however many transfers a closing connection takes along, each end goes
\* through its stages in order, none is left out or repeated, and none is entered
\* before the peer has done its part.
KeepsContract == Contract!Spec

\* sd_peers.h:135 says of peer_set_closed "Close connection and abort all
\* unestablished transfers": the callback or handler that closes the control
\* connection leaves no unestablished transfer alive.
ClosingAbortsUnestablished ==
    [][\A e \in Node, k \in Key :
          /\ ctl[e] = "ESTABLISHED" /\ ctl'[e] = "CLOSED"
          /\ xfer'[e][k].dcon # "ESTABLISHED"
          => xfer'[e][k].state \in Ended \cup {"NONE"}]_vars

\* Without failures, aborts and disconnects a transfer that the user accepts
\* gets both ends to move data, whatever the method and however the commands
\* of other transfers interleave.
AcceptedStarts ==
    \A e \in Node, i \in Id :
        xfer[e][<<"IN", i>>].state \in {"ACTIVE_RESOLVE_SRC_IP",
                                        "PASSIVE_RESOLVE_ACCEPT_IP",
                                        "PREPARATION_PENDING"}
            ~> /\ xfer[e][<<"IN", i>>].state \in {"TRANSFERING"} \cup Ended
               /\ xfer[Other(e)][<<"OUT", i>>].state \in {"TRANSFERING"} \cup Ended
=============================================================================
