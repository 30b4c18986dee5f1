----------------------------- MODULE ConMachine -----------------------------
(***************************************************************************)
(* One connection (struct sd_con_info) from CLOSED to ESTABLISHED          *)
(* (sd_net.c, sd_thread.c).  Each stage creates a thread that blocks in a  *)
(* lookup, a connect or an SSL handshake and reports through the shared    *)
(* field proc_state; the main loop looks at that field and moves on.       *)
(* Nothing is locked (the critical sections of sd_thread.c are commented   *)
(* out), and proc_state keeps the report of the previous stage until the   *)
(* next thread has begun.                                                  *)
(***************************************************************************)
EXTENDS Naturals

CONSTANT
    Prompt      \* a new thread begins before the main loop looks again

ASSUME SchedulingAssumption == Prompt \in BOOLEAN

\* The states in which the main loop waits for a thread, and their threads.
Stage == {"RESOLVE_SRC_IP", "RESOLVE_DST_IP", "CONNECTING", "SSL_VERIFY"}
ConState == Stage \cup {"CLOSED", "RESOLVED_SRC_IP", "ESTABLISHED", "DELETE",
                        "FREED"}

VARIABLES
    type,      \* CON_TYPE_CONTROL or CON_TYPE_DATA, never changes
    ssl,       \* enable_ssl, never changes
    offered,   \* the suggest dialog lists the peer
    opened,    \* whether the connection was opened, from here or by a peer
    state,     \* the state of the connection, FREED once it was removed
    proc,      \* proc_state
    looked,    \* the handler has seen proc_state # INCOMPLETE, reads it again
    worker,    \* the thread of each stage, and the stage it found to work on
    sock,      \* what sock_fd refers to
    secure,    \* whether a handshake has succeeded
    version,   \* VERSION commands sent
    aborted    \* the data transfer that owns the connection was aborted

conf == <<type, ssl>>
vars == <<conf, offered, opened, state, proc, looked, worker, sock, secure, version, aborted>>

Idle == [at |-> "NONE", job |-> "CLOSED"]
Alive == {"CREATED", "BEGUN", "BUSY"}

TypeOK ==
    /\ type \in {"CONTROL", "DATA"}
    /\ ssl \in BOOLEAN
    /\ offered \in BOOLEAN
    /\ opened \in BOOLEAN
    /\ state \in ConState \ (IF type = "CONTROL" THEN {"RESOLVE_SRC_IP", "RESOLVED_SRC_IP"}
                             ELSE {"DELETE", "FREED"})
    /\ proc \in {"INCOMPLETE", "COMPLETE", "ERROR"}
    /\ looked \in BOOLEAN
    /\ worker \in [Stage -> [at : Alive \cup {"NONE", "DONE", "FAILED"},
                             job : ConState]]
    /\ sock \in {"NONE", "BOUND", "CONNECTED", "SHUT"}
    /\ secure \in BOOLEAN
    /\ version \in Nat
    /\ aborted \in BOOLEAN

\* con_init on allocated, zeroed memory.
Init ==
    /\ type \in {"CONTROL", "DATA"}
    /\ ssl \in BOOLEAN
    /\ offered = FALSE
    /\ opened = FALSE
    /\ state = "CLOSED"
    /\ proc = "INCOMPLETE"
    /\ looked = FALSE
    /\ worker = [w \in Stage |-> Idle]
    /\ sock = "NONE"
    /\ secure = FALSE
    /\ version = 0
    /\ aborted = FALSE

-----------------------------------------------------------------------------
(* The main thread.                                                        *)

\* con_start_state_machine: the state is set, then the thread created.
Start(stage) ==
    /\ state' = stage
    /\ worker' = [worker EXCEPT ![stage].at = "CREATED"]

\* Mutant of Establish: VERSION is sent on data connections too.
EstablishAlike(fd) ==
    /\ version' = version + 1
    /\ sock' = fd
    /\ state' = "ESTABLISHED"
    /\ UNCHANGED worker

\* A control connection first sends VERSION.  If that fails ctl_con_close
\* closes the socket, and the state is ESTABLISHED all the same.
Establish(fd) ==
    /\ \/ type = "CONTROL" /\ version' = version + 1 /\ sock' = fd
       \/ type = "CONTROL" /\ version' = version /\ sock' = "SHUT"
       \/ type = "DATA" /\ version' = version /\ sock' = fd
    /\ state' = "ESTABLISHED"
    /\ UNCHANGED worker

\* The connect dialog, or a transfer that resolves its source address.
Open ==
    /\ ~opened
    /\ opened' = TRUE
    /\ Start(IF type = "CONTROL" THEN "RESOLVE_DST_IP" ELSE "RESOLVE_SRC_IP")
    /\ UNCHANGED <<conf, offered, proc, looked, sock, secure, version, aborted>>

\* server_handle_con has accepted the socket.
Accept ==
    /\ ~opened
    /\ opened' = TRUE
    /\ \/ ssl /\ Start("SSL_VERIFY") /\ sock' = "CONNECTED" /\ UNCHANGED version
       \/ ~ssl /\ Establish("CONNECTED")
    /\ UNCHANGED <<conf, offered, proc, looked, secure, aborted>>

\* Both ends of the transfer are prepared: connect the bound socket.
DataConnect ==
    /\ type = "DATA"
    /\ state = "RESOLVED_SRC_IP"
    /\ ~aborted
    /\ Start("RESOLVE_DST_IP")
    /\ UNCHANGED <<conf, offered, opened, proc, looked, sock, secure, version, aborted>>

\* Mutant of Look: does not wait for the thread.
LookAtOnce ==
    /\ ~looked
    /\ state \in Stage
    /\ proc # "ERROR"
    /\ looked' = TRUE
    /\ UNCHANGED <<conf, offered, opened, state, proc, worker, sock, secure, version, aborted>>

\* handle_con_state reads proc_state a first time.
Look ==
    /\ ~looked
    /\ state \in Stage
    /\ proc # "INCOMPLETE"
    /\ Prompt => \A w \in Stage : worker[w].at # "CREATED"
    /\ looked' = TRUE
    /\ UNCHANGED <<conf, offered, opened, state, proc, worker, sock, secure, version, aborted>>

\* con_bind_src_address reserves a port for the data connection.
Bind ==
    /\ \/ sock' = "BOUND" /\ state' = "RESOLVED_SRC_IP"
       \/ sock' = "NONE" /\ state' = "CLOSED"
    /\ UNCHANGED <<worker, version>>

\* Mutant of Advance: the handshake is skipped.
AdvanceInsecure ==
    /\ looked /\ proc = "COMPLETE"
    /\ looked' = FALSE
    /\ \/ state = "RESOLVE_SRC_IP" /\ Bind
       \/ /\ state = "RESOLVE_DST_IP" /\ Start("CONNECTING")
          /\ UNCHANGED <<sock, version>>
       \/ state \in {"CONNECTING", "SSL_VERIFY"} /\ Establish(sock)
    /\ UNCHANGED <<conf, offered, opened, proc, secure, aborted>>

\* It reads proc_state again: the stage is complete.
Advance ==
    /\ looked /\ proc = "COMPLETE"
    /\ looked' = FALSE
    /\ \/ state = "RESOLVE_SRC_IP" /\ Bind
       \/ /\ state = "RESOLVE_DST_IP" /\ Start("CONNECTING")
          /\ UNCHANGED <<sock, version>>
       \/ /\ state = "CONNECTING" /\ ssl /\ Start("SSL_VERIFY")
          /\ UNCHANGED <<sock, version>>
       \/ state = "CONNECTING" /\ ~ssl /\ Establish(sock)
       \/ state = "SSL_VERIFY" /\ Establish(sock)
    /\ UNCHANGED <<conf, offered, opened, proc, secure, aborted>>

\* Mutant of Failure: the type of the connection is not looked at.
FailureAlike ==
    [s \in Stage |-> IF s = "SSL_VERIFY" THEN "CLOSED" ELSE "DELETE"]

\* Where a failed stage leads.  A data connection that fails to resolve its
\* peer or to agree on SSL stays where it is.
Failure ==
    IF type = "CONTROL"
    THEN [s \in Stage |-> IF s \in {"RESOLVE_DST_IP", "CONNECTING"} THEN "DELETE"
                          ELSE IF s = "SSL_VERIFY" THEN "CLOSED" ELSE s]
    ELSE [s \in Stage |-> IF s \in {"RESOLVE_SRC_IP", "CONNECTING"} THEN "CLOSED"
                          ELSE s]

\* Mutant of CleanUp: a control connection waits for good, like a data one.
CleanUpNothing ==
    /\ looked /\ proc # "COMPLETE"
    /\ looked' = FALSE
    /\ UNCHANGED <<conf, offered, opened, state, proc, worker, sock, secure, version, aborted>>

\* It reads proc_state again: the stage has failed.
CleanUp ==
    /\ looked /\ proc # "COMPLETE"
    /\ looked' = FALSE
    /\ state' = Failure[state]
    /\ UNCHANGED <<conf, offered, opened, proc, worker, sock, secure, version, aborted>>

\* peer_rem_all_state_delete removes the peer and frees the connection.
Reap ==
    /\ ~looked
    /\ type = "CONTROL" /\ state = "DELETE"
    /\ state' = "FREED"
    /\ UNCHANGED <<conf, offered, opened, proc, looked, worker, sock, secure, version, aborted>>

\* The disconnect button, in any state but CLOSED, or the end of an
\* established connection.  SSL_shutdown of an unfinished session makes
\* socket_close return before it closes the descriptor.
Close ==
    /\ ~looked
    /\ opened
    /\ \/ type = "CONTROL" /\ state \notin {"CLOSED", "FREED"}
       \/ type = "DATA" /\ state = "ESTABLISHED"
    /\ state' = "CLOSED"
    /\ sock' \in {"SHUT"} \cup (IF ssl THEN {sock} ELSE {})
    /\ UNCHANGED <<conf, offered, opened, proc, looked, worker, secure, version, aborted>>

\* data_transfer_abort, which closes the socket in some states of the
\* transfer and never touches the state of its connection.
Abort ==
    /\ ~looked
    /\ type = "DATA" /\ opened /\ ~aborted
    /\ aborted' = TRUE
    /\ sock' \in IF state \in {"RESOLVED_SRC_IP", "ESTABLISHED"}
                 THEN {sock, "SHUT"} ELSE {sock}
    /\ UNCHANGED <<conf, offered, opened, state, proc, looked, worker, secure, version>>

\* Mutant of RefreshPeers: all peers are listed, as in the peers window.
RefreshAllPeers ==
    /\ ~looked
    /\ type = "CONTROL"
    /\ offered' = (opened /\ state # "FREED")
    /\ UNCHANGED <<conf, opened, state, proc, looked, worker, sock, secure, version, aborted>>

\* The suggest dialog is opened or refreshed (gtk_update_peers_combobox).  The
\* list is not updated otherwise, and keeps a pointer to the peer.
RefreshPeers ==
    /\ ~looked
    /\ type = "CONTROL"
    /\ offered' = (state = "ESTABLISHED")
    /\ UNCHANGED <<conf, opened, state, proc, looked, worker, sock, secure, version, aborted>>

-----------------------------------------------------------------------------
(* The thread of a stage (sd_mutex_con_func).                              *)

Begin(w) ==
    /\ worker[w].at = "CREATED"
    /\ worker' = [worker EXCEPT ![w].at = "BEGUN"]
    /\ proc' = "INCOMPLETE"
    /\ UNCHANGED <<conf, offered, opened, state, looked, sock, secure, version, aborted>>

\* handle_con_thread switches on the state it finds.
Enter(w) ==
    /\ worker[w].at = "BEGUN"
    /\ worker' = [worker EXCEPT ![w] = [at |-> "BUSY", job |-> state]]
    /\ UNCHANGED <<conf, offered, opened, state, proc, looked, sock, secure, version, aborted>>

Resolved ==
    \E w \in Stage : worker[w] = [at |-> "DONE", job |-> "RESOLVE_DST_IP"]

\* What the threads of the stages do, and what they need to succeed.  A
\* control connection connects a new socket, which a disconnect may have shut.
Lookup == UNCHANGED <<sock, secure>>
Connect ==
    /\ Resolved
    /\ type = "DATA" => sock = "BOUND"
    /\ \/ sock' = "CONNECTED"
       \/ state = "CLOSED" /\ sock' = "SHUT"
    /\ UNCHANGED secure
Handshake ==
    /\ sock = "CONNECTED"
    /\ secure' = TRUE
    /\ UNCHANGED sock

Succeed(job) ==
    \/ job = "CONNECTING" /\ Connect
    \/ job = "SSL_VERIFY" /\ Handshake
    \/ job \notin {"CONNECTING", "SSL_VERIFY"} /\ Lookup

\* Both connect and the handshake close the socket when they fail.
Fail(job) ==
    /\ job \in Stage
    /\ sock' = IF job \in {"CONNECTING", "SSL_VERIFY"} THEN "SHUT" ELSE sock
    /\ UNCHANGED secure

\* The thread reports and ends.
Finish(w) ==
    /\ worker[w].at = "BUSY"
    /\ \/ /\ Succeed(worker[w].job)
          /\ worker' = [worker EXCEPT ![w].at = "DONE"]
          /\ proc' = "COMPLETE"
       \/ /\ Fail(worker[w].job)
          /\ worker' = [worker EXCEPT ![w].at = "FAILED"]
          /\ proc' = "ERROR"
    /\ UNCHANGED <<conf, offered, opened, state, looked, version, aborted>>

-----------------------------------------------------------------------------
Handler == Look \/ Advance \/ CleanUp \/ Reap
Thread(w) == Begin(w) \/ Enter(w) \/ Finish(w)

Next ==
    \/ Open \/ Accept \/ DataConnect
    \/ Handler
    \/ Close \/ Abort \/ RefreshPeers
    \/ \E w \in Stage : Thread(w)

Spec == Init /\ [][Next]_vars

\* The calls that return by themselves: a lookup and a connect have the time
\* limits of the resolver and of the kernel.  A handshake blocks on a socket
\* without one, for as long as the peer likes.
Returns(w) == worker[w].job # "SSL_VERIFY" /\ Finish(w)

\* The main loop ticks for ever and threads run.
FairSpec ==
    /\ Spec
    /\ WF_vars(Handler)
    /\ \A w \in Stage : WF_vars(Begin(w) \/ Enter(w) \/ Returns(w))

-----------------------------------------------------------------------------
(* Properties.                                                             *)

\* A connection becomes ESTABLISHED only on a socket that is connected and,
\* when SSL is on, has been through its handshake (sd_net.h:85 calls the state
\* "connected"): no stage is skipped on the report of an earlier one.  The one
\* exception is a VERSION that could not be sent, which has shut the socket.
EstablishedIsConnected ==
    [][state # "ESTABLISHED" /\ state' = "ESTABLISHED" =>
          /\ sock' = "CONNECTED" \/ (type = "CONTROL" /\ version' = 0 /\ sock' = "SHUT")
          /\ ssl => secure']_vars

\* At most one thread uses a connection, the one the handler waits for,
\* unless the user has closed the connection meanwhile.  In particular none is
\* left behind on a connection that was removed and freed.
ThreadIsAwaited ==
    \A w \in Stage : worker[w].at \in Alive =>
        /\ state \in {w, "CLOSED"}
        /\ \A v \in Stage \ {w} : worker[v].at \notin Alive

\* A control connection sends VERSION at most once and never before the
\* handshake, an established one has sent it unless that shut its socket; a
\* data connection carries the bytes of a file only.
VersionOnce ==
    /\ version <= 1
    /\ version = 1 => type = "CONTROL" /\ (ssl => secure)
    /\ state = "ESTABLISHED" /\ type = "CONTROL" => version = 1 \/ sock = "SHUT"

\* A peer that the suggest dialog lists, however old the list is, has not been
\* freed and is not on its way to be connected: the button, which asks only
\* whether the peer is CLOSED, never sends FILE-SUGGEST before VERSION or into
\* an unfinished handshake.
OfferedIsUsable == offered => state \in {"ESTABLISHED", "CLOSED"}

\* A thread is inside SSL_accept or SSL_connect.
Handshaking == \E w \in Stage : worker[w] = [at |-> "BUSY", job |-> "SSL_VERIFY"]

\* A control connection that waits for a thread is established, closed or
\* removed in the end, whatever fails on the way, unless the handshake never
\* returns: no timeout ends it, and the connection waits as long as the peer
\* is silent and the user does not close it.
ControlSettles ==
    \/ type = "CONTROL" /\ state \in Stage ~> state \in {"ESTABLISHED", "CLOSED", "FREED"}
    \/ <>[]Handshaking
=============================================================================
