---------------------------- MODULE ServerAccept ----------------------------
(***************************************************************************)
(* A data server and the passive transfers that wait on it (sd_net.c,      *)
(* data_transfer_setup_passive_accept).  Each such transfer adds an accept *)
(* entry that names the address its peer will connect from; the server     *)
(* gives an arriving connection to the first entry that admits it.  All    *)
(* peers are programs on one other host: they bind the first free port for *)
(* each transfer and dial once the listener is prepared.                   *)
(*                                                                         *)
(* The listener's tick is modelled phase by phase, in the order of ui_idle,*)
(* because the entries are only safe to use in that order.  The server is  *)
(* one that has started: its users stop and restart it, and a restart that *)
(* fails removes it together with its entries.                             *)
(***************************************************************************)
EXTENDS Naturals, Sequences, FiniteSets, SequencesExt, FiniteSetsExt, LinkedList

CONSTANTS
    Transfer,   \* the passive transfers of this server
    AnyPort,    \* the sets of transfers that may allow any port
    Stranger,   \* the address of another host
    Mishap,     \* what may go wrong, of the names in the assumption
    MaxStops    \* bound on how often the server is stopped

ASSUME TransferAssumption ==
    /\ IsFiniteSet(Transfer)
    /\ AnyPort \subseteq SUBSET Transfer
    /\ Stranger \notin Nat
    /\ Mishap \subseteq {"ABORT_PASSIVE", "ABORT_ACTIVE", "LOOKUP_FAILS", "STRANGER"}
    /\ MaxStops \in {0, 1}   \* so that at most one thread restarts the server

Port == 1 .. Cardinality(Transfer)
None == [from |-> 0, for |-> Stranger]
Connection == [from : Port, for : Transfer] \cup {[from |-> Stranger, for |-> Stranger]}

VARIABLES
    anyPort,  \* the transfers that allow any port, never changes
    phase,    \* the next part of the tick
    server,   \* state of the server, FREED once it was removed
    starter,  \* the thread that restarts it
    outcome,  \* proc_state of the server
    stops,    \* how often it was stopped
    accept_addresses,  \* the list of the transfers that have an accept entry
    entry,    \* state of each entry
    report,   \* proc_state of the thread of each entry
    lst,      \* state of each transfer at the listener
    con,      \* the connection given to it
    act,      \* state of each transfer at its active end
    port,     \* the port bound there
    backlog   \* connections that wait to be accepted

serverVars == <<server, starter, outcome, stops>>
vars == <<anyPort, phase, serverVars, accept_addresses, entry, report, lst, con, act, port,
          backlog>>

\* The transfers with an entry, in the order of the list.
entries == Values(accept_addresses)

TypeOK ==
    /\ anyPort \in AnyPort
    /\ phase \in {"SERVERS", "ACCEPTS", "TRANSFERS", "USER"}
    /\ server \in {"LISTENING", "CLOSED", "RESOLVE_IP", "DELETE", "FREED"}
    /\ starter \in {"NONE", "CREATED", "BUSY"}
    /\ outcome \in {"INCOMPLETE", "COMPLETE", "ERROR"}
    /\ stops \in 0 .. MaxStops
    /\ entries \in Seq(Transfer)
    /\ entry \in [Transfer -> {"NONE", "RESOLVE_IP", "RESOLVED", "ERROR", "DELETE"}]
    /\ report \in [Transfer -> {"INCOMPLETE", "COMPLETE", "ERROR"}]
    /\ lst \in [Transfer -> {"SETUP", "RESOLVE_ACCEPT", "READY", "ABORTED"}]
    /\ con \in [Transfer -> Connection \cup {None}]
    /\ act \in [Transfer -> {"UNBOUND", "BOUND", "DIALLED", "ABORTED"}]
    /\ port \in [Transfer -> Port \cup {0}]
    /\ backlog \in Seq(Connection)

Init ==
    /\ anyPort \in AnyPort
    /\ phase = "USER"
    /\ server = "LISTENING"
    /\ starter = "NONE"
    /\ outcome = "COMPLETE"
    /\ stops = 0
    /\ accept_addresses = EmptyList
    /\ entry = [t \in Transfer |-> "NONE"]
    /\ report = [t \in Transfer |-> "INCOMPLETE"]
    /\ lst = [t \in Transfer |-> "SETUP"]
    /\ con = [t \in Transfer |-> None]
    /\ act = [t \in Transfer |-> "UNBOUND"]
    /\ port = [t \in Transfer |-> 0]
    /\ backlog = <<>>

peers == <<act, port>>

-----------------------------------------------------------------------------
(* The listener's tick.                                                    *)

\* Mutant of Collect: the entries are freed but stay in the list.
CollectAndKeep ==
    /\ phase = "USER"
    /\ phase' = "SERVERS"
    /\ entry' = [t \in Transfer |-> IF entry[t] = "DELETE" THEN "NONE" ELSE entry[t]]
    /\ UNCHANGED <<anyPort, serverVars, accept_addresses, report, lst, con, peers, backlog>>

\* The users have done what they do between two ticks and the next one begins
\* with the garbage collection: server_accept_rem_all_state_delete_iter removes
\* entries, server_rem_all_state_delete then a server that failed to restart
\* with all that are left.
Collect ==
    /\ phase = "USER"
    /\ phase' = "SERVERS"
    /\ IF server = "DELETE"
       THEN /\ server' = "FREED"
            /\ accept_addresses' = EmptyList
            /\ entry' = [t \in Transfer |-> "NONE"]
       ELSE /\ accept_addresses' =
                   RemAll(accept_addresses, {t \in Transfer : entry[t] = "DELETE"})
            /\ entry' = [t \in Transfer |-> IF entry[t] = "DELETE" THEN "NONE" ELSE entry[t]]
            /\ UNCHANGED server
    /\ UNCHANGED <<anyPort, starter, outcome, stops, report, lst, con, peers, backlog>>

\* Mutant of Admits: entries whose address is not known yet count too.
AdmitsUnresolved(t, c) ==
    \/ c.from = port[t]
    \/ t \in anyPort /\ c.from # Stranger

\* Mutant of Admits: the port is never compared.
AdmitsHost(t, c) == entry[t] = "RESOLVED" /\ c.from # Stranger

\* Mutant of Admits: only the first entry of the list is looked at.
AdmitsFirst(t, c) ==
    /\ t = Head(entries)
    /\ entry[t] = "RESOLVED"
    /\ c.from = port[t] \/ (t \in anyPort /\ c.from # Stranger)

\* validate_accept_peers
Admits(t, c) ==
    /\ entry[t] = "RESOLVED"
    /\ \/ c.from = port[t]
       \/ t \in anyPort /\ c.from # Stranger

\* Mutant of Take: the entry stays and admits the next connection as well.
TakeAgain(t, c) ==
    /\ con' = [con EXCEPT ![t] = c]
    /\ UNCHANGED entry

\* The entry has served and its transfer has got a connection.
Take(t, c) ==
    /\ con' = [con EXCEPT ![t] = c]
    /\ entry' = [entry EXCEPT ![t] = "DELETE"]

\* server_handle_con takes one connection per tick.  The first entry that
\* admits it gets it; without one it is closed.
HandleCon ==
    /\ server = "LISTENING"
    /\ backlog # <<>>
    /\ LET c == Head(backlog)
           li == Iterate(accept_addresses, {t \in Transfer : Admits(t, c)})
       IN  \/ li # NULL /\ Take(accept_addresses.cell[li].value, c)
           \/ li = NULL /\ UNCHANGED <<con, entry>>
    /\ backlog' = Tail(backlog)
    /\ UNCHANGED server

\* What comes of server_bind, which tries the addresses one after the other.
ServerBind == {"LISTENING", "DELETE"}

\* handle_server_state after a restart.  If the thread has not begun yet,
\* outcome still says COMPLETE for the first start and the addresses that were
\* freed then are bound: anything may come of that.
Restarted ==
    /\ server = "RESOLVE_IP"
    /\ outcome # "INCOMPLETE"
    /\ server' \in IF outcome = "COMPLETE" THEN ServerBind ELSE {"DELETE"}
    /\ UNCHANGED <<con, entry, backlog>>

Servers ==
    /\ phase = "SERVERS"
    /\ phase' = "ACCEPTS"
    /\ \/ HandleCon
       \/ Restarted
       \/ /\ server = "LISTENING" => backlog = <<>>
          /\ server = "RESOLVE_IP" => outcome = "INCOMPLETE"
          /\ UNCHANGED <<server, con, entry, backlog>>
    /\ UNCHANGED <<anyPort, starter, outcome, stops, accept_addresses, report, lst, peers>>

\* handle_server_accept_state for every entry.
Accepts ==
    /\ phase = "ACCEPTS"
    /\ phase' = "TRANSFERS"
    /\ entry' = [t \in Transfer |->
                   IF entry[t] # "RESOLVE_IP" \/ report[t] = "INCOMPLETE" THEN entry[t]
                   ELSE IF report[t] = "COMPLETE" THEN "RESOLVED" ELSE "ERROR"]
    /\ UNCHANGED <<anyPort, serverVars, accept_addresses, report, lst, con, peers, backlog>>

\* handle_data_transfer_state for every transfer that waits for its entry.  If
\* the entry went with its server, the state read is anything.
Transfers ==
    /\ phase = "TRANSFERS"
    /\ phase' = "USER"
    /\ \E seen \in [Transfer -> {"RESOLVE_IP", "RESOLVED", "ERROR"}] :
         LET Waits(t, s) == lst[t] = "RESOLVE_ACCEPT" /\ seen[t] = s IN
         /\ \A t \in Transfer :
              IF lst[t] # "RESOLVE_ACCEPT" THEN seen[t] = "RESOLVE_IP"
              ELSE server # "FREED" => seen[t] = entry[t]
         /\ entry' = [t \in Transfer |->
                        IF Waits(t, "ERROR") /\ server # "FREED" THEN "DELETE" ELSE entry[t]]
         /\ lst' = [t \in Transfer |->
                      IF Waits(t, "ERROR") THEN "ABORTED"
                      ELSE IF Waits(t, "RESOLVED") THEN "READY" ELSE lst[t]]
    /\ UNCHANGED <<anyPort, serverVars, accept_addresses, report, con, peers, backlog>>

\* The thread of an entry looks the address up.
ResolveAccept(t) ==
    /\ entry[t] = "RESOLVE_IP"
    /\ report[t] = "INCOMPLETE"
    /\ \E r \in {"COMPLETE"} \cup (IF "LOOKUP_FAILS" \in Mishap THEN {"ERROR"} ELSE {}) :
         report' = [report EXCEPT ![t] = r]
    /\ UNCHANGED <<anyPort, phase, serverVars, accept_addresses, entry, lst, con, peers, backlog>>

\* The thread that restarts the server: sd_mutex_server_func.  One whose server
\* has been removed meanwhile writes to freed memory.
BeginRestart ==
    /\ starter = "CREATED" /\ server # "FREED"
    /\ starter' = "BUSY"
    /\ outcome' = "INCOMPLETE"
    /\ UNCHANGED <<anyPort, phase, server, stops, accept_addresses, entry, report, lst, con,
                   peers, backlog>>

FinishRestart ==
    /\ starter = "BUSY" /\ server # "FREED"
    /\ starter' = "NONE"
    /\ outcome' \in {"COMPLETE", "ERROR"}
    /\ UNCHANGED <<anyPort, phase, server, stops, accept_addresses, entry, report, lst, con,
                   peers, backlog>>

-----------------------------------------------------------------------------
(* The listener's users.                                                   *)

\* The listener agreed to the transfer and knows the address its peer is
\* bound to: data_transfer_setup_passive_accept, server_accept_init.
SetupAccept(t) ==
    /\ phase = "USER"
    /\ lst[t] = "SETUP"
    /\ server # "FREED"   \* the transfer has a pointer to it, here too
    /\ port[t] # 0
    /\ lst' = [lst EXCEPT ![t] = "RESOLVE_ACCEPT"]
    /\ accept_addresses' = Add(accept_addresses, t)
    /\ entry' = [entry EXCEPT ![t] = "RESOLVE_IP"]
    /\ UNCHANGED <<anyPort, phase, serverVars, report, con, peers, backlog>>

\* data_transfer_abort leaves the entry in the list.
AbortPassive(t) ==
    /\ phase = "USER"
    /\ "ABORT_PASSIVE" \in Mishap
    /\ lst[t] # "ABORTED"
    /\ lst' = [lst EXCEPT ![t] = "ABORTED"]
    /\ UNCHANGED <<anyPort, phase, serverVars, accept_addresses, entry, report, con, peers, backlog>>

\* server_close, in any state but CLOSED: what has not been accepted is reset,
\* and a server that was about to be removed stays.
StopServer ==
    /\ phase = "USER"
    /\ server \notin {"CLOSED", "FREED"}
    /\ stops < MaxStops
    /\ stops' = stops + 1
    /\ server' = "CLOSED"
    /\ backlog' = <<>>
    /\ UNCHANGED <<anyPort, phase, starter, outcome, accept_addresses, entry, report, lst, con,
                   peers>>

\* server_start_state_machine on a closed server; its entries are kept.
RestartServer ==
    /\ phase = "USER"
    /\ server = "CLOSED"
    /\ server' = "RESOLVE_IP"
    /\ starter' = "CREATED"
    /\ UNCHANGED <<anyPort, phase, outcome, stops, accept_addresses, entry, report, lst, con,
                   peers, backlog>>

-----------------------------------------------------------------------------
(* The active ends, which run at any time.                                 *)

\* con_bind_src_address takes the first port that is free.
Bind(t) ==
    /\ act[t] = "UNBOUND"
    /\ act' = [act EXCEPT ![t] = "BOUND"]
    /\ port' = [port EXCEPT ![t] =
                  Min(Port \ {port[u] : u \in {v \in Transfer : act[v] \in {"BOUND", "DIALLED"}}})]
    /\ UNCHANGED <<anyPort, phase, serverVars, accept_addresses, entry, report, lst, con, backlog>>

\* con_connect from the bound port, after the listener's FILE-PREPARED.
Dial(t) ==
    /\ act[t] = "BOUND"
    /\ lst[t] = "READY"
    /\ act' = [act EXCEPT ![t] = "DIALLED"]
    /\ backlog' = IF server = "LISTENING"
                  THEN Append(backlog, [from |-> port[t], for |-> t]) ELSE backlog
    /\ UNCHANGED <<anyPort, phase, serverVars, accept_addresses, entry, report, lst, con, port>>

\* data_transfer_abort at the active end closes its socket and frees the port.
AbortActive(t) ==
    /\ "ABORT_ACTIVE" \in Mishap
    /\ act[t] \in {"BOUND", "DIALLED"}
    /\ act' = [act EXCEPT ![t] = "ABORTED"]
    /\ UNCHANGED <<anyPort, phase, serverVars, accept_addresses, entry, report, lst, con, port, backlog>>

\* Somebody else connects, one at a time.
DialStranger ==
    /\ "STRANGER" \in Mishap
    /\ server = "LISTENING"
    /\ ~ \E i \in DOMAIN backlog : backlog[i].from = Stranger
    /\ backlog' = Append(backlog, [from |-> Stranger, for |-> Stranger])
    /\ UNCHANGED <<anyPort, phase, serverVars, accept_addresses, entry, report, lst, con, peers>>

-----------------------------------------------------------------------------
Tick == Collect \/ Servers \/ Accepts \/ Transfers

Listener(t) == SetupAccept(t) \/ AbortPassive(t)
Peer(t) == Bind(t) \/ Dial(t) \/ AbortActive(t)

Next ==
    \/ Tick
    \/ StopServer \/ RestartServer \/ BeginRestart \/ FinishRestart
    \/ DialStranger
    \/ \E t \in Transfer : ResolveAccept(t) \/ Listener(t) \/ Peer(t)

Spec == Init /\ [][Next]_vars

\* The tick never stops: one of its parts is always enabled, and only they
\* change phase.
Turn == phase' \in {"SERVERS", "ACCEPTS", "TRANSFERS", "USER"}
FairSpec == Spec /\ WF_phase(Turn)

-----------------------------------------------------------------------------
(* Properties.                                                             *)

\* A transfer that waits for its entry to be resolved can read it: the tick
\* looks at the transfers before a connection can use the entry up and before
\* the entry is collected and freed.  The one exception is a server that was
\* stopped and failed to restart, which is removed with all its entries.
EntryKept ==
    \A t \in Transfer :
        lst[t] = "RESOLVE_ACCEPT" =>
            entry[t] \notin {"NONE", "DELETE"} \/ (server = "FREED" /\ stops > 0)

\* Entries come and go in any order, for one transfer each, and the list of
\* accept entries stays whole: what is allocated is what can be reached, and
\* it is one entry for each transfer that has one.
ListKept ==
    /\ Intact(accept_addresses)
    /\ IsInjective(entries)
    /\ ToSet(entries) = {t \in Transfer : entry[t] # "NONE"}

\* Connections are not mixed up: one that a transfer got was made for it,
\* although every peer shares a host, ports are taken again and entries of
\* aborted transfers stay in the list.  This holds only while the active end has
\* not aborted the transfer and it does not allow any port; nobody else's
\* connection is ever taken.  And it holds only while the active end of no
\* transfer that allows any port was aborted: if such a transfer was served by
\* the connection of another, its own still waits when its port is taken again.
OwnConnection ==
    \A t \in Transfer : con[t] # None =>
        /\ con[t].from # Stranger
        /\ \/ t \in anyPort \/ \E u \in anyPort : act[u] = "ABORTED"
           \/ act[t] = "ABORTED"
           \/ con[t].for = t

\* A transfer gets one connection: the descriptor of a data connection in
\* use is never overwritten.
AdmittedOnce ==
    [][\A t \in Transfer : con[t] # None => con'[t] = con[t]]_vars

\* No transfer allows any port, none is aborted and the server was not stopped.
Undisturbed ==
    /\ anyPort = {}
    /\ stops = 0
    /\ \A t \in Transfer : lst[t] # "ABORTED" /\ act[t] # "ABORTED"

\* Unless something disturbs the server, a transfer whose peer has dialled gets
\* its connection, whatever strangers do.
InvitedConnects ==
    \A t \in Transfer : act[t] = "DIALLED" ~> con[t].for = t \/ ~Undisturbed
=============================================================================
