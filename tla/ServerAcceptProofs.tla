------------------------- MODULE ServerAcceptProofs -------------------------
(***************************************************************************)
(* What holds of a server and its accept entries for every number of       *)
(* transfers, every choice of those that allow any port and whatever       *)
(* mishaps there are.                                                      *)
(***************************************************************************)
EXTENDS ServerAccept, LinkedListProofs

-----------------------------------------------------------------------------
(* The list, as far as it matters for the entries: an item that iterating  *)
(* finds holds one of the values that were looked for.                     *)

LEMMA IterateYields ==
    ASSUME NEW l, NEW values, Iterate(l, values) # NULL
    PROVE  l.cell[Iterate(l, values)].value \in values
<1> DEFINE hits == {k \in 1 .. GetSize(l) : Values(l)[k] \in values}
<1>1. hits # {} /\ Iterate(l, values) = Items(l)[Min(hits)]
  BY DEF Iterate
<1>2. hits \in SUBSET Nat
  OBVIOUS
<1>3. Min(hits) \in hits
  BY <1>1, <1>2, MinIsIn
<1> HIDE DEF hits
<1>4. Min(hits) \in 1 .. GetSize(l) /\ Values(l)[Min(hits)] \in values
  BY <1>3 DEF hits
<1> QED BY <1>1, <1>4 DEF Values, Items

-----------------------------------------------------------------------------
(* The inductive invariant.                                                *)

\* The types of the fields that the entries and the transfers go by.
Fields ==
    /\ phase \in {"SERVERS", "ACCEPTS", "TRANSFERS", "USER"}
    /\ server \in {"LISTENING", "CLOSED", "RESOLVE_IP", "DELETE", "FREED"}
    /\ stops \in Nat
    /\ entry \in [Transfer -> {"NONE", "RESOLVE_IP", "RESOLVED", "ERROR", "DELETE"}]
    /\ report \in [Transfer -> {"INCOMPLETE", "COMPLETE", "ERROR"}]
    /\ lst \in [Transfer -> {"SETUP", "RESOLVE_ACCEPT", "READY", "ABORTED"}]
    /\ con = [t \in Transfer |-> con[t]]

\* Only a server that was stopped is ever removed.
StoppedBefore == server # "LISTENING" => stops > 0

\* What the entry of a waiting transfer can be, by the phase of the tick: it
\* is resolved only between the look at the entries and the look at the
\* transfers, when no connection is taken and nothing collected.
Awaited(t) ==
    entry[t] \in IF phase = "TRANSFERS" THEN {"RESOLVE_IP", "RESOLVED", "ERROR"}
                 ELSE {"RESOLVE_IP"}

EntryAwaited ==
    server # "FREED" => \A t \in Transfer : lst[t] = "RESOLVE_ACCEPT" => Awaited(t)

\* An entry is made once, and spent when its transfer has a connection.
SetUpOnce ==
    \A t \in Transfer : entry[t] # "NONE" \/ con[t] # None => lst[t] # "SETUP"
Spent ==
    \A t \in Transfer : con[t] # None => entry[t] \in {"DELETE", "NONE"}

Inv == Fields /\ StoppedBefore /\ EntryAwaited /\ SetUpOnce /\ Spent

-----------------------------------------------------------------------------
(* The steps.                                                              *)

LEMMA InitInv == Init => Inv
<1> SUFFICES ASSUME Init PROVE Inv
  OBVIOUS
<1>1. Fields
  BY DEF Init, Fields
<1>2. StoppedBefore /\ EntryAwaited /\ SetUpOnce /\ Spent
  BY DEF Init, StoppedBefore, EntryAwaited, SetUpOnce, Spent
<1> QED BY <1>1, <1>2 DEF Inv

\* The garbage collection: no waiting transfer has an entry to be collected.
LEMMA CollectStep ==
    ASSUME Inv, Collect
    PROVE  Inv'
<1> USE DEF Inv
<1>1. phase = "USER" /\ phase' = "SERVERS" /\ UNCHANGED <<stops, report, lst, con>>
  BY DEF Collect
<1>2. /\ server' = IF server = "DELETE" THEN "FREED" ELSE server
      /\ entry' = [t \in Transfer |->
                     IF server = "DELETE" \/ entry[t] = "DELETE" THEN "NONE" ELSE entry[t]]
  BY DEF Collect
<1>3. Fields'
  BY <1>1, <1>2 DEF Fields
<1>4. StoppedBefore'
  BY <1>1, <1>2 DEF StoppedBefore
<1>5. EntryAwaited'
  BY <1>1, <1>2 DEF EntryAwaited, Awaited, Fields
<1>6. SetUpOnce' /\ Spent'
  BY <1>1, <1>2 DEF SetUpOnce, Spent
<1> QED BY <1>3, <1>4, <1>5, <1>6

\* A connection is given to a transfer whose entry is resolved.
LEMMA HandleConTakes ==
    ASSUME HandleCon
    PROVE  \/ \E t \in Transfer : Admits(t, Head(backlog)) /\ Take(t, Head(backlog))
           \/ UNCHANGED <<con, entry>>
<1> DEFINE c == Head(backlog)
           admitted == {t \in Transfer : Admits(t, c)}
           li == Iterate(accept_addresses, admitted)
<1>1. CASE li # NULL
  <2>1. Take(accept_addresses.cell[li].value, c)
    BY <1>1 DEF HandleCon
  <2>2. accept_addresses.cell[li].value \in admitted
    BY <1>1, IterateYields
  <2> QED BY <2>1, <2>2
<1>2. CASE li = NULL
  BY <1>2 DEF HandleCon
<1> QED BY <1>1, <1>2

LEMMA TakeStep ==
    ASSUME Inv, phase = "SERVERS", phase' = "ACCEPTS", server' = server,
           NEW t \in Transfer, NEW c, Admits(t, c), Take(t, c),
           UNCHANGED <<stops, report, lst>>
    PROVE  Inv'
<1> USE DEF Inv, Take
<1>1. /\ entry[t] = "RESOLVED"
      /\ entry'[t] = "DELETE" /\ \A u \in Transfer \ {t} : entry'[u] = entry[u]
      /\ \A u \in Transfer \ {t} : con'[u] = con[u]
  BY DEF Admits, Fields
<1>2. Fields'
  BY DEF Fields
<1>3. StoppedBefore'
  BY DEF StoppedBefore
<1>4. EntryAwaited'
  <2>1. server # "FREED" => lst[t] # "RESOLVE_ACCEPT"
    BY <1>1 DEF EntryAwaited, Awaited
  <2> QED BY <1>1, <2>1 DEF EntryAwaited, Awaited
<1>5. SetUpOnce' /\ Spent'
  BY <1>1 DEF SetUpOnce, Spent
<1> QED BY <1>2, <1>3, <1>4, <1>5

LEMMA ServersStep ==
    ASSUME Inv, Servers
    PROVE  Inv'
<1>0. phase = "SERVERS" /\ phase' = "ACCEPTS" /\ UNCHANGED <<stops, report, lst>>
  BY DEF Servers
<1>1. CASE HandleCon
  <2>1. server' = server
    BY <1>1 DEF HandleCon
  <2>2. CASE \E t \in Transfer : Admits(t, Head(backlog)) /\ Take(t, Head(backlog))
    BY <1>0, <2>1, <2>2, TakeStep
  <2>3. CASE UNCHANGED <<con, entry>>
    BY <1>0, <2>1, <2>3 DEF Inv, Fields, StoppedBefore, EntryAwaited, Awaited,
       SetUpOnce, Spent
  <2> QED BY <1>1, <2>2, <2>3, HandleConTakes
<1>2. CASE Restarted \/ UNCHANGED <<server, con, entry>>
  <2>1. UNCHANGED <<con, entry>>
    BY <1>2 DEF Restarted
  <2>2. \/ server' = server
        \/ server = "RESOLVE_IP" /\ server' \in {"LISTENING", "DELETE"}
    BY <1>2 DEF Restarted, ServerBind
  <2> QED BY <1>0, <2>1, <2>2 DEF Inv, Fields, StoppedBefore, EntryAwaited, Awaited,
          SetUpOnce, Spent
<1> QED BY <1>1, <1>2 DEF Servers

\* The entries go by the reports of their threads.
LEMMA AcceptsStep ==
    ASSUME Inv, Accepts
    PROVE  Inv'
<1> USE DEF Inv, Accepts
<1>1. \A t \in Transfer :
         \/ entry'[t] = entry[t]
         \/ entry[t] = "RESOLVE_IP" /\ entry'[t] \in {"RESOLVED", "ERROR"}
  BY DEF Fields
<1>2. Fields'
  BY DEF Fields, serverVars
<1>3. StoppedBefore'
  BY DEF StoppedBefore, serverVars
<1>4. EntryAwaited'
  BY <1>1 DEF EntryAwaited, Awaited, serverVars
<1>5. SetUpOnce' /\ Spent'
  BY <1>1 DEF SetUpOnce, Spent
<1> QED BY <1>2, <1>3, <1>4, <1>5

\* The transfers go by their entries, and none waits for a resolved one then.
LEMMA TransfersStep ==
    ASSUME Inv, Transfers
    PROVE  Inv'
<1> USE DEF Inv
<1>0. phase = "TRANSFERS" /\ phase' = "USER" /\ UNCHANGED <<serverVars, report, con>>
  BY DEF Transfers
<1>1. PICK seen \in [Transfer -> {"RESOLVE_IP", "RESOLVED", "ERROR"}] :
         /\ \A t \in Transfer :
              IF lst[t] # "RESOLVE_ACCEPT" THEN seen[t] = "RESOLVE_IP"
              ELSE server # "FREED" => seen[t] = entry[t]
         /\ entry' = [t \in Transfer |->
                        IF (lst[t] = "RESOLVE_ACCEPT" /\ seen[t] = "ERROR") /\ server # "FREED"
                        THEN "DELETE" ELSE entry[t]]
         /\ lst' = [t \in Transfer |->
                      IF lst[t] = "RESOLVE_ACCEPT" /\ seen[t] = "ERROR" THEN "ABORTED"
                      ELSE IF lst[t] = "RESOLVE_ACCEPT" /\ seen[t] = "RESOLVED" THEN "READY"
                      ELSE lst[t]]
  BY DEF Transfers
<1>2. Fields'
  BY <1>0, <1>1 DEF Fields, serverVars
<1>3. StoppedBefore'
  BY <1>0 DEF StoppedBefore, serverVars
<1>4. EntryAwaited'
  <2> SUFFICES ASSUME server # "FREED", NEW t \in Transfer, lst'[t] = "RESOLVE_ACCEPT"
               PROVE  entry'[t] = "RESOLVE_IP"
    BY <1>0 DEF EntryAwaited, Awaited, serverVars
  <2>1. lst[t] = "RESOLVE_ACCEPT" /\ seen[t] = "RESOLVE_IP"
    BY <1>1
  <2> QED BY <1>1, <2>1
<1>5. SetUpOnce'
  BY <1>0, <1>1 DEF SetUpOnce
<1>6. Spent'
  BY <1>0, <1>1 DEF Spent
<1> QED BY <1>2, <1>3, <1>4, <1>5, <1>6

\* A transfer makes its entry while it has none.
LEMMA SetupAcceptStep ==
    ASSUME Inv, NEW t \in Transfer, SetupAccept(t)
    PROVE  Inv'
<1> USE DEF Inv, SetupAccept
<1>1. /\ entry[t] = "NONE" /\ con[t] = None
      /\ entry'[t] = "RESOLVE_IP" /\ \A u \in Transfer \ {t} : entry'[u] = entry[u]
      /\ lst'[t] = "RESOLVE_ACCEPT" /\ \A u \in Transfer \ {t} : lst'[u] = lst[u]
  BY DEF SetUpOnce, Fields
<1>2. Fields'
  BY DEF Fields, serverVars
<1>3. StoppedBefore'
  BY DEF StoppedBefore, serverVars
<1>4. EntryAwaited'
  BY <1>1 DEF EntryAwaited, Awaited, serverVars
<1>5. SetUpOnce' /\ Spent'
  BY <1>1 DEF SetUpOnce, Spent
<1> QED BY <1>2, <1>3, <1>4, <1>5

LEMMA AbortPassiveStep ==
    ASSUME Inv, NEW t \in Transfer, AbortPassive(t)
    PROVE  Inv'
<1> USE DEF Inv, AbortPassive
<1>1. lst'[t] = "ABORTED" /\ \A u \in Transfer \ {t} : lst'[u] = lst[u]
  BY DEF Fields
<1>2. Fields'
  BY DEF Fields, serverVars
<1> QED BY <1>1, <1>2 DEF StoppedBefore, EntryAwaited, Awaited, SetUpOnce, Spent, serverVars

\* The server is stopped, started again, or its thread goes on.
LEMMA ServerSteps ==
    ASSUME Inv, StopServer \/ RestartServer \/ BeginRestart \/ FinishRestart
    PROVE  Inv'
<1> USE DEF Inv
<1>1. UNCHANGED <<phase, entry, report, lst, con>>
  BY DEF StopServer, RestartServer, BeginRestart, FinishRestart
<1>2. \/ UNCHANGED <<server, stops>>
      \/ server # "FREED" /\ server' = "CLOSED" /\ stops' = stops + 1
      \/ server = "CLOSED" /\ server' = "RESOLVE_IP" /\ stops' = stops
  BY DEF StopServer, RestartServer, BeginRestart, FinishRestart
<1> QED BY <1>1, <1>2 DEF Fields, StoppedBefore, EntryAwaited, Awaited, SetUpOnce, Spent

\* Steps that touch neither entries nor the transfers at the listener.
LEMMA QuietSteps ==
    ASSUME Inv, UNCHANGED <<phase, server, stops, entry, lst, con>>,
           report' \in [Transfer -> {"INCOMPLETE", "COMPLETE", "ERROR"}]
    PROVE  Inv'
  BY DEF Inv, Fields, StoppedBefore, EntryAwaited, Awaited, SetUpOnce, Spent

\* Every step keeps the invariant.
LEMMA NextInv == Inv /\ [Next]_vars => Inv'
<1> SUFFICES ASSUME Inv, [Next]_vars PROVE Inv'
  OBVIOUS
<1>1. CASE Tick
  BY <1>1, CollectStep, ServersStep, AcceptsStep, TransfersStep DEF Tick
<1>2. CASE StopServer \/ RestartServer \/ BeginRestart \/ FinishRestart
  BY <1>2, ServerSteps
<1>3. CASE DialStranger \/ UNCHANGED vars
  <2>1. UNCHANGED <<phase, server, stops, entry, lst, con, report>>
    BY <1>3 DEF DialStranger, serverVars, vars
  <2> QED BY <2>1, QuietSteps DEF Inv, Fields
<1>4. ASSUME NEW t \in Transfer, ResolveAccept(t) \/ Peer(t) PROVE Inv'
  <2>1. /\ UNCHANGED <<phase, server, stops, entry, lst, con>>
        /\ report' \in [Transfer -> {"INCOMPLETE", "COMPLETE", "ERROR"}]
    BY <1>4 DEF ResolveAccept, Peer, Bind, Dial, AbortActive, serverVars, Inv, Fields
  <2> QED BY <2>1, QuietSteps
<1>5. ASSUME NEW t \in Transfer, Listener(t) PROVE Inv'
  BY <1>5, SetupAcceptStep, AbortPassiveStep DEF Listener
<1> QED BY <1>1, <1>2, <1>3, <1>4, <1>5 DEF Next

-----------------------------------------------------------------------------
(* The list of entries and what is left of the types.                      *)

\* The list is whole, and has one item for each transfer with an entry.
Kept ==
    /\ IsList(accept_addresses)
    /\ IsInjective(entries)
    /\ ToSet(entries) = {t \in Transfer : entry[t] # "NONE"}

\* The types of the other variables; a port is known once it is bound.
Others ==
    /\ anyPort \in AnyPort
    /\ starter \in {"NONE", "CREATED", "BUSY"}
    /\ outcome \in {"INCOMPLETE", "COMPLETE", "ERROR"}
    /\ stops \in 0 .. MaxStops
    /\ con \in [Transfer -> Connection \cup {None}]
    /\ act \in [Transfer -> {"UNBOUND", "BOUND", "DIALLED", "ABORTED"}]
    /\ port \in [Transfer -> Port \cup {0}]
    /\ \A t \in Transfer : act[t] # "UNBOUND" => port[t] # 0
    /\ backlog \in Seq(Connection)

LEMMA InitKept == Init => Kept
<1> SUFFICES ASSUME Init PROVE Kept
  OBVIOUS
<1>1. IsList(accept_addresses) /\ entries = <<>>
  BY EmptyIsList DEF Init, entries
<1>2. IsInjective(entries) /\ ToSet(entries) = {}
  BY <1>1 DEF IsInjective, ToSet
<1>3. {t \in Transfer : entry[t] # "NONE"} = {}
  BY DEF Init
<1> QED BY <1>1, <1>2, <1>3 DEF Kept

\* What is collected leaves the list, whole servers with all of their entries.
LEMMA CollectKept ==
    ASSUME Inv, Kept, Collect
    PROVE  Kept'
<1>1. CASE server = "DELETE"
  <2>1. accept_addresses' = EmptyList /\ entry' = [t \in Transfer |-> "NONE"]
    BY <1>1 DEF Collect
  <2>2. IsList(accept_addresses') /\ entries' = <<>>
    BY <2>1, EmptyIsList DEF entries
  <2>3. IsInjective(entries') /\ ToSet(entries') = {}
    BY <2>2 DEF IsInjective, ToSet
  <2>4. {t \in Transfer : entry'[t] # "NONE"} = {}
    BY <2>1
  <2> QED BY <2>2, <2>3, <2>4 DEF Kept
<1>2. CASE server # "DELETE"
  <2> DEFINE dead == {t \in Transfer : entry[t] = "DELETE"}
  <2>1. /\ accept_addresses' = RemAll(accept_addresses, dead)
        /\ entry' = [t \in Transfer |-> IF entry[t] = "DELETE" THEN "NONE" ELSE entry[t]]
    BY <1>2 DEF Collect
  <2>2. /\ IsList(accept_addresses') /\ IsInjective(entries')
        /\ ToSet(entries') = ToSet(entries) \ dead
    <3>1. IsList(accept_addresses) /\ IsInjective(Values(accept_addresses))
      BY DEF Kept, entries
    <3> HIDE DEF dead
    <3> QED BY <2>1, <3>1, RemAllKeeps DEF entries
  <2>3. {t \in Transfer : entry'[t] # "NONE"} = {t \in Transfer : entry[t] # "NONE"} \ dead
    BY <2>1
  <2> QED BY <2>2, <2>3 DEF Kept
<1> QED BY <1>1, <1>2

\* A transfer that makes its entry has none in the list.
LEMMA SetupAcceptKept ==
    ASSUME Inv, Kept, NEW t \in Transfer, SetupAccept(t)
    PROVE  Kept'
<1> DEFINE l == accept_addresses
           n == GetSize(l)
<1>1. /\ accept_addresses' = Add(l, t) /\ entry[t] = "NONE"
      /\ entry' = [entry EXCEPT ![t] = "RESOLVE_IP"]
  BY DEF SetupAccept, Inv, SetUpOnce
<1>2. /\ IsList(l) /\ IsInjective(Values(l))
      /\ ToSet(Values(l)) = {u \in Transfer : entry[u] # "NONE"}
  BY DEF Kept, entries
<1>3. n \in Nat /\ DOMAIN Values(l) = 1 .. n
  BY <1>2, ListFacts
<1> DEFINE v == Values(Add(l, t))
<1>4. /\ IsList(Add(l, t)) /\ v = [k \in 1 .. n + 1 |-> v[k]]
      /\ \A k \in 1 .. n + 1 : v[k] = IF k <= n THEN Values(l)[k] ELSE t
  BY <1>2, AddIsList
<1> HIDE DEF l, n, v
<1>5. /\ DOMAIN v = 1 .. n + 1 /\ v[n + 1] = t
      /\ \A k \in 1 .. n : k \in 1 .. n + 1 /\ v[k] = Values(l)[k]
      /\ \A k \in 1 .. n + 1 : k \in 1 .. n \/ k = n + 1
  BY <1>3, <1>4
<1>6. \A k \in 1 .. n : v[k] # t
  BY <1>1, <1>2, <1>3, <1>5 DEF ToSet
<1>7. IsInjective(v)
  BY <1>2, <1>3, <1>5, <1>6 DEF IsInjective
<1>8. ToSet(v) = ToSet(Values(l)) \cup {t}
  <2>1. n + 1 \in 1 .. n + 1
    BY <1>3
  <2> QED BY <1>3, <1>5, <2>1 DEF ToSet
<1>9. {u \in Transfer : entry'[u] # "NONE"} = {u \in Transfer : entry[u] # "NONE"} \cup {t}
  BY <1>1 DEF Inv, Fields
<1> QED BY <1>1, <1>2, <1>4, <1>7, <1>8, <1>9 DEF Kept, entries, v, l

\* Steps that make no entry and collect none.
LEMMA StaysKept ==
    ASSUME Kept, accept_addresses' = accept_addresses,
           \A t \in Transfer : entry'[t] = "NONE" <=> entry[t] = "NONE"
    PROVE  Kept'
  BY DEF Kept, entries

LEMMA NextKept ==
    ASSUME Inv, Kept, [Next]_vars
    PROVE  Kept'
<1>1. CASE Servers
  <2>1. accept_addresses' = accept_addresses
    BY <1>1 DEF Servers
  <2>2. CASE \E t \in Transfer : Admits(t, Head(backlog)) /\ Take(t, Head(backlog))
    BY <2>1, <2>2, StaysKept DEF Admits, Take, Inv, Fields
  <2>3. CASE UNCHANGED entry
    BY <2>1, <2>3, StaysKept
  <2> QED BY <1>1, <2>2, <2>3, HandleConTakes DEF Servers, Restarted
<1>2. CASE Accepts
  BY <1>2, StaysKept DEF Accepts, Inv, Fields
<1>3. CASE Transfers
  <2>1. accept_addresses' = accept_addresses
    BY <1>3 DEF Transfers
  <2>2. \A t \in Transfer : entry'[t] = "NONE" <=> entry[t] = "NONE"
    <3>1. PICK seen \in [Transfer -> {"RESOLVE_IP", "RESOLVED", "ERROR"}] :
             /\ \A t \in Transfer :
                  IF lst[t] # "RESOLVE_ACCEPT" THEN seen[t] = "RESOLVE_IP"
                  ELSE server # "FREED" => seen[t] = entry[t]
             /\ entry' = [t \in Transfer |->
                            IF (lst[t] = "RESOLVE_ACCEPT" /\ seen[t] = "ERROR") /\ server # "FREED"
                            THEN "DELETE" ELSE entry[t]]
      BY <1>3 DEF Transfers
    <3> QED BY <3>1
  <2> QED BY <2>1, <2>2, StaysKept
<1>4. CASE UNCHANGED <<accept_addresses, entry>>
  BY <1>4, StaysKept
<1> QED BY <1>1, <1>2, <1>3, <1>4, CollectKept, SetupAcceptKept
        DEF Next, Tick, StopServer, RestartServer, BeginRestart, FinishRestart, DialStranger,
            ResolveAccept, Listener, AbortPassive, Peer, Bind, Dial, AbortActive, vars

LEMMA InitOthers == Init => Others
<1> SUFFICES ASSUME Init PROVE Others
  OBVIOUS
<1>1. con = [t \in Transfer |-> None] /\ port = [t \in Transfer |-> 0]
  BY DEF Init
<1>2. 0 \in 0 .. MaxStops
  BY TransferAssumption
<1> HIDE DEF Init
<1> QED BY <1>1, <1>2 DEF Init, Others

\* While a transfer is not bound, the others leave a port for it.
LEMMA SomePortIsFree ==
    ASSUME NEW used, NEW bound \in SUBSET Transfer, NEW t \in Transfer \ bound,
           used = {port[u] : u \in bound}
    PROVE  Port \ used # {}
<1> DEFINE f == [u \in bound |-> port[u]]
           n == Cardinality(Transfer)
<1>1. n \in Nat
  BY TransferAssumption, FS_CardinalityType
<1>2. IsFiniteSet(bound) /\ Cardinality(bound) \in Nat /\ Cardinality(bound) < n
  <2>1. IsFiniteSet(bound) /\ Cardinality(bound) <= n /\ Cardinality(bound) # n
    BY TransferAssumption, FS_Subset
  <2>2. Cardinality(bound) \in Nat
    BY <2>1, FS_CardinalityType
  <2> QED BY <1>1, <2>1, <2>2
<1>3. IsFiniteSet(used) /\ Cardinality(used) <= Cardinality(bound)
  <2>1. f \in Surjection(bound, used)
    BY DEF Surjection
  <2> QED BY <1>2, <2>1, FS_Surjection
<1>4. Cardinality(Port) = n
  <2>1. Cardinality(1 .. n) = IF 1 > n THEN 0 ELSE n - 1 + 1
    BY <1>1, FS_Interval
  <2> QED BY <1>1, <2>1 DEF Port
<1> SUFFICES ASSUME Port \subseteq used PROVE FALSE
  OBVIOUS
<1>5. Cardinality(Port) <= Cardinality(used)
  BY <1>3, FS_Subset
<1>6. Cardinality(used) \in Nat
  BY <1>3, FS_CardinalityType
<1> QED BY <1>1, <1>2, <1>3, <1>4, <1>5, <1>6

LEMMA PortIsFree ==
    ASSUME NEW used, NEW bound \in SUBSET Transfer, NEW t \in Transfer \ bound,
           used = {port[u] : u \in bound}
    PROVE  Min(Port \ used) \in Port
<1>1. Port \ used # {}
  BY SomePortIsFree
<1>2. Port \ used \in SUBSET Nat
  BY DEF Port
<1> QED BY <1>1, <1>2, MinIsIn

LEMMA BindOthers ==
    ASSUME Others, NEW t \in Transfer, Bind(t)
    PROVE  Others'
<1> DEFINE bound == {v \in Transfer : act[v] \in {"BOUND", "DIALLED"}}
           used == {port[u] : u \in bound}
           p == Min(Port \ used)
<1>1. /\ act[t] = "UNBOUND" /\ act' = [act EXCEPT ![t] = "BOUND"]
      /\ port' = [port EXCEPT ![t] = p]
      /\ UNCHANGED <<anyPort, starter, outcome, stops, con, backlog>>
  BY DEF Bind, serverVars
<1>2. p \in Port
  <2>1. bound \in SUBSET Transfer /\ t \in Transfer \ bound
    BY <1>1
  <2>2. used = {port[u] : u \in bound}
    OBVIOUS
  <2> HIDE DEF bound, used
  <2> QED BY <2>1, <2>2, PortIsFree
<1> HIDE DEF p
<1>3. p # 0
  BY <1>2 DEF Port
<1> QED BY <1>1, <1>2, <1>3 DEF Others

\* Only a bound end dials, so an arriving connection has a port.
LEMMA DialOthers ==
    ASSUME Others, NEW t \in Transfer, Dial(t)
    PROVE  Others'
<1> DEFINE c == [from |-> port[t], for |-> t]
<1>1. /\ act[t] = "BOUND" /\ act' = [act EXCEPT ![t] = "DIALLED"]
      /\ backlog' = Append(backlog, c) \/ backlog' = backlog
      /\ UNCHANGED <<anyPort, starter, outcome, stops, con, port>>
  BY DEF Dial, serverVars
<1>2. port[t] \in Port
  BY <1>1 DEF Others
<1>3. c \in Connection
  BY <1>2 DEF Connection
<1> HIDE DEF c
<1>4. backlog' \in Seq(Connection)
  BY <1>1, <1>3, AppendProperties DEF Others
<1> QED BY <1>1, <1>4 DEF Others

LEMMA ServersOthers ==
    ASSUME Others, Servers
    PROVE  Others'
<1>1. UNCHANGED <<anyPort, starter, outcome, stops, act, port>>
  BY DEF Servers, peers
<1>2. CASE HandleCon
  <2> DEFINE c == Head(backlog)
  <2>1. c \in Connection /\ Tail(backlog) \in Seq(Connection)
    BY <1>2, HeadTailProperties DEF HandleCon, Others
  <2>2. backlog' = Tail(backlog)
    BY <1>2 DEF HandleCon
  <2>3. con' = con \/ \E t \in Transfer : con' = [con EXCEPT ![t] = c]
    BY <1>2, HandleConTakes DEF Take
  <2> HIDE DEF c
  <2>4. con' \in [Transfer -> Connection \cup {None}]
    BY <2>1, <2>3 DEF Others
  <2> QED BY <1>1, <2>1, <2>2, <2>4 DEF Others
<1>3. CASE UNCHANGED <<con, backlog>>
  BY <1>1, <1>3 DEF Others
<1> QED BY <1>2, <1>3 DEF Servers, Restarted

LEMMA StrangerOthers ==
    ASSUME Others, DialStranger
    PROVE  Others'
<1> DEFINE c == [from |-> Stranger, for |-> Stranger]
<1>1. /\ backlog' = Append(backlog, c)
      /\ UNCHANGED <<anyPort, starter, outcome, stops, con, act, port>>
  BY DEF DialStranger, serverVars, peers
<1>2. c \in Connection
  BY DEF Connection
<1> HIDE DEF c
<1>3. backlog' \in Seq(Connection)
  BY <1>1, <1>2, AppendProperties DEF Others
<1> QED BY <1>1, <1>3 DEF Others

LEMMA ServerOthers ==
    ASSUME Others, StopServer \/ RestartServer \/ BeginRestart \/ FinishRestart
    PROVE  Others'
<1>1. UNCHANGED <<anyPort, con, act, port>>
  BY DEF StopServer, RestartServer, BeginRestart, FinishRestart, peers
<1>2. starter' \in {"NONE", "CREATED", "BUSY"} /\ outcome' \in {"INCOMPLETE", "COMPLETE", "ERROR"}
  BY DEF StopServer, RestartServer, BeginRestart, FinishRestart, Others
<1>3. stops' \in 0 .. MaxStops
  BY TransferAssumption DEF StopServer, RestartServer, BeginRestart, FinishRestart, Others
<1>4. backlog' \in Seq(Connection)
  <2>1. <<>> \in Seq(Connection)
    OBVIOUS
  <2> QED BY <2>1 DEF StopServer, RestartServer, BeginRestart, FinishRestart, Others
<1> QED BY <1>1, <1>2, <1>3, <1>4 DEF Others

LEMMA NextOthers ==
    ASSUME Others, [Next]_vars
    PROVE  Others'
<1>1. CASE UNCHANGED <<anyPort, starter, outcome, stops, con, act, port, backlog>>
  BY <1>1 DEF Others
<1>2. ASSUME NEW t \in Transfer, AbortActive(t) PROVE Others'
  BY <1>2 DEF AbortActive, Others, serverVars
<1> QED BY <1>1, <1>2, BindOthers, DialOthers, ServersOthers, StrangerOthers, ServerOthers
        DEF Next, Tick, Collect, Accepts, Transfers, ResolveAccept, Listener, SetupAccept,
            AbortPassive, Peer, serverVars, peers, vars

-----------------------------------------------------------------------------
(* Whose connection it is.  A port may be taken again when its transfer was *)
(* aborted, and a connection made from it then waits among later ones from  *)
(* the same port.  What keeps them apart is that all queues are in the same *)
(* order: ports are bound, entries added, connections made and accepted one *)
(* transfer after the other.                                                *)

Live(t) == act[t] \in {"BOUND", "DIALLED"}

\* The exception: an aborted transfer that allows any port.
Excused == \E u \in anyPort : act[u] = "ABORTED"

\* The connection that t makes.
Call(t) == [from |-> port[t], for |-> t]
Called(t) == \E i \in DOMAIN backlog : backlog[i] = Call(t)

\* Two live transfers never have one port, and no entry is made before the
\* port is known.
Ports ==
    /\ \A t \in Transfer : act[t] = "UNBOUND" => port[t] = 0
    /\ \A t, u \in Transfer : Live(t) /\ Live(u) /\ port[t] = port[u] => t = u
    /\ \A t \in Transfer :
          entry[t] # "NONE" \/ lst[t] \in {"RESOLVE_ACCEPT", "READY"} => port[t] # 0

\* Each connection that waits is a stranger's or the only one of a transfer
\* that has dialled.
Arriving ==
    /\ \A i \in DOMAIN backlog :
          backlog[i].from = Stranger \/ \E t \in Transfer : backlog[i] = Call(t)
    /\ \A t \in Transfer :
          Called(t) => act[t] \in {"DIALLED", "ABORTED"} /\ lst[t] # "SETUP"
    /\ \A t \in Transfer, i, j \in DOMAIN backlog :
          backlog[i] = Call(t) /\ backlog[j] = Call(t) => i = j

\* The connection of w waits, and that of t, from the same port, is behind it
\* or yet to be made.
Ahead(w, t) ==
    /\ w # t /\ port[w] = port[t]
    /\ \E i \in DOMAIN backlog :
          /\ backlog[i] = Call(w)
          /\ Live(t) \/ \E j \in DOMAIN backlog : i < j /\ backlog[j] = Call(t)

\* Then w was aborted before t was bound, and has the first entry of the two.
InTurn ==
    \A w, t \in Transfer :
        Ahead(w, t) => act[w] = "ABORTED" /\ Before(entries, w, t)

\* Whoever has dialled or may do so has an entry that admits its connection.
Awaiting ==
    \/ server = "FREED" \/ Excused
    \/ \A t \in Transfer \ anyPort :
          (lst[t] = "READY" /\ act[t] = "BOUND") \/ Called(t) => entry[t] = "RESOLVED"

Owned ==
    \A t \in Transfer : con[t] # None =>
        /\ con[t].from # Stranger
        /\ t \in anyPort \/ Excused \/ act[t] = "ABORTED" \/ con[t].for = t

Matched == Ports /\ Arriving /\ InTurn /\ Awaiting /\ Owned

LEMMA InitMatched == Init => Matched
<1> SUFFICES ASSUME Init PROVE Matched
  OBVIOUS
<1>1. DOMAIN backlog = {}
  BY DEF Init
<1>2. \A t \in Transfer : ~Called(t) /\ \A w : ~Ahead(w, t) /\ ~Ahead(t, w)
  BY <1>1 DEF Called, Ahead
<1>3. \A t \in Transfer : /\ port[t] = 0 /\ act[t] = "UNBOUND" /\ entry[t] = "NONE"
                          /\ lst[t] = "SETUP" /\ con[t] = None
  BY DEF Init
<1> QED BY <1>1, <1>2, <1>3 DEF Matched, Ports, Arriving, InTurn, Awaiting, Owned, Live

\* Steps after which no connection waits that did not, nothing is bound,
\* entered or dialled, and what stays in a queue keeps its order.
LEMMA QueuesShrink ==
    ASSUME Ports, Arriving, InTurn,
           port' = port,
           \A t \in Transfer : act'[t] = act[t] \/ (act[t] # "UNBOUND" /\ act'[t] = "ABORTED"),
           \A t \in Transfer : lst'[t] # "SETUP" \/ lst[t] = "SETUP",
           \A t \in Transfer :
              lst'[t] \in {"RESOLVE_ACCEPT", "READY"} => lst[t] \in {"RESOLVE_ACCEPT", "READY"},
           \A t \in Transfer : entry'[t] # "NONE" => entry[t] # "NONE",
           \A w, t \in Transfer : Before(entries, w, t) => Before(entries', w, t),
           NEW d \in Nat,
           DOMAIN backlog \subseteq Nat,
           \A i \in DOMAIN backlog' : /\ i \in Nat /\ i + d \in DOMAIN backlog
                                      /\ backlog'[i] = backlog[i + d]
    PROVE  /\ Ports' /\ Arriving' /\ InTurn'
           /\ \A t \in Transfer : Called(t)' => Called(t)
<1>1. \A t \in Transfer : Call(t)' = Call(t)
  BY DEF Call
<1>2. \A t \in Transfer : Live(t)' => Live(t)
  BY DEF Live
<1>3. \A t \in Transfer : Called(t)' => Called(t)
  BY <1>1 DEF Called
<1>4. Ports'
  BY <1>2 DEF Ports
<1>5. Arriving'
  <2>1. ASSUME NEW i \in DOMAIN backlog'
        PROVE  backlog'[i].from = Stranger \/ \E t \in Transfer : backlog'[i] = Call(t)'
    BY <1>1 DEF Arriving
  <2>2. ASSUME NEW t \in Transfer, Called(t)'
        PROVE  act'[t] \in {"DIALLED", "ABORTED"} /\ lst'[t] # "SETUP"
    BY <1>3, <2>2 DEF Arriving
  <2>3. ASSUME NEW t \in Transfer, NEW i \in DOMAIN backlog', NEW j \in DOMAIN backlog',
               backlog'[i] = Call(t)', backlog'[j] = Call(t)'
        PROVE  i = j
    <3>1. i + d = j + d
      BY <1>1, <2>3 DEF Arriving
    <3> QED BY <3>1
  <2> QED BY <2>1, <2>2, <2>3 DEF Arriving
<1>6. InTurn'
  <2> SUFFICES ASSUME NEW w \in Transfer, NEW t \in Transfer, Ahead(w, t)'
               PROVE  act'[w] = "ABORTED" /\ Before(entries', w, t)
    BY DEF InTurn
  <2>1. PICK i \in DOMAIN backlog' :
           /\ backlog'[i] = Call(w)'
           /\ Live(t)' \/ \E j \in DOMAIN backlog' : i < j /\ backlog'[j] = Call(t)'
    BY DEF Ahead
  <2>2. backlog[i + d] = Call(w) /\ i + d \in DOMAIN backlog
    BY <1>1, <2>1
  <2>3. Live(t) \/ \E j \in DOMAIN backlog : i + d < j /\ backlog[j] = Call(t)
    <3>1. CASE \E j \in DOMAIN backlog' : i < j /\ backlog'[j] = Call(t)'
      <4>1. PICK j \in DOMAIN backlog' : i < j /\ backlog'[j] = Call(t)'
        BY <3>1
      <4>2. i + d < j + d
        BY <4>1
      <4> QED BY <1>1, <4>1, <4>2
    <3> QED BY <1>2, <2>1, <3>1
  <2>4. Ahead(w, t)
    BY <2>2, <2>3 DEF Ahead
  <2> QED BY <2>4 DEF InTurn
<1> QED BY <1>3, <1>4, <1>5, <1>6

\* Nobody gets a connection, and no entry stops admitting one.
LEMMA NobodyServed ==
    ASSUME Awaiting, Owned, UNCHANGED <<anyPort, con>>,
           \A t \in Transfer : act'[t] = act[t] \/ act'[t] = "ABORTED",
           anyPort \subseteq Transfer,
           \A t \in Transfer : Called(t)' => Called(t),
           server = "FREED" => server' = "FREED",
           server # "FREED" /\ server' # "FREED" =>
               \A t \in Transfer :
                  /\ entry[t] = "RESOLVED" => entry'[t] = "RESOLVED"
                  /\ lst'[t] = "READY" => lst[t] = "READY" \/ entry[t] = "RESOLVED"
    PROVE  Awaiting' /\ Owned'
<1>1. Excused => Excused'
  BY DEF Excused
<1>2. Owned'
  BY <1>1 DEF Owned
<1>3. Awaiting'
  <2> SUFFICES ASSUME server' # "FREED", ~Excused', NEW t \in Transfer \ anyPort,
                      (lst'[t] = "READY" /\ act'[t] = "BOUND") \/ Called(t)'
               PROVE  entry'[t] = "RESOLVED"
    BY DEF Awaiting
  <2>1. (lst[t] = "READY" /\ act[t] = "BOUND") \/ Called(t) => entry[t] = "RESOLVED"
    BY <1>1 DEF Awaiting
  <2> QED BY <2>1
<1> QED BY <1>2, <1>3

\* A connection goes to the first entry that admits it.
LEMMA HandleConTakesFirst ==
    ASSUME HandleCon, Kept, NEW c, c = Head(backlog)
    PROVE  \/ \E t \in Transfer :
                /\ Admits(t, c) /\ Take(t, c)
                /\ \A w \in Transfer : w # t /\ Admits(w, c) => ~Before(entries, w, t)
           \/ UNCHANGED <<con, entry>>
<1> DEFINE admitted == {t \in Transfer : Admits(t, c)}
           l == accept_addresses
           li == Iterate(l, admitted)
<1>1. \/ li # NULL /\ Take(l.cell[li].value, c)
      \/ li = NULL /\ UNCHANGED <<con, entry>>
  BY DEF HandleCon
<1>2. CASE li = NULL
  BY <1>1, <1>2
<1>3. CASE li # NULL
  <2>1. IsList(l)
    BY DEF Kept
  <2>2. DOMAIN Values(l) = 1 .. GetSize(l) /\ GetSize(l) \in Nat
    BY <2>1, ListFacts
  <2> HIDE DEF admitted
  <2>3. PICK i \in 1 .. GetSize(l) :
           /\ Values(l)[i] \in admitted
           /\ l.cell[li].value = Values(l)[i]
           /\ \A k \in 1 .. i - 1 : Values(l)[k] \notin admitted
    BY <1>3, <2>1, IterateFinds
  <2> DEFINE t == Values(l)[i]
  <2>4. t \in Transfer /\ Admits(t, c) /\ Take(t, c)
    BY <1>1, <1>3, <2>3 DEF admitted
  <2>5. ASSUME NEW w \in Transfer, w # t, Admits(w, c), Before(entries, w, t)
        PROVE  FALSE
    <3>1. w \in ToSet(entries)
      BY <2>5 DEF Kept, Admits
    <3>2. PICK k \in 1 .. GetSize(l) : Values(l)[k] = w
      BY <2>2, <3>1 DEF ToSet, entries
    <3>3. k < i
      BY <2>2, <2>5, <3>2 DEF Before, entries
    <3>4. k \in 1 .. i - 1 /\ w \in admitted
      BY <2>2, <2>5, <3>2, <3>3 DEF admitted
    <3> QED BY <2>3, <3>2, <3>4
  <2> HIDE DEF t
  <2> QED BY <2>4, <2>5
<1> QED BY <1>2, <1>3

\* The heart of it: a connection that the entry of t is the first to admit is
\* ahead of none that t has made or may make.
LEMMA NotAhead ==
    ASSUME Others, Ports, Arriving, InTurn, Awaiting,
           server # "FREED", ~Excused,
           NEW t \in Transfer \ anyPort, NEW w \in Transfer, w # t,
           NEW c, c = Call(w), Called(w), Admits(t, c),
           Admits(w, c) => ~Before(entries, w, t)
    PROVE  ~Ahead(w, t) /\ port[w] = port[t]
<1>1. port[w] = port[t]
  BY DEF Admits, Call
<1>2. SUFFICES ASSUME Ahead(w, t) PROVE FALSE
  BY <1>1
<1>3. act[w] = "ABORTED" /\ Before(entries, w, t)
  BY <1>2 DEF InTurn
<1>4. w \notin anyPort
  BY <1>3 DEF Excused
<1>5. entry[w] = "RESOLVED"
  BY <1>4 DEF Awaiting
<1>6. Admits(w, c)
  BY <1>5 DEF Admits, Call
<1> QED BY <1>3, <1>6

LEMMA HandleConMatched ==
    ASSUME Inv, Kept, Others, Matched, HandleCon,
           UNCHANGED <<anyPort, act, port, lst, accept_addresses>>
    PROVE  Matched'
<1> DEFINE c == Head(backlog)
           n == Len(backlog)
<1>0. server = "LISTENING" /\ server' = server /\ backlog # <<>> /\ backlog' = Tail(backlog)
  BY DEF HandleCon
<1>1. backlog \in Seq(Connection)
  BY DEF Others
<1>2. /\ n \in Nat /\ n >= 1 /\ DOMAIN backlog = 1 .. n
      /\ DOMAIN backlog' = 1 .. n - 1
      /\ \A i \in 1 .. n - 1 : backlog'[i] = backlog[i + 1]
      /\ c = backlog[1]
  <2>1. /\ Tail(backlog) \in Seq(Connection) /\ Len(Tail(backlog)) = n - 1
        /\ \A i \in 1 .. Len(Tail(backlog)) : Tail(backlog)[i] = backlog[i + 1]
    BY <1>0, <1>1, HeadTailProperties
  <2>2. DOMAIN Tail(backlog) = 1 .. n - 1
    BY <2>1, LenProperties
  <2>3. n \in Nat /\ DOMAIN backlog = 1 .. n /\ n # 0
    BY <1>0, <1>1, LenProperties, EmptySeq
  <2>4. c = backlog[1]
    BY <1>0, <1>1
  <2> QED BY <1>0, <2>1, <2>2, <2>3, <2>4
<1> HIDE DEF c, n
<1>3. entries' = entries
  BY DEF entries
<1>4. anyPort \subseteq Transfer
  BY TransferAssumption DEF Others
<1>5. ASSUME \A t \in Transfer : entry'[t] # "NONE" => entry[t] # "NONE"
      PROVE  /\ Ports' /\ Arriving' /\ InTurn'
             /\ \A t \in Transfer : Called(t)' => Called(t)
  <2>1. \A i \in DOMAIN backlog' : /\ i \in Nat /\ i + 1 \in DOMAIN backlog
                                   /\ backlog'[i] = backlog[i + 1]
    BY <1>2
  <2>2. DOMAIN backlog \subseteq Nat
    BY <1>2
  <2>3. 1 \in Nat
    OBVIOUS
  <2> QED BY <1>3, <1>5, <2>1, <2>2, <2>3, QueuesShrink DEF Matched
<1>6. CASE UNCHANGED <<con, entry>>
  <2>1. /\ Ports' /\ Arriving' /\ InTurn'
        /\ \A t \in Transfer : Called(t)' => Called(t)
    BY <1>5, <1>6
  <2>2. Awaiting' /\ Owned'
    BY <1>0, <1>4, <1>6, <2>1, NobodyServed DEF Matched
  <2> QED BY <2>1, <2>2 DEF Matched
<1>7. ASSUME NEW t \in Transfer, Admits(t, c), Take(t, c),
             \A w \in Transfer : w # t /\ Admits(w, c) => ~Before(entries, w, t)
      PROVE  Matched'
  <2>1. /\ entry[t] = "RESOLVED" /\ entry'[t] = "DELETE" /\ con'[t] = c
        /\ \A u \in Transfer \ {t} : entry'[u] = entry[u] /\ con'[u] = con[u]
    BY <1>7 DEF Admits, Take, Inv, Fields
  <2>2. /\ Ports' /\ Arriving' /\ InTurn'
        /\ \A u \in Transfer : Called(u)' => Called(u)
    BY <1>5, <2>1
  <2>3. c.from # Stranger /\ port[t] # 0 /\ act[t] # "UNBOUND"
    <3>1. port[t] \in Nat
      BY DEF Others, Port
    <3>2. c.from # Stranger
      BY <1>7, <3>1, TransferAssumption DEF Admits
    <3> QED BY <2>1, <3>2 DEF Matched, Ports
  <2>4. PICK w \in Transfer : c = Call(w)
    BY <1>2, <2>3 DEF Matched, Arriving
  <2>5. Called(w) /\ c.for = w
    <3>1. 1 \in DOMAIN backlog /\ backlog[1] = Call(w)
      BY <1>2, <2>4
    <3>2. Called(w)
      BY <3>1 DEF Called
    <3>3. c.for = w
      BY <2>4 DEF Call
    <3> QED BY <3>2, <3>3
  <2>6. t \in anyPort \/ Excused \/ w = t \/ (~Ahead(w, t) /\ port[w] = port[t])
    <3> SUFFICES ASSUME t \in Transfer \ anyPort, ~Excused, w # t
                 PROVE  ~Ahead(w, t) /\ port[w] = port[t]
      OBVIOUS
    <3>1. Admits(t, c) /\ (Admits(w, c) => ~Before(entries, w, t)) /\ server # "FREED"
      BY <1>0, <1>7
    <3>2. Ports /\ Arriving /\ InTurn /\ Awaiting
      BY DEF Matched
    <3>3. w # t /\ t \in Transfer \ anyPort /\ w \in Transfer /\ c = Call(w) /\ Called(w)
      BY <2>4, <2>5
    <3> QED BY <3>1, <3>2, <3>3, NotAhead
  <2>7. Ahead(w, t) <=> /\ w # t /\ port[w] = port[t]
                        /\ Live(t) \/ \E j \in DOMAIN backlog : 1 < j /\ backlog[j] = Call(t)
    <3>1. 1 \in DOMAIN backlog /\ backlog[1] = Call(w)
      BY <1>2, <2>4
    <3>2. ASSUME NEW i \in DOMAIN backlog, backlog[i] = Call(w) PROVE i = 1
      <4>1. \A j, k \in DOMAIN backlog : backlog[j] = Call(w) /\ backlog[k] = Call(w) => j = k
        BY DEF Matched, Arriving
      <4> QED BY <3>1, <3>2, <4>1
    <3> QED BY <3>1, <3>2 DEF Ahead
  <2>8. Owned'
    <3>1. t \in anyPort \/ Excused \/ act[t] = "ABORTED" \/ c.for = t
      <4>1. act[t] = "ABORTED" \/ Live(t)
        BY <2>3 DEF Others, Live
      <4> QED BY <2>5, <2>6, <2>7, <4>1
    <3>2. Excused' <=> Excused
      BY DEF Excused
    <3> QED BY <2>1, <2>3, <3>1, <3>2 DEF Matched, Owned
  <2>9. Awaiting'
    <3> SUFFICES ASSUME ~Excused, NEW u \in Transfer \ anyPort,
                        (lst[u] = "READY" /\ act[u] = "BOUND") \/ Called(u)'
                 PROVE  entry'[u] = "RESOLVED"
      BY DEF Awaiting, Excused
    <3>1. entry[u] = "RESOLVED"
      BY <1>0, <2>2 DEF Matched, Awaiting
    <3>2. CASE u # t
      BY <2>1, <3>1, <3>2
    <3>3. ASSUME u = t, w = t PROVE FALSE
      <4>1. act[t] # "BOUND"
        BY <2>5, <3>3 DEF Matched, Arriving
      <4>2. PICK i \in 1 .. n - 1 : backlog'[i] = Call(t)'
        BY <1>2, <3>3, <4>1 DEF Called
      <4>3. backlog[i + 1] = Call(t) /\ i + 1 \in DOMAIN backlog /\ 1 \in DOMAIN backlog
        BY <1>2, <4>2 DEF Call
      <4>4. i + 1 = 1
        BY <1>2, <2>4, <3>3, <4>3 DEF Matched, Arriving
      <4> QED BY <4>4
    <3>4. ASSUME u = t, w # t PROVE FALSE
      <4>1. ~Live(t) /\ ~ \E j \in DOMAIN backlog : 1 < j /\ backlog[j] = Call(t)
        BY <2>6, <2>7, <3>4
      <4>2. PICK i \in 1 .. n - 1 : backlog'[i] = Call(t)'
        BY <1>2, <3>4, <4>1 DEF Called, Live
      <4>3. backlog[i + 1] = Call(t) /\ i + 1 \in DOMAIN backlog /\ 1 < i + 1
        BY <1>2, <4>2 DEF Call
      <4> QED BY <4>1, <4>3
    <3> QED BY <3>2, <3>3, <3>4
  <2> QED BY <2>2, <2>8, <2>9 DEF Matched
<1> QED BY <1>6, <1>7, HandleConTakesFirst DEF c

\* Steps that give nobody a connection: the queue stays as it is or is reset.
LEMMA RestMatched ==
    ASSUME Inv, Others, Matched, UNCHANGED <<anyPort, con, port>>,
           \A t \in Transfer : act'[t] = act[t] \/ (act[t] # "UNBOUND" /\ act'[t] = "ABORTED"),
           \A t \in Transfer : lst'[t] # "SETUP" \/ lst[t] = "SETUP",
           \A t \in Transfer :
              lst'[t] \in {"RESOLVE_ACCEPT", "READY"} => lst[t] \in {"RESOLVE_ACCEPT", "READY"},
           \A t \in Transfer : entry'[t] # "NONE" => entry[t] # "NONE",
           \A w, t \in Transfer : Before(entries, w, t) => Before(entries', w, t),
           backlog' = backlog \/ backlog' = <<>>,
           server = "FREED" => server' = "FREED",
           server # "FREED" /\ server' # "FREED" =>
               \A t \in Transfer :
                  /\ entry[t] = "RESOLVED" => entry'[t] = "RESOLVED"
                  /\ lst'[t] = "READY" => lst[t] = "READY" \/ entry[t] = "RESOLVED"
    PROVE  Matched'
<1>1. DOMAIN backlog \subseteq Nat
  BY LenProperties DEF Others
<1>2. ASSUME NEW i \in DOMAIN backlog'
      PROVE  i \in Nat /\ i + 0 \in DOMAIN backlog /\ backlog'[i] = backlog[i + 0]
  <2>1. backlog' = backlog
    BY <1>2
  <2>2. i \in Nat
    BY <1>1, <2>1
  <2>3. i + 0 = i
    BY <2>2
  <2> QED BY <2>1, <2>2, <2>3
<1>3. /\ Ports' /\ Arriving' /\ InTurn'
      /\ \A t \in Transfer : Called(t)' => Called(t)
  <2>1. 0 \in Nat /\ port' = port
    OBVIOUS
  <2> QED BY <1>1, <1>2, <2>1, QueuesShrink DEF Matched
<1>4. anyPort \subseteq Transfer
  BY TransferAssumption DEF Others
<1>5. Awaiting' /\ Owned'
  BY <1>3, <1>4, NobodyServed DEF Matched
<1> QED BY <1>3, <1>5 DEF Matched

LEMMA CollectMatched ==
    ASSUME Inv, Kept, Others, Matched, Collect
    PROVE  Matched'
<1>1. /\ UNCHANGED <<anyPort, con, port, act, lst, backlog>>
      /\ server' = IF server = "DELETE" THEN "FREED" ELSE server
      /\ entry' = [t \in Transfer |->
                     IF server = "DELETE" \/ entry[t] = "DELETE" THEN "NONE" ELSE entry[t]]
  BY DEF Collect, peers
<1>2. \A w, t \in Transfer : Before(entries, w, t) => Before(entries', w, t)
  <2>1. CASE server = "DELETE"
    <3>1. entries' = <<>>
      BY <2>1, EmptyIsList DEF Collect, entries
    <3> QED BY <3>1 DEF Before
  <2>2. CASE server # "DELETE"
    <3> DEFINE dead == {t \in Transfer : entry[t] = "DELETE"}
    <3>1. accept_addresses' = RemAll(accept_addresses, dead)
      BY <2>2 DEF Collect
    <3>2. IsList(accept_addresses) /\ IsInjective(Values(accept_addresses))
      BY DEF Kept, entries
    <3> HIDE DEF dead
    <3> QED BY <3>1, <3>2, RemAllKeeps DEF entries
  <2> QED BY <2>1, <2>2
<1> QED BY <1>1, <1>2, RestMatched

LEMMA TransfersMatched ==
    ASSUME Inv, Others, Matched, Transfers
    PROVE  Matched'
<1>1. UNCHANGED <<anyPort, con, port, act, accept_addresses, server, backlog>>
  BY DEF Transfers, peers, serverVars
<1>2. PICK seen \in [Transfer -> {"RESOLVE_IP", "RESOLVED", "ERROR"}] :
         /\ \A t \in Transfer :
              IF lst[t] # "RESOLVE_ACCEPT" THEN seen[t] = "RESOLVE_IP"
              ELSE server # "FREED" => seen[t] = entry[t]
         /\ entry' = [t \in Transfer |->
                        IF (lst[t] = "RESOLVE_ACCEPT" /\ seen[t] = "ERROR") /\ server # "FREED"
                        THEN "DELETE" ELSE entry[t]]
         /\ lst' = [t \in Transfer |->
                      IF lst[t] = "RESOLVE_ACCEPT" /\ seen[t] = "ERROR" THEN "ABORTED"
                      ELSE IF lst[t] = "RESOLVE_ACCEPT" /\ seen[t] = "RESOLVED" THEN "READY"
                      ELSE lst[t]]
  BY DEF Transfers
<1>3. entries' = entries
  BY <1>1 DEF entries
<1>4. \A t \in Transfer :
        /\ lst'[t] # "SETUP" \/ lst[t] = "SETUP"
        /\ lst'[t] \in {"RESOLVE_ACCEPT", "READY"} => lst[t] \in {"RESOLVE_ACCEPT", "READY"}
        /\ entry'[t] # "NONE" => entry[t] # "NONE"
        /\ server # "FREED" =>
              /\ entry[t] = "RESOLVED" => entry'[t] = "RESOLVED"
              /\ lst'[t] = "READY" => lst[t] = "READY" \/ entry[t] = "RESOLVED"
  BY <1>2
<1> QED BY <1>1, <1>3, <1>4, RestMatched

\* The entry is the last of the list, and its transfer has not dialled.
LEMMA SetupAcceptMatched ==
    ASSUME Inv, Kept, Others, Matched, NEW t \in Transfer, SetupAccept(t)
    PROVE  Matched'
<1>1. /\ lst[t] = "SETUP" /\ lst' = [lst EXCEPT ![t] = "RESOLVE_ACCEPT"] /\ port[t] # 0
      /\ entry' = [entry EXCEPT ![t] = "RESOLVE_IP"]
      /\ accept_addresses' = Add(accept_addresses, t)
      /\ UNCHANGED <<anyPort, con, port, act, backlog, server>>
  BY DEF SetupAccept, peers, serverVars
<1>2. \A u \in Transfer : /\ Call(u)' = Call(u) /\ Called(u)' = Called(u) /\ Live(u)' = Live(u)
                          /\ \A w \in Transfer : Ahead(w, u)' = Ahead(w, u)
  BY <1>1 DEF Call, Called, Live, Ahead
<1>3. ~Called(t)
  BY <1>1 DEF Matched, Arriving
<1>4. \A u \in Transfer \ {t} : lst'[u] = lst[u] /\ entry'[u] = entry[u]
  BY <1>1 DEF Inv, Fields
<1>5. lst'[t] = "RESOLVE_ACCEPT"
  BY <1>1 DEF Inv, Fields
<1>6. Ports'
  BY <1>1, <1>2, <1>4 DEF Matched, Ports
<1>7. Arriving'
  BY <1>1, <1>2, <1>4, <1>5 DEF Matched, Arriving
<1>8. ASSUME NEW w \in Transfer, NEW u \in Transfer, w # t, Before(entries, w, u)
      PROVE  Before(entries', w, u)
  <2> DEFINE n == GetSize(accept_addresses)
  <2>1. IsList(accept_addresses)
    BY DEF Kept
  <2>2. n \in Nat /\ DOMAIN entries = 1 .. n
    BY <2>1, ListFacts DEF entries
  <2>3. /\ entries' = [k \in 1 .. n + 1 |-> entries'[k]]
        /\ \A k \in 1 .. n + 1 : entries'[k] = IF k <= n THEN entries[k] ELSE t
    BY <1>1, <2>1, AddIsList DEF entries
  <2> HIDE DEF n
  <2>4. DOMAIN entries' = 1 .. n + 1
    BY <2>3
  <2> SUFFICES ASSUME NEW j \in 1 .. n + 1, NEW k \in 1 .. n + 1, entries'[j] = w, entries'[k] = u
               PROVE  j < k
    BY <2>4 DEF Before
  <2>5. j \in 1 .. n /\ entries[j] = w
    BY <1>8, <2>2, <2>3
  <2>6. CASE k <= n
    <3>1. k \in 1 .. n /\ entries[k] = u
      BY <2>2, <2>3, <2>6
    <3> QED BY <1>8, <2>2, <2>5, <3>1 DEF Before
  <2> QED BY <2>2, <2>5, <2>6
<1>9. InTurn'
  <2> SUFFICES ASSUME NEW w \in Transfer, NEW u \in Transfer, Ahead(w, u)
               PROVE  act[w] = "ABORTED" /\ Before(entries', w, u)
    BY <1>1, <1>2 DEF InTurn
  <2>1. w # t
    BY <1>3 DEF Ahead, Called
  <2> QED BY <1>8, <2>1 DEF Matched, InTurn
<1>10. Awaiting'
  BY <1>1, <1>2, <1>3, <1>4, <1>5 DEF Matched, Awaiting, Excused
<1>11. Owned'
  BY <1>1 DEF Matched, Owned, Excused
<1> QED BY <1>6, <1>7, <1>9, <1>10, <1>11 DEF Matched

\* The port is no live transfer's: connections that wait and were made from it
\* are those of aborted ones, and their entries were added before.
LEMMA BindMatched ==
    ASSUME Inv, Kept, Others, Matched, NEW t \in Transfer, Bind(t)
    PROVE  Matched'
<1> DEFINE p == port'[t]
<1>1. /\ act[t] = "UNBOUND" /\ act' = [act EXCEPT ![t] = "BOUND"]
      /\ UNCHANGED <<anyPort, con, lst, backlog, server, entry, accept_addresses>>
  BY DEF Bind, serverVars
<1>2. port' = [port EXCEPT ![t] = p] /\ p \in Port /\ \A u \in Transfer : Live(u) => port[u] # p
  <2> DEFINE bound == {v \in Transfer : act[v] \in {"BOUND", "DIALLED"}}
             used == {port[u] : u \in bound}
  <2>1. port' = [port EXCEPT ![t] = Min(Port \ used)]
    BY DEF Bind
  <2>2. Min(Port \ used) \in Port
    <3>1. bound \in SUBSET Transfer /\ t \in Transfer \ bound /\ used = {port[u] : u \in bound}
      BY <1>1
    <3> HIDE DEF bound, used
    <3> QED BY <3>1, PortIsFree
  <2>3. Min(Port \ used) \notin used
    <3>1. Port \ used \in SUBSET Nat
      BY DEF Port
    <3>2. Port \ used # {}
      <4>1. bound \in SUBSET Transfer /\ t \in Transfer \ bound /\ used = {port[u] : u \in bound}
        BY <1>1
      <4> HIDE DEF bound, used
      <4> QED BY <4>1, SomePortIsFree
    <3> HIDE DEF used
    <3> QED BY <3>1, <3>2, MinIsIn
  <2>4. p = Min(Port \ used)
    BY <2>1 DEF Others
  <2> HIDE DEF p
  <2>5. \A u \in Transfer : Live(u) => port[u] \in used
    BY DEF Live
  <2> HIDE DEF used
  <2> QED BY <2>1, <2>2, <2>3, <2>4, <2>5
<1> HIDE DEF p
<1>3. p # 0 /\ p # Stranger
  BY <1>2, TransferAssumption DEF Port
<1>4. port[t] = 0 /\ ~Called(t) /\ entry[t] = "NONE" /\ lst[t] \notin {"RESOLVE_ACCEPT", "READY"}
  BY <1>1 DEF Matched, Ports, Arriving
<1>5. /\ port'[t] = p /\ act'[t] = "BOUND" /\ Live(t)'
      /\ \A u \in Transfer \ {t} : /\ port'[u] = port[u] /\ act'[u] = act[u] /\ Call(u)' = Call(u)
                                   /\ Live(u)' = Live(u) /\ Called(u)' = Called(u)
  BY <1>1, <1>2 DEF Others, Live, Call, Called
<1>6. \A i \in DOMAIN backlog : backlog[i] # Call(t)'
  <2> SUFFICES ASSUME NEW i \in DOMAIN backlog, backlog[i] = Call(t)' PROVE FALSE
    OBVIOUS
  <2>1. backlog[i].from = p /\ backlog[i].for = t
    BY <1>5 DEF Call
  <2>2. PICK u \in Transfer : backlog[i] = Call(u)
    BY <1>3, <2>1 DEF Matched, Arriving
  <2>3. u = t
    BY <2>1, <2>2 DEF Call
  <2> QED BY <1>4, <2>2, <2>3 DEF Called
<1>7. ~Called(t)'
  BY <1>1, <1>6 DEF Called
<1>8. Ports'
  <2>1. \A u \in Transfer : act'[u] = "UNBOUND" => port'[u] = 0
    BY <1>5 DEF Matched, Ports
  <2>2. \A u, w \in Transfer : Live(u)' /\ Live(w)' /\ port'[u] = port'[w] => u = w
    BY <1>2, <1>5 DEF Matched, Ports
  <2>3. \A u \in Transfer :
          entry'[u] # "NONE" \/ lst'[u] \in {"RESOLVE_ACCEPT", "READY"} => port'[u] # 0
    BY <1>1, <1>3, <1>5 DEF Matched, Ports
  <2> QED BY <2>1, <2>2, <2>3 DEF Ports
<1>9. Arriving'
  <2>1. ASSUME NEW i \in DOMAIN backlog
        PROVE  backlog[i].from = Stranger \/ \E u \in Transfer : backlog[i] = Call(u)'
    <3>1. \A u \in Transfer : backlog[i] = Call(u) => u # t
      BY <1>4 DEF Called
    <3> QED BY <1>5, <3>1 DEF Matched, Arriving
  <2>2. \A u \in Transfer : Called(u)' => act'[u] \in {"DIALLED", "ABORTED"} /\ lst'[u] # "SETUP"
    BY <1>1, <1>5, <1>7 DEF Matched, Arriving
  <2>3. \A u \in Transfer, i, j \in DOMAIN backlog :
           backlog[i] = Call(u)' /\ backlog[j] = Call(u)' => i = j
    BY <1>5, <1>6 DEF Matched, Arriving
  <2> QED BY <1>1, <2>1, <2>2, <2>3 DEF Arriving
<1>10. InTurn'
  <2> SUFFICES ASSUME NEW w \in Transfer, NEW u \in Transfer, Ahead(w, u)'
               PROVE  act'[w] = "ABORTED" /\ Before(entries, w, u)
    BY <1>1 DEF InTurn, entries
  <2>1. PICK i \in DOMAIN backlog :
           /\ backlog[i] = Call(w)'
           /\ Live(u)' \/ \E j \in DOMAIN backlog : i < j /\ backlog[j] = Call(u)'
    BY <1>1 DEF Ahead
  <2>2. w # t /\ w # u /\ port'[w] = port'[u]
    BY <1>6, <2>1 DEF Ahead
  <2>3. CASE u = t
    <3>1. port[w] = p /\ Called(w)
      BY <1>5, <2>1, <2>2, <2>3 DEF Called
    <3>2. act[w] = "ABORTED"
      BY <1>2, <3>1 DEF Matched, Arriving, Live
    <3>3. t \notin ToSet(entries)
      BY <1>4 DEF Kept
    <3>4. Before(entries, w, t)
      BY <3>3 DEF Before, ToSet
    <3> QED BY <1>5, <2>2, <2>3, <3>2, <3>4
  <2>4. CASE u # t
    <3>1. Ahead(w, u)
      BY <1>5, <2>1, <2>2, <2>4 DEF Ahead
    <3> QED BY <1>5, <2>2, <3>1 DEF Matched, InTurn
  <2> QED BY <2>3, <2>4
<1>11. Excused' <=> Excused
  <2>1. anyPort \subseteq Transfer
    BY TransferAssumption DEF Others
  <2> QED BY <1>1, <1>5, <2>1 DEF Excused
<1>12. Awaiting'
  BY <1>1, <1>4, <1>5, <1>7, <1>11 DEF Matched, Awaiting
<1>13. Owned'
  BY <1>1, <1>5, <1>11 DEF Matched, Owned
<1> QED BY <1>8, <1>9, <1>10, <1>12, <1>13 DEF Matched

\* A connection joins the queue: who is ahead of whom does not change, because
\* nobody else is bound to the port of an end that dials.
LEMMA JoinMatched ==
    ASSUME Inv, Others, Matched,
           UNCHANGED <<anyPort, con, port, lst, accept_addresses, server, entry>>,
           NEW c, backlog' = Append(backlog, c),
           \/ c = [from |-> Stranger, for |-> Stranger] /\ act' = act
           \/ \E t \in Transfer : /\ c = Call(t) /\ act[t] = "BOUND" /\ lst[t] = "READY"
                                  /\ act' = [act EXCEPT ![t] = "DIALLED"]
    PROVE  Matched'
<1>1. PICK n \in Nat : n = Len(backlog)
  BY LenProperties DEF Others
<1>2. c.from = Stranger \/ \E t \in Transfer : c = Call(t) /\ act[t] = "BOUND"
  BY DEF Call
<1>3. c \in Connection
  <2>1. CASE c = [from |-> Stranger, for |-> Stranger]
    BY <2>1 DEF Connection
  <2>2. ASSUME NEW t \in Transfer, c = Call(t), act[t] = "BOUND" PROVE c \in Connection
    <3>1. port[t] \in Port
      BY <2>2 DEF Others
    <3> QED BY <2>2, <3>1 DEF Connection, Call
  <2> QED BY <2>1, <2>2
<1>4. /\ DOMAIN backlog = 1 .. n /\ DOMAIN backlog' = 1 .. n + 1
      /\ \A i \in 1 .. n : backlog'[i] = backlog[i]
      /\ backlog'[n + 1] = c
  <2>1. backlog \in Seq(Connection)
    BY DEF Others
  <2>2. backlog' \in Seq(Connection) /\ Len(backlog') = n + 1
    BY <1>1, <1>3, <2>1, AppendProperties
  <2> QED BY <1>1, <1>3, <2>1, <2>2, AppendProperties, LenProperties
<1>5. \A u \in Transfer : Call(u)' = Call(u) /\ Call(u).from # Stranger
  <2>1. \A u \in Transfer : port[u] \in Nat
    BY DEF Others, Port
  <2> QED BY <2>1, TransferAssumption DEF Call
<1>6. \A u \in Transfer : /\ Live(u)' = Live(u)
                          /\ act'[u] = act[u] \/ (c = Call(u) /\ act[u] = "BOUND" /\ act'[u] = "DIALLED")
  BY DEF Live, Others
<1>7. \A u \in Transfer : c = Call(u) => act[u] = "BOUND" /\ act'[u] = "DIALLED" /\ lst[u] = "READY"
  <2>1. \A t, u \in Transfer : Call(t) = Call(u) => t = u
    BY DEF Call
  <2> QED BY <1>5, <2>1 DEF Others
<1>8. \A u \in Transfer : c = Call(u) => ~Called(u)
  BY <1>7 DEF Matched, Arriving
<1>9. \A u \in Transfer : Called(u)' <=> Called(u) \/ c = Call(u)
  <2>1. n + 1 \in 1 .. n + 1
    BY <1>1
  <2>2. \A i \in 1 .. n : i \in 1 .. n + 1
    BY <1>1
  <2>3. \A i \in 1 .. n + 1 : i \in 1 .. n \/ i = n + 1
    BY <1>1
  <2> QED BY <1>4, <1>5, <2>1, <2>2, <2>3 DEF Called
<1>10. Ports'
  BY <1>6 DEF Matched, Ports
<1>11. Arriving'
  <2>1. ASSUME NEW i \in 1 .. n + 1
        PROVE  backlog'[i].from = Stranger \/ \E t \in Transfer : backlog'[i] = Call(t)'
    <3>1. CASE i \in 1 .. n
      BY <1>4, <1>5, <3>1 DEF Matched, Arriving
    <3>2. CASE i = n + 1
      BY <1>2, <1>4, <1>5, <3>2
    <3> QED BY <1>1, <3>1, <3>2
  <2>2. ASSUME NEW u \in Transfer, Called(u)'
        PROVE  act'[u] \in {"DIALLED", "ABORTED"} /\ lst'[u] # "SETUP"
    BY <1>6, <1>7, <1>9, <2>2 DEF Matched, Arriving
  <2>3. ASSUME NEW u \in Transfer, NEW i \in 1 .. n + 1, NEW j \in 1 .. n + 1,
               backlog'[i] = Call(u), backlog'[j] = Call(u)
        PROVE  i = j
    <3>1. \A k \in 1 .. n : backlog[k] = Call(u) => Called(u)
      BY <1>4 DEF Called
    <3>2. (i \in 1 .. n \/ i = n + 1) /\ (j \in 1 .. n \/ j = n + 1)
      BY <1>1
    <3>3. CASE i \in 1 .. n /\ j \in 1 .. n
      BY <1>4, <2>3, <3>3 DEF Matched, Arriving
    <3>4. CASE i = n + 1 \/ j = n + 1
      BY <1>4, <1>8, <2>3, <3>1, <3>2, <3>4
    <3> QED BY <3>2, <3>3, <3>4
  <2> QED BY <1>4, <1>5, <2>1, <2>2, <2>3 DEF Arriving
<1>12. ASSUME NEW w \in Transfer, NEW u \in Transfer, Ahead(w, u)'
       PROVE  Ahead(w, u)
  <2>1. w # u /\ port[w] = port[u]
    BY <1>12 DEF Ahead
  <2>2. PICK i \in 1 .. n + 1 :
           /\ backlog'[i] = Call(w)
           /\ Live(u) \/ \E j \in 1 .. n + 1 : i < j /\ backlog'[j] = Call(u)
    BY <1>4, <1>5, <1>6, <1>12 DEF Ahead
  <2>3. i # n + 1
    <3> SUFFICES ASSUME i = n + 1 PROVE FALSE
      OBVIOUS
    <3>1. Live(w)
      BY <1>4, <1>7, <2>2 DEF Live
    <3>2. \A j \in 1 .. n + 1 : ~ (i < j)
      BY <1>1
    <3>3. Live(u)
      BY <2>2, <3>2
    <3> QED BY <2>1, <3>1, <3>3 DEF Matched, Ports
  <2>4. i \in 1 .. n /\ backlog[i] = Call(w)
    BY <1>1, <1>4, <2>2, <2>3
  <2>5. Live(u) \/ \E j \in 1 .. n : i < j /\ backlog[j] = Call(u)
    <3>1. ASSUME NEW j \in 1 .. n + 1, i < j, backlog'[j] = Call(u)
          PROVE  Live(u) \/ (j \in 1 .. n /\ backlog[j] = Call(u))
      <4>1. CASE j = n + 1
        BY <1>4, <1>7, <3>1, <4>1 DEF Live
      <4>2. CASE j # n + 1
        BY <1>1, <1>4, <3>1, <4>2
      <4> QED BY <4>1, <4>2
    <3> QED BY <2>2, <3>1
  <2> QED BY <1>4, <2>1, <2>4, <2>5 DEF Ahead
<1>13. InTurn'
  <2> SUFFICES ASSUME NEW w \in Transfer, NEW u \in Transfer, Ahead(w, u)
               PROVE  act'[w] = "ABORTED" /\ Before(entries, w, u)
    BY <1>12 DEF InTurn, entries
  <2>1. act[w] = "ABORTED" /\ Before(entries, w, u)
    BY DEF Matched, InTurn
  <2> QED BY <1>6, <2>1
<1>14. anyPort \subseteq Transfer
  BY TransferAssumption DEF Others
<1>15. Excused' <=> Excused
  BY <1>6, <1>14 DEF Excused
<1>16. Awaiting'
  BY <1>6, <1>7, <1>9, <1>15 DEF Matched, Awaiting
<1>17. Owned'
  BY <1>6, <1>15 DEF Matched, Owned
<1> QED BY <1>10, <1>11, <1>13, <1>16, <1>17 DEF Matched

\* A connection that is refused, because the server does not listen.
LEMMA RefusedMatched ==
    ASSUME Inv, Others, Matched, NEW t \in Transfer,
           UNCHANGED <<anyPort, con, port, lst, accept_addresses, server, entry, backlog>>,
           act[t] = "BOUND", act' = [act EXCEPT ![t] = "DIALLED"]
    PROVE  Matched'
<1>1. \A u \in Transfer : /\ Live(u)' = Live(u) /\ Call(u)' = Call(u) /\ Called(u)' = Called(u)
                          /\ act'[u] = act[u] \/ (act[u] = "BOUND" /\ act'[u] = "DIALLED")
                          /\ \A w \in Transfer : Ahead(w, u)' = Ahead(w, u)
  BY DEF Live, Call, Called, Ahead, Others
<1>2. anyPort \subseteq Transfer
  BY TransferAssumption DEF Others
<1>3. Excused' <=> Excused
  BY <1>1, <1>2 DEF Excused
<1>4. Ports'
  BY <1>1 DEF Matched, Ports
<1>5. Arriving'
  BY <1>1 DEF Matched, Arriving
<1>6. InTurn'
  <2> SUFFICES ASSUME NEW w \in Transfer, NEW u \in Transfer, Ahead(w, u)
               PROVE  act'[w] = "ABORTED" /\ Before(entries, w, u)
    BY <1>1 DEF InTurn, entries
  <2>1. act[w] = "ABORTED" /\ Before(entries, w, u)
    BY DEF Matched, InTurn
  <2> QED BY <1>1, <2>1
<1>7. Awaiting' /\ Owned'
  BY <1>1, <1>3 DEF Matched, Awaiting, Owned
<1> QED BY <1>4, <1>5, <1>6, <1>7 DEF Matched

LEMMA DialMatched ==
    ASSUME Inv, Others, Matched, NEW t \in Transfer, Dial(t)
    PROVE  Matched'
<1>1. /\ act[t] = "BOUND" /\ lst[t] = "READY" /\ act' = [act EXCEPT ![t] = "DIALLED"]
      /\ backlog' = Append(backlog, Call(t)) \/ backlog' = backlog
      /\ UNCHANGED <<anyPort, con, port, lst, accept_addresses, server, entry>>
  BY DEF Dial, Call, serverVars
<1>2. CASE backlog' = backlog
  BY <1>1, <1>2, RefusedMatched
<1>3. CASE backlog' = Append(backlog, Call(t))
  <2> DEFINE c == Call(t)
  <2>1. c = Call(t) /\ backlog' = Append(backlog, c)
    BY <1>3
  <2> HIDE DEF c
  <2> QED BY <1>1, <2>1, JoinMatched
<1> QED BY <1>1, <1>2, <1>3

LEMMA StrangerMatched ==
    ASSUME Inv, Others, Matched, DialStranger
    PROVE  Matched'
  BY JoinMatched DEF DialStranger, serverVars, peers

LEMMA NextMatched ==
    ASSUME Inv, Kept, Others, Matched, [Next]_vars
    PROVE  Matched'
<1>1. CASE Servers
  <2>1. UNCHANGED <<anyPort, act, port, lst, accept_addresses>>
    BY <1>1 DEF Servers, peers
  <2>2. CASE ~HandleCon
    <3>1. /\ UNCHANGED <<con, entry, backlog>>
          /\ server = "FREED" => server' = "FREED"
      BY <1>1, <2>2 DEF Servers, Restarted
    <3>2. entries' = entries
      BY <2>1 DEF entries
    <3> QED BY <2>1, <3>1, <3>2, RestMatched
  <2> QED BY <2>1, <2>2, HandleConMatched
<1>2. CASE Accepts
  <2>1. UNCHANGED <<anyPort, con, act, port, lst, accept_addresses, backlog, server>>
    BY <1>2 DEF Accepts, peers, serverVars
  <2>2. entries' = entries
    BY <2>1 DEF entries
  <2>3. \A t \in Transfer : entry'[t] = entry[t] \/ (entry[t] = "RESOLVE_IP" /\ entry'[t] # "NONE")
    BY <1>2 DEF Accepts, Inv, Fields
  <2> QED BY <2>1, <2>2, <2>3, RestMatched
<1>3. ASSUME NEW t \in Transfer, AbortPassive(t) PROVE Matched'
  <2>1. /\ UNCHANGED <<anyPort, con, act, port, entry, accept_addresses, backlog, server>>
        /\ \A u \in Transfer : lst'[u] = lst[u] \/ lst'[u] = "ABORTED"
    BY <1>3 DEF AbortPassive, Inv, Fields, peers, serverVars
  <2>2. entries' = entries
    BY <2>1 DEF entries
  <2> QED BY <2>1, <2>2, RestMatched
<1>4. ASSUME NEW t \in Transfer, AbortActive(t) PROVE Matched'
  <2>1. /\ UNCHANGED <<anyPort, con, lst, port, entry, accept_addresses, backlog, server>>
        /\ \A u \in Transfer : act'[u] = act[u] \/ (act[u] # "UNBOUND" /\ act'[u] = "ABORTED")
    BY <1>4 DEF AbortActive, Others, serverVars
  <2>2. entries' = entries
    BY <2>1 DEF entries
  <2> QED BY <2>1, <2>2, RestMatched
<1>5. CASE \/ StopServer \/ RestartServer \/ BeginRestart \/ FinishRestart \/ UNCHANGED vars
           \/ \E t \in Transfer : ResolveAccept(t)
  <2>1. /\ UNCHANGED <<anyPort, con, act, lst, port, entry, accept_addresses>>
        /\ backlog' = backlog \/ backlog' = <<>>
        /\ server = "FREED" => server' = "FREED"
    BY <1>5 DEF StopServer, RestartServer, BeginRestart, FinishRestart, ResolveAccept, vars,
       peers, serverVars
  <2>2. entries' = entries
    BY <2>1 DEF entries
  <2> QED BY <2>1, <2>2, RestMatched
<1> QED BY <1>1, <1>2, <1>3, <1>4, <1>5, CollectMatched, TransfersMatched, SetupAcceptMatched,
        BindMatched, DialMatched, StrangerMatched DEF Next, Tick, Listener, Peer

-----------------------------------------------------------------------------
(* The theorems.                                                           *)

THEOREM Invariance == Spec => []Inv
<1> QED BY InitInv, NextInv, PTL DEF Spec

THEOREM KeptInvariance == Spec => []Kept
<1>1. Inv /\ Kept /\ [Next]_vars => Kept'
  BY NextKept
<1> QED BY <1>1, InitKept, Invariance, PTL DEF Spec

\* Every variable has its type: the port that an end binds is always one of
\* the ports, a connection is always somebody's, the list holds transfers.
THEOREM TypeCorrect == Spec => []TypeOK
<1>1. Inv /\ Others /\ Kept => TypeOK
  <2> SUFFICES ASSUME Inv, Others, Kept PROVE TypeOK
    OBVIOUS
  <2>1. ToSet(entries) \subseteq Transfer /\ entries = [k \in DOMAIN entries |-> entries[k]]
    BY DEF Kept, entries, Values
  <2>2. entries \in Seq(Transfer)
    <3>1. GetSize(accept_addresses) \in Nat /\ DOMAIN entries = 1 .. GetSize(accept_addresses)
      BY ListFacts DEF Kept, entries
    <3>2. \A k \in 1 .. GetSize(accept_addresses) : entries[k] \in Transfer
      BY <2>1, <3>1 DEF ToSet
    <3> QED BY <2>1, <3>1, <3>2, SeqDef
  <2> QED BY <2>2 DEF TypeOK, Inv, Fields, Others
<1>2. Others /\ [Next]_vars => Others'
  BY NextOthers
<1> QED BY <1>1, <1>2, InitOthers, Invariance, KeptInvariance, PTL DEF Spec

\* The list of accept entries stays whole whatever is added and collected, in
\* whichever order, and never has two items for one transfer.
THEOREM ListKeptHolds == Spec => []ListKept
<1>1. Kept => ListKept
  BY ListFacts DEF Kept, ListKept
<1> QED BY <1>1, KeptInvariance, PTL

\* A connection that a transfer got was made for it, whatever ports are taken
\* again, entries left behind and mishaps there are, for any number of transfers.
THEOREM OwnConnectionHolds == Spec => []OwnConnection
<1>1. Matched => OwnConnection
  BY DEF Matched, Owned, Excused, OwnConnection
<1>2. Inv /\ Kept /\ Others /\ Matched /\ [Next]_vars => Matched'
  BY NextMatched
<1>3. Others /\ [Next]_vars => Others'
  BY NextOthers
<1> QED BY <1>1, <1>2, <1>3, InitMatched, InitOthers, Invariance, KeptInvariance, PTL DEF Spec

\* A transfer that waits for its entry never reads a freed one, however many
\* transfers there are and however users, threads and connections interleave,
\* unless the server was stopped and removed for good.
THEOREM EntryKeptHolds == Spec => []EntryKept
<1>1. Inv => EntryKept
  BY DEF Inv, StoppedBefore, EntryAwaited, Awaited, EntryKept
<1> QED BY <1>1, Invariance, PTL

\* No transfer is given a second connection.
THEOREM AdmittedOnceHolds == Spec => AdmittedOnce
<1>1. ASSUME Inv, [Next]_vars, NEW t \in Transfer, con[t] # None
      PROVE  con'[t] = con[t]
  <2>1. entry[t] # "RESOLVED"
    BY <1>1 DEF Inv, Spent
  <2>2. CASE HandleCon
    <3>1. CASE \E u \in Transfer : Admits(u, Head(backlog)) /\ Take(u, Head(backlog))
      BY <1>1, <2>1, <3>1 DEF Admits, Take, Inv, Fields
    <3> QED BY <2>2, <3>1, HandleConTakes
  <2>3. CASE con' = con
    BY <2>3
  <2> QED BY <1>1, <2>2, <2>3 DEF Next, Tick, Collect, Servers, Restarted, Accepts,
             Transfers, StopServer, RestartServer, BeginRestart, FinishRestart,
             DialStranger, ResolveAccept, Listener, SetupAccept, AbortPassive, Peer,
             Bind, Dial, AbortActive, vars
<1>2. Inv /\ [Next]_vars => [\A t \in Transfer : con[t] # None => con'[t] = con[t]]_vars
  BY <1>1
<1> QED BY <1>2, Invariance, PTL DEF Spec, AdmittedOnce

=============================================================================
