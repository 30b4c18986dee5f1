# A verification project for sdispatch

sdispatch is a peer-to-peer file dispatcher written in C: a GTK program that
listens for other copies of itself, keeps one *control connection* per peer, and
moves each file over a *data connection* of its own. This directory holds TLA+
modules translated from its source, TLC configurations that check them on small
instances, and TLAPS proofs of what matters most for any number of transfers, of any
size: the negotiation of a transfer, the bytes of its file, the connections it runs on
and the lists all of it is kept in. Paths below are relative to the repository: `src/sd_net.c` is the
file `sd_net.c` of its `src` directory.

Run everything from this directory:

    tlc -config MCNegotiation.cfg MCNegotiation     # any run of the table below
    tlapm NegotiationProofs.tla                     # the proofs

## 1. Inventory

### How the program runs

One thread runs everything that matters: the GTK main loop. It calls `ui_idle`
(`src/sd_idle.c`) every tick, which sleeps about 15 ms, then goes through peers,
control connections, servers, accept entries and data transfers in a fixed order,
and prints the status messages at the end. User callbacks run between two ticks,
never inside one. Calls that block (name lookup, `connect`, an SSL handshake) run
in short-lived threads that report through a shared field, `proc_state`, with no
lock. All sockets that move bytes are looked at with `select` and a zero timeout.

### Components

| component | source | state | operations |
|---|---|---|---|
| transfer negotiation | `sd_peers.c`, `sd_protocol_commands.c`, dialogs in `ui/gtk` | two tables of transfers per peer, each with state, verdict, `peer_prepared`, method | suggest, accept, decline, abort, disconnect, `handle_data_transfer_state`, processing of FILE-SUGGEST, FILE-VERDICT, FILE-PREPARED |
| connection state machine | `sd_net.c`, `sd_thread.c` | `state`, `proc_state`, socket, SSL session | open, accept, `handle_con_state`, the threads, close |
| data input and output | `sd_protocol.c`, `sd_file.c` | position, total, buffer window, file | `handle_data_send`, `handle_data_recv`, pause, abort |
| data server, accept entries | `sd_net.c`, `sd_peers.c` | server state, list of accept entries, listen queue | set up, resolve, admit, collect, stop, restart |
| control stream framing | `sd_protocol.c` | `ctl_buffer`, its offset, `ctl_cmd_backlog` | send, receive, extract |
| status messages | `sd_ui.c`, `ui/gtk/sd_gtk.c`, `sd_linked_list.c` | `status_backlog` | add (any thread), print, log, remove |
| peers, control server | `sd_peers.c`, `sd_net.c` | list of peers | accept a control connection, remove a peer |
| main loop | `sd_idle.c` | order of a tick | `ui_idle` |
| linked list | `sd_linked_list.c` | pointers, first item embedded | add, remove, iterate |
| argument coding | `sd_protocol.c` | none | URL-encode and decode |
| transfer windows, settings dialog | `ui/gtk/sd_gtk_unapproved_transfers.c`, `sd_gtk_approved_transfers.c`, `sd_gtk_ui_cb.c` | rows of two windows, the transfer the menu and dialog are for | add, remove and update rows; accept, decline, edit, apply, abort, pause, clear |
| file information | `sd_file.c` | none | open, seek, sizes |
| SSL set-up, configuration, command line, logging, timing, widgets | the rest | settings, text | pure input and output |

### How they interact

A user's choice changes a transfer and sends a command over the peer's control
connection; the peer's tick reads the bytes (framing), puts commands in a backlog
and hands them to the negotiation. When both ends have sent FILE-PREPARED, the
active end starts its data connection's state machine; the passive end's data
server admits the connection through an accept entry and hands its socket to the
transfer; then data input and output runs on that socket. A failed send or read
closes the control connection, which aborts every transfer whose data connection
is not established (`peer_set_closed`). Every component reports by adding status
messages.

### What is hard here

* **Two programs, one agreement.** The two copies of a transfer agree only
  through commands; either side may abort (the peer is not told), fail to send,
  or close the connection between any two of them. FILE-PREPARED may come before
  or after the receiver itself is prepared.
* **Re-entry through failure.** A send that fails closes the connection and
  aborts the whole table *inside* the handler that was changing one entry of it;
  the handler then goes on.
* **Reports without an owner.** `proc_state` does not say which thread wrote it,
  and is not reset when a thread is created.
* **Order inside a tick.** An accept entry is marked, used and freed in different
  phases, and only their order keeps a waiting transfer from a freed entry.
* **Streams.** Commands and files arrive in pieces of any size; buffers fill up.
* **One list, many threads.** Status messages are added under a mutex and removed
  without it.

`PROJECT.json` lists these one by one under "hazards", each at its line, with the
properties that would catch it or the reason why none does yet.

### What makes each component correct

* negotiation: nothing moves without the receiving user's consent; no end starts
  before the other is prepared; commands meet the state their sender counts on;
  verdicts and ends are final; an accepted transfer starts;
* connection: established means connected and, with SSL on, verified; one thread at a
  time, and the awaited one; VERSION once; a control connection waits for ever for nothing
  but a handshake at which the peer is silent;
* data: no byte is lost, repeated or misplaced; completion means all bytes; an
  undisturbed transfer completes at both ends;
* server: waiting transfers can read their entries; connections are not mixed up;
  nobody uninvited gets in and whoever is invited does;
* framing: the stream is a FIFO of commands; nothing but the overlong line is lost;
* lists: removing any item leaves the others in order, nothing leaks, nothing reachable is freed;
* argument coding: printable text arrives as it was, other text loses no more than the code says;
* windows: one row per transfer, in the right window, not stale between two callbacks,
  but for the SSL setting of an aborted transfer and a directory just applied; the last
  progress shown is final; a verdict is given once;
* status messages: what leaves the list was printed.

## 2. Modules

| module | models | correspondence |
|---|---|---|
| `Negotiation` | both programs' tables, the control connection between them, the user | `xfer` the two lists of `struct sd_data_transfer_info`; `ctl` the state of the control connection; `chan` commands sent and not processed, of which the first `due` have been read (`ctl_cmd_backlog`); `todo` the unfinished loop of the suggest dialog; one action per callback, per case of `handle_data_transfer_state`, per command |
| `NegotiationProofs`, `NegotiationOrderProofs`, `ConMachineProofs`, `DataIOProofs`, `ServerAcceptProofs`, `LinkedListProofs`, `CtlStreamProofs`, `TransferViewsProofs` | | the theorems of section 5, each module about the one it is named after |
| `ConMachine` | one `struct sd_con_info` and its threads | `looked` is the point between the two reads of `proc_state` in `handle_con_state`; a thread begins (sets INCOMPLETE), finds the state it is to work on, and reports: three actions |
| `DataIO` | the two ends of one data connection, their files and the sockets between them | `snd`, `rcv` are the I/O fields of the transfer; a byte is its position in the sender's file |
| `TransferContract` | abstract: what the two ends of a transfer promise each other | each end's stage and whether it has accepted |
| `ServerAccept` | one data server, its entries and the active ends that dial it | `phase` is the part of the tick that runs next; `accept_addresses` is the linked list, `entry` and `report` the fields of each entry, `backlog` the kernel's queue of connections; `starter` is the thread that restarts the server, `outcome` its `proc_state` |
| `LinkedList` | `linked_list`: operators on a list of cells at addresses | a list is its pointer to the last item and the cells that are allocated; an address outside them is an error of evaluation |
| `UrlCoding` | `string_url_encode`, `string_url_decode` | functions on sequences of bytes; `Width` and `Code` are the room a byte asks for and what is left of what is written for it |
| `TransferViews` | the rows of both windows, the menus and the dialog, for the transfers of one peer | `row` the two list stores, `xfer` the fields that a row shows, `popup` the transfer of the popup menu; the operators between `Put` and `SuggestFile` are the setters of `sd_peers.c` with the notifications they send |
| `CommandChannel` | abstract: the FIFO the negotiation relies on | `queue` and `got`, nothing else |
| `CtlStream` | one direction of a control connection as bytes | `wire`, `buf` (`ctl_buffer` up to its offset), `ctl_cmd_backlog`, and `got`, all that ever reached the backlog |
| `StatusBacklog` | `status_backlog` and `ui_process_status_backlog` | each access to the list is one step; a mutex that only the adders take is no constraint on the remover |
| `MC...` | | constants for TLC |

`Negotiation` implements `TransferContract` (the property `KeepsContract`): a copy's stage
is a function of its state, and whatever a callback does to the table, each entry makes
one step of the contract or none, or is stopped.
`CtlStream` implements `CommandChannel` (the property `ProvidesChannel`, with what
was sent and not extracted as the queue). `Negotiation` takes that
channel for granted: its `chan`/`due` is `CommandChannel`'s queue, restricted by
what closing the connection throws away. `ConMachine`, `ServerAccept` and `DataIO`
detail what `Negotiation` treats in one action each (`ConResolveSource`,
`ConConnect`; `AcceptResolve`, `ServerHandleCon`; `EndTransfer`).

### What the models abstract, and in which direction

* *Negotiation*: the order of a tick is relaxed, each handler call is an action that
  may run whenever the program is idle, so the model has more behaviours than the
  code. Commands that were read are processed before anything else happens at that
  end. Commands lost in a closed socket are lost. A program that exits or dies on a
  signal is one that disconnects and then does nothing. A send on a connection its own
  program has closed always fails. The data connection's
  states from RESOLVE_DST_IP to SSL_VERIFY are one, CONNECTING; `ConConnect` may
  skip the actual dialling because `ConMachine` shows that the code can. Listener
  and connection are matched by transfer; matching by address is `ServerAccept`.
  VERSION, TALK and reconnecting are left out.
* *ConMachine*: `Prompt` says that a thread begins before the next tick, which the
  15 ms sleep of `relieve_cpu` (`src/sd_idle.c:80-92`) makes likely and nothing
  guarantees. With `Prompt = FALSE` it does not hold, see section 4. A shutdown of
  an unfinished SSL session may return before the descriptor is closed
  (`src/sd_net.c:1040`). Freeing a peer is modelled; use after it would violate
  `ThreadIsAwaited`.
* *DataIO*: a receiver that resumes holds the true beginning of the file (the
  program compares nothing). A longer file is not truncated (`r+b`): what lies
  behind the new end stays, and `CompletedIsWhole` does not claim otherwise.
* *ServerAccept*: all active ends are programs on one host that bind the first free
  port, the worst case for matching by address; any number of strangers, one
  waiting at a time. `Mishap` names what may go wrong (aborts at either end, lookups that
  fail, strangers), so that larger instances can be checked with less of it. The server has started when the model begins. Its restart may fail, and
  the thread of the restart may be late, in which case `proc_state` still says COMPLETE for
  the first start and the address list freed then is bound: `Restarted` lets anything come of that. A
  removed server takes its entries along; transfers that still point at them read
  freed memory, in the model any state (`Transfers`).
* *CtlStream*: every command has one argument, a text, as TALK has; the name is one byte, and a
  line that begins with anything else is not recognised. Lines longer than the
  buffer come from other programs only: the lines this one sends fit.
* *LinkedList*: which address an allocation yields makes no difference. Values are
  not freed with their items, since no list shares them.
* *UrlCoding*: as compiled, with `char` signed: `%x` of a byte above 127 prints eight
  digits of which `snprintf` keeps two f's, and of a byte below 16 one digit, so that
  the NUL of `snprintf` ends the text.
* *TransferViews*: one peer at the other end of the connection does whatever
  the protocol lets it; a send may fail at any time. Every column that may change in the
  life of a row is modelled: the directory, which each UPDATE rewrites and Apply changes after its
  last announcement, has the values of `Directory`; of the address and the port of the peer
  it is modelled whether they are known, since they are set once. Left out are the name,
  size and time of the file, the direction and the peer, which never change, and the id, which the
  handler that makes the transfer sets before its last UPDATE. `applied` is a history field: the
  state in which Apply last changed the directory.
* *ConMachine* also holds the suggest dialog's list of peers for this one peer
  (`offered`), filled when the dialog is opened or refreshed and at no other time.
* *StatusBacklog*: the list is a sequence; the pointers of `src/sd_linked_list.c`
  can only do worse.

## 3. Runs

Every property is defined in the module it is about, under a comment that says it
in words and names the code.

| run | config | bounds | shows |
|---|---|---|---|
| `negotiation_safety` | `MCNegotiation.cfg` | one transfer in each direction, one spontaneous failure, users free to decline, abort, disconnect | `Consent`, `BothPrepared`, `ListenerReady`, `ExpectedCommands`, `ClosedPeerStartsNothing`, `Final`, `KeepsContract`, `TypeOK` |
| `negotiation_liveness` | `MCNegotiationLive.cfg` | two transfers of one user, suggested together; no failure | `AcceptedStarts` |
| `negotiation_closing` | `MCNegotiationClosed.cfg` | one transfer, one failure | *violation*, finding 1 |
| `con_machine` | `MCConMachine.cfg` | none but `Prompt`; both types, SSL on and off | `ThreadIsAwaited`, `VersionOnce`, `OfferedIsUsable`, `EstablishedIsConnected`, `ControlSettles`, `TypeOK` |
| `con_machine_late` | `MCConMachineLate.cfg` | `Prompt` false | *violation*, finding 2 |
| `data_io` | `MCDataIO.cfg` | sizes, positions up to 5, buffer 2, sockets hold 3, two failures or aborts | `Gapless`, `CompletedIsWhole`, `CompletedIsSent`, `Completes`, `TypeOK` |
| `data_io_empty` | `MCDataIOEmpty.cfg` | sizes up to 2, no failure | *violation*, finding 3 |
| `server_accept` | `MCServerAccept.cfg` | two transfers, of which none, one or both allow any port, a stranger, one stop of the server and a restart | `EntryKept`, `ListKept`, `OwnConnection`, `AdmittedOnce`, `InvitedConnects`, `TypeOK` |
| `ctl_stream` | `MCCtlStream.cfg` | 3 texts of 5 kinds, arguments up to 7 bytes, buffer 14, one overlong line, no read ends between CR and LF | `ProvidesChannel`, `TextArrives`, `BacklogIsSequence`, `TypeOK` |
| `ctl_stream_split` | `MCCtlStreamSplit.cfg` | 3 commands, reads end anywhere | *violation*, finding 4 |
| `transfer_views` | `MCTransferViews.cfg` | one transfer each way, of 2 bytes or resumed at 1, two directories, SSL on, one use of Apply, Clear or Pause (`MaxEdits`) | `OneRow`, `ShownIsCurrent`, `FinalProgress`, `VerdictOnce`, `TypeOK` |
| `status_backlog` | `MCStatusBacklog.cfg` | one thread, two messages | *violation*, finding 5 |

**Why the bounds are enough.** A transfer interacts with another one through the
shared connection, the ids of one direction, and the abort of the whole table.
One transfer each way has all three (FILE-PREPARED names ids of either
direction, and confusing them is a mutant that TLC catches); two in one
direction add the suggest loop. One failure is enough to close the connection,
and after it every send at the other end may fail free of charge. The theorems
of section 5 remove the bounds for what they state. In `DataIO` size 5 with buffer 2
gives full, partial and single-byte reads of the file, and a socket of 3
makes sends partial across buffers. Two transfers are the least that can be
mixed up in `ServerAccept`; with three, one may be served by another's connection while
its own still waits for the port to be taken a third time, which is why `OwnConnection`
excepts everything once the active end of a transfer that allows any port was aborted. That
instance (three transfers, `AnyPort = {{}, {t1}}`, `Mishap` with both aborts, `MaxStops = 0`;
6,103,488 states) was used to find the exception and is covered by a theorem, so that no
run repeats it. One stop is the least that resets a listen queue with
entries pending, and two entries the least that exercise the shift of a list's second
item into its first; the backlog of `CtlStream` holds up to three commands, so that
removals also meet a list with a middle. (A second stop would allow a second thread at
the same server; `MaxStops` is at most 1 because the model has one `starter`.)
The buffer of `CtlStream` holds three short commands or parts of two long ones,
and an overlong line exceeds it by the terminator or more. Its texts are a letter, a blank with a percent sign, CR LF, a DEL, and
one with an accented letter that does not fit. In `TransferViews` a transfer meets another one only in the abort of the
whole table and in the choice of the menu, for which one in each direction is enough; a size of 2
gives a transfer that is begun, half done and done, and two directories one that is changed. A pause counts
as an edit and a resumption does not, so whatever was paused may go on.

**Fairness.** `ui_idle` runs for ever, and name lookups and `connect` return, within the
limits of the resolver and the kernel, so weak fairness is assumed of what the program does by
itself: the suggest loop, reading and processing commands, the handlers of transfers and
connections, the threads in those calls. It is not assumed of a thread in a handshake:
`SSL_connect` and `SSL_accept` (`src/sd_ssl.c:133`, `:146`) work on a blocking socket for
which no timeout is set, and return only if the peer answers or goes away. `ControlSettles`
says so: a control connection settles unless it stays in its handshake for ever. Nothing
is assumed of users, of failures, of strangers, or of a peer that dials. In
`ServerAccept` only the tick is fair: `WF_phase(Turn)` says that the phase goes on
changing, which is the same as weak fairness of the tick, because one part of it is
always enabled and only the tick changes `phase`. In `CtlStream` the program reads
and processes whatever has arrived. `Completes` assumes that there is no
failure and that pauses end; `InvitedConnects` that the server is left alone;
each says so in its own premise.

**Deadlock** is checked where a tick never ends (`ServerAccept`, `StatusBacklog`). The
other systems may properly stop: all transfers ended, the connection closed, the
bounds on users' actions reached (in `TransferViews`: both transfers ended or cleared
and the connection closed; in `CtlStream`: every bounded line sent and processed).

**Mutants.** Next to each modelled definition that a plausible bug would change there
is the mutated form (`StartUnprepared`, `AdmitsHost`, `WrittenPast`, ...), marked as
such and used by no specification. `PROJECT.json` pairs each with the property
that fails when it takes the original's place.

## 4. Findings

1. **A suggestion that cannot be sent stays pending** (`negotiation_closing`).
   `file_suggest_command_pack_and_send` sets VERDICT_PENDING whatever the send
   returned (`src/sd_protocol_commands.c:384`), after the failed send has closed the connection
   and aborted the transfer; `src/sd_peers.h:135` promises "Close connection and
   abort all unestablished transfers".
2. **A late thread lets a stage be skipped** (`con_machine_late`). `proc_state` keeps
   the previous stage's COMPLETE until the new thread runs (`src/sd_net.c:753`, `:725`);
   a tick before that declares the connection established without handshake, or without
   connection.
3. **A file with nothing left to send is aborted at the receiver** (`data_io_empty`,
   `src/sd_protocol.c:702`): completion is looked for only after a read of at least a byte.
4. **A read that ends between CR and LF costs a command** (`ctl_stream_split`,
   `src/sd_protocol.c:526`): the LF left behind becomes the first byte of the next one.
5. **Status messages can vanish** (`status_backlog`, `src/sd_ui.c:181`): the main thread empties the
   list without the mutex, so a message added after the printing is removed unseen.

Seen while reading, and not claimed by a run:

* a directory that was applied is not shown: Apply writes it after the last of its
  announcements (`ui/gtk/sd_gtk_unapproved_transfers.c:721`, `:715`), so the row keeps the old one
  until something else about the transfer is announced, which for one that has ended may be
  never. Without `DirectoryShown`'s exception `ShownIsCurrent` fails, by the very first Apply
  that changes it; with it, it says that this lasts no longer than the state;
* a peer that connects and then says nothing keeps a connection with SSL in SSL_VERIFY, and
  its thread, until the user disconnects or the peer does (`src/sd_ssl.c:133`, `:146`);
* a data connection that fails leaves its transfer in TRANSFERING for ever
  (`src/sd_net.c:734`, `:807`, `src/sd_peers.c:378`); a passive transfer in PREPARATION_PENDING
  whose data connection is already established survives the closing of the control
  connection and then waits for a FILE-PREPARED that cannot come (`src/sd_peers.c:300`),
  which is why `ClosedPeerStartsNothing` excepts established connections;
* a server that fails to restart is freed with its accept entries, while transfers
  (`data_server`, `accept_info`), the dialogs' lists of servers and a thread that resolves an
  entry still point at them (the exception in `EntryKept`); a restart may also bind the address list
  that was freed after the first start (`src/sd_net.c:184`, `:299`); stopping a server
  that is still resolving for the first time closes descriptor 0;
* the peers and servers windows are snapshots whose rows keep pointers to peers and servers
  that have been removed since (`ui/gtk/sd_gtk_peers.c:63`, `:82`, `:157`); a message can be
  sent from there to a peer that is still connecting. The suggest dialog lists
  established peers only, and `OfferedIsUsable` shows that this is enough;
* Apply in the settings dialog works on the transfer that was right-clicked last, in whatever
  state it is by then (`ui/gtk/sd_gtk_unapproved_transfers.c:632`), and may change a position after
  the verdict has told the peer another one, or a directory after the file in the old one
  was opened; Clear from a menu that was opened in the
  unapproved window removes a row of the approved one if the transfer was accepted meanwhile;
* the verdict callback compares the verdict with the constant of a state
  (`src/sd_protocol_commands.c:620`), and a verdict for an id that does not exist hands
  NULL to the view (`:667`); `ExpectedCommands` shows that this program sends none such;
* non-ASCII bytes of messages and file names arrive as `0xff` (`TextArrives` says exactly
  what arrives);
* the comment "we listen" at `src/sd_peers.h:43` is on the method that connects.

## 5. Proofs

`tlapm` checks every theorem and lemma to the last leaf. The theorems hold for every
value of the constants that the modules' assumptions allow: any number of transfers,
texts, commands and failures, any sizes. Where a proof needs more than that, the
theorem says so (`ASSUME Prompt`, `ASSUME ~ Splits`).

| invariant or property of a run | theorem | from |
|---|---|---|
| `Negotiation`: `TypeOK`, `Consent`, `BothPrepared`, `Final` | `NegotiationProofs` | `Inv` |
| `Negotiation`: `ListenerReady`, `ExpectedCommands`, `ClosedPeerStartsNothing` | `NegotiationOrderProofs` | `Inv`, `Order` |
| `Negotiation`: `KeepsContract` (refinement) | `NegotiationOrderProofs` | `Inv`, `Order` |
| `ConMachine`: `TypeOK`, `OfferedIsUsable` | `ConMachineProofs` | `Inv` |
| `ConMachine`: `ThreadIsAwaited`, `VersionOnce`, `EstablishedIsConnected` | `ConMachineProofs`, if `Prompt` | `Inv`, `Paced` |
| `DataIO`: `TypeOK`, `Gapless`, `CompletedIsWhole`, `CompletedIsSent` | `DataIOProofs` | `Inv` |
| `ServerAccept`: `EntryKept`, `AdmittedOnce` | `ServerAcceptProofs` | `Inv` |
| `ServerAccept`: `ListKept` | `ServerAcceptProofs` | `Inv`, `Kept` |
| `ServerAccept`: `TypeOK` | `ServerAcceptProofs` | `Inv`, `Kept`, `Others` |
| `ServerAccept`: `OwnConnection` | `ServerAcceptProofs` | all of these and `Matched` |
| `CtlStream`: `BacklogIsSequence` | `CtlStreamProofs` | `Waiting` |
| `CtlStream`: `TypeOK` | `CtlStreamProofs` | `Waiting`, `Streaming` |
| `CtlStream`: `TextArrives`, `AllExtracted`, the steps of `ProvidesChannel` (refinement) | `CtlStreamProofs`, if `~ Splits` | `Streaming` |
| `TransferViews`: `TypeOK`, `OneRow`, `ShownIsCurrent`, `FinalProgress`, `VerdictOnce` | `TransferViewsProofs` | `Inv` |

### Negotiation: what is believed is true

`TypeCorrect` (including that no backlog exceeds what has arrived), `ConsentHolds`,
`BothPreparedHolds` and `FinalHolds`, an action property, all come
from `Invariance`: `Spec => []Inv`. `Consent` is not inductive. The sender's copy
becomes agreed when it processes a verdict, so one must know that a verdict on its
way was really given, and that the receiver's copy cannot forget it. `Inv` adds to
`TypeOK`:

* `AllSound`: within one copy the verdict and `peer_prepared` follow from the state;
* `CommandsBacked`: a verdict or prepared command in a channel is true of its sender's table;
* `BeliefsBacked`: what a copy has recorded of its peer is true of the peer's table.

The argument is that nothing backing a belief is ever withdrawn: verdicts are
not revised and a copy that was agreed stays agreed or is aborted (`Keeps`).
`Step(e)` says what any action of endpoint `e` does to the tables and channels, in terms of
`Progress` of each copy; one lemma per group of actions (`UserSteps`, `TransferSteps`,
`CommandSteps`, ...) shows that it is such a step, `StepKeeps` that such a step
preserves the invariant, whichever action it was. `SendStep` and
`PrepareStep` are the lemmas about a send that succeeds, fails halfway, or is made on a
closed connection.

### Negotiation: what is believed is not out of date

That a command finds its receiver in the state its sender counts on does not follow from
`Inv`: a second verdict, or a FILE-PREPARED that overtakes, would be just as true. The second
invariant `Order` (`OrderInvariance`) says that

* `AllSettled`: a copy's connection and accept entry fit its state, so that an agreed
  listener has its entry resolved;
* `Distinct`: no command is in a channel twice;
* `AllExpected`: each command on its way finds the receiver's copy, and the sender's, as it says;
* `Paired`: the two copies take opposite roles, and the suggested one waits as long as no
  verdict was given;
* `PreparedTold`: whoever is marked prepared was told so by a copy that has agreed and is ready;
* `ClosedPeerStartsNothing` itself.

`Evolution(e)` is what an action may do, said in terms of this: each copy `Evolves`, along
the states that `Leads` allows and no further than the commands that were heard permit, and a command is
sent only by the very change of the copy it is about (`Justified`). The lemmas `...Evolutions`
show it of every action, `OrderKept` that it preserves `Order`. `ListenerReadyHolds`,
`ExpectedCommandsHolds` and `ClosedPeerStartsNothingHolds` are read off.

### The negotiation implements its contract

`KeepsContractHolds`: `Spec => KeepsContract`, the refinement of `TransferContract`. `Stages`
says which stage each state is, `EvolutionAdvances` that an `Evolves` of one copy is one step of the
contract, none, or a stop, and `EvolutionActs` that an `Evolution` of the table is therefore
something the contract lets that program do, however many entries it changes at once: a
step of the contract is one for each of them. What the contract wants to know about the other end (a receiver's entry
exists only for a suggestion, the sender agrees only after the receiver's acceptance)
comes from `AllExpected` and `CommandsBacked`.

### Connections

`Inv` of `ConMachineProofs` holds at any pace of the threads, and gives `TypeCorrect` and
`OfferedIsUsableHolds`. `Paced` needs `Prompt`, that a thread begins before the handler
looks again, which is what the run `con_machine` assumes; `con_machine_late` shows that it is
needed. Its core: a thread at work has withdrawn the report of the stage before, once the
handler has looked no thread is at work (`Reports`), and the present stage's thread
found that stage to work on, so that `proc_state` is its own report (`StageIsWorked`);
`Results` says what each stage leaves behind. `ThreadIsAwaitedHolds`,
`VersionOnceHolds` and `EstablishedIsConnectedHolds` follow.

### Data input and output

`DataIOProofs` proves, for every `MaxSize`, `BufLen`, `WireCap` and `MaxFaults` that
`BoundsAssumption` allows, `TypeCorrect` (`[]TypeOK`), `GaplessHolds` (`[]Gapless`),
`CompletedIsWholeHolds` and `CompletedIsSentHolds`, from an invariant of its own. It strengthens
`Gapless` where an end has finished and where a transfer starts behind the end of the file:

* `SenderAccounts`: total and window add up to the position in every state, what is read
  never passes the size (unless the transfer *starts* behind it, and then nothing is
  read at all), and a completed sender has sent everything. Without the bound a
  receiver might complete with too many bytes;
* `WireContinues`: the wire takes up where the receiver stands and ends where the sender's total stands;
* `Placed`: everything before the receiver's position is in its place, which
  becomes `CompletedIsWhole` at the moment of completion.

Most steps touch no byte (`QuietSender`, `QuietReceiver`). Three do: a send
(`SentKeeps`, with `SendAppends` about the wire it produces), a read of the file
(`ReadKeeps`) and a write at the receiver (`WriteKeeps`, with `RestOfWire` and
`WritePlaces`).

### The data server

`ServerAcceptProofs` builds four invariants on each other.

* `Inv`: the entry of a waiting transfer is resolved only between the look at the entries and the
  look at the transfers, when no connection is taken and nothing collected (`EntryAwaited`); an
  entry is made once (`SetUpOnce`) and spent when its transfer has a connection (`Spent`).
  `EntryKeptHolds` and `AdmittedOnceHolds` follow: only the order of a tick keeps a waiting
  transfer from a freed entry.
* `Kept`: the list is whole and has one item per transfer with an entry (`ListKeptHolds`).
* `Others`: the remaining types. The one that is not obvious is that a free port is left for every
  transfer that binds one (`SomePortIsFree`, a counting argument).
* `Matched`: `OwnConnectionHolds`. An aborted transfer frees its port while its connection still waits
  in the listen queue and its entry in the list; another may bind the port, add an entry of
  the same address and dial. `InTurn` says why the two are not confused: the queues are in
  one order. If the connection of `w` waits ahead of that of `t`, from the same port, or before `t` has
  dialled (`Ahead`), then `w` was aborted before `t` was bound, and `w`'s entry comes before `t`'s; and `w`'s
  entry still admits (`Awaiting`), or else somebody's connection would have been taken out of turn. So
  the first entry that admits a connection is its own (`NotAhead`, `HandleConMatched`). The proof
  showed one exception of an earlier `OwnConnection` to be unnecessary, an abort at the listener's end.

### Lists

`LinkedListProofs` proves the operators of `LinkedList` for lists of any length. `Linked(l, n, s)` says
that the cells at the addresses `s` form the list, and the walk from the front is shown
to visit exactly them (`WalkVisits`). The steps of `Add` and `Rem` on
it are `AddLinked`, `RemFirstLinked` and `RemOtherLinked`; `IsList(l)` hides the addresses, and
`AddIsList`, `RemIsList`, `IterateFinds`, `RemAllEntriesEmpties` and `RemAllKeeps` say what the operations do
to the *values* of a list, which is all that the proofs about servers and
backlogs use. `ListIsRemovable` is `Intact` and `Removable`, the properties behind `ListKept` and
`BacklogIsSequence`, of every list. Recursive functions (the walk, the removal loops) are treated
by induction over sets of naturals (`SetInduction`), for which no operator has to be
instantiated. `CtlStreamProofs` adds that the backlog holds the last texts that came (`Waiting`).

### The coding of arguments

`Encode` and `Decode` recur from the end of a sequence, over the room left in a buffer. Each is a
recursive function whose values are rows, one entry for each amount of room, so that
`SetInduction` shows that it has the value its definition gives (`EncodeUnfolds`,
`DecodeUnfolds`), and `DownInduction` goes through the rows from the last one.
`EncodingFits` says that an encoding is of printable bytes (so that no CR or LF is in it) and fits;
`Restores` says of a row of `Encode` that wherever its entry stands in a string, `Decode` makes of
it what `Survives`; `RestoresOn` is the step from one row to the one before, with a case for
each way a byte is written. `CodingRestores` is the result, for every text and buffer;
`SurvivorIsLegible` restates it in the words of `TextArrives`. That a line is never without an
argument (`EncodingOfText`) needs room for one escaped byte, `ArgLen > 3` in `BoundsAssumption`,
which every buffer for an argument in the source has.

### The stream

The invariant `Streaming` says that what is in the buffer and on the wire *together* is a
sequence of pieces (`Consists`): the lines of exactly the texts that are still to come, and rests of
overlong lines between them. What it says does not depend on where the buffer ends, so
reading changes nothing (`PieceRead`), sending adds a piece (`StreamGrows`), and
all the work is in what is taken from the front (`StreamCut`):

* `FrontIsOut`: the end that is found is the first piece's, and all of its terminator is in the
  buffer, because the buffer does not end in CR. So a command is the next text with its
  whole argument, and the rest of an overlong line is no command;
* `FrontIsRest`: what is dropped from a full buffer without an end is no part of a command,
  because a command with its CR would have fitted (`BoundsAssumption`: `ArgLen + 2 <= BufLen - 1`).
  What is left of the line then is again a rest.

If a read may end between CR and LF (`Splits`), one LF may stand in front of the first piece
(`IsLeftOver`) and the line behind it is lost. `Streaming` still
describes the stream then, but no longer that no text is skipped: that is enough for
`TypeCorrect`, which needs no assumption, and `ctl_stream_split` shows that the other three theorems do need
theirs. `TextArrivesHolds`, `AllExtractedHolds` and `StreamIsChannel`, the refinement of
`CommandChannel` but for its fairness (`Channel!Safe`), are read off. In the refinement `Send`
appends, an `Extract` that finds a command delivers, and everything else stutters.

### Windows

A handler of `TransferViews` is a composition of operators on worlds (the table, the rows and
the connection), so `TransferViewsProofs` gives each operator a lemma `...Keeps` and puts
the lemmas together as the handlers put the operators together. The invariant, which TLC
also found to hold before it was proved, is `Inv`, that is `Ordered` and `Pointed`. For every transfer it says that

* its rows are where they belong (`Listed`), and what is cleared was there (`WasThere`),
  without which a row could come back after it was cleared;
* its rows are `Current`, with the two exceptions of `ShownIsCurrent`. A change that is not
  announced has to be `Unshown`: of what no row shows, or of a directory in the state the
  transfer is in (`DirectoryShown`);
* its counts and the progress in its row go together (`Counts`, `Fits`): an update that is
  skipped because the counts are equal leaves out nothing, provided the flag for no movement is down. An
  operator that changes counts and writes the row later has to pass through a
  world where this is not so yet (`Follows`); `Kept` names the transfers that are in between;
* its verdict fits its state (`Phase`): it is still pending wherever one can be
  given, which makes `VerdictOnce` more than a guard, and an entry that admits a connection belongs to an
  accepted transfer, one that waits for its entry, or an aborted one.

`Pointed` adds that an open menu or dialog is that of a transfer that exists.

What makes the handlers hard is that any send in them may fail and close the
connection, which aborts every transfer, the handler's own included, before the handler
goes on. `Spares` says how the others may be found after an operator: as they were, or aborted, with
rows that are current if they were; `Handles` and `Settles` add what the handler does to
its own. The folds over the transfers to be aborted and over the files to be suggested are unfolded
by `AbortsUnfold` and `PassesUnfold`, by `SetInduction` again. `NextKeeps` has one step per action.
`OneRowHolds`, `ShownIsCurrentHolds` and `FinalProgressHolds` are read off; `VerdictOnceHolds`
comes from what each step may do to any transfer (`Proceeds`).

### What stays with TLC

* Liveness under fairness: `AcceptedStarts`, `ControlSettles`, `Completes`, `InvitedConnects`. These,
  and ENABLED, are beyond the prover.
* `CtlStream`: the fairness in `ProvidesChannel`, that a command on its way is eventually delivered.
* `StatusBacklog`: its only run shows a violation.

## 6. Not modelled

* *Peers and the control server*: a peer's life with its connection is `ConMachine`; the list of
  several peers is not modelled, nor the control server, which starts and stops like a data
  server and admits every connection.
* *Adding a data server and its first start*, which is a restart without entries.
* *File information*: only what `file_open` refuses, in `DataIO`.
* *Other widgets*: the file list of the suggest dialog, and the peers and servers windows,
  whose rows dangle (section 4); their buttons are actions of `ConMachine`,
  `ServerAccept` and `Negotiation`.
* *SSL contexts, configuration, command line, logging, timing*: input, output and library
  calls without control of their own, read or set up once at start. Frame times and
  transfer speeds (`src/sd_timing.c`) are arithmetic for the display.

## 7. Plan

Order so far: `Negotiation` and its proof, since everything a user sees depends on
it; then the parts it takes in one action each (`ConMachine`, `DataIO`,
`ServerAccept`); then the channel it takes for granted (`CommandChannel`, `CtlStream`)
and `StatusBacklog`; then what the user sees (`TransferViews`), the data structures underneath
(`LinkedList`, `UrlCoding`), the restart of a server, and the contract that the negotiation keeps
(`TransferContract`).

Every safety property that a passing run checks is proved, and both refinements but for the
fairness of `CommandChannel`. Left to do: `Negotiation` over a second connection of the same
peer, whose table is empty again.
