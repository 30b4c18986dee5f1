--------------------------- MODULE TransferViews ---------------------------
(***************************************************************************)
(* The transfers of one program and one peer as its two GTK windows show   *)
(* them (sd_gtk_unapproved_transfers.c, sd_gtk_approved_transfers.c).  A   *)
(* row copies what a transfer held when the row was last written, and every*)
(* setter of sd_peers.c must announce what it changes.  A handler is the   *)
(* composition of the setters it calls: each takes a world, the part of    *)
(* the state it works on, to the next, and a send, which may fail and then *)
(* closes the connection under the handler, to a set of worlds.            *)
(***************************************************************************)
EXTENDS Naturals, Sequences, FiniteSets, SequencesExt, FiniteSetsExt

CONSTANTS
    Incoming,   \* transfers that the peer may suggest
    Outgoing,   \* transfers that the user may suggest
    Size,       \* bound on the size of a file, in units of transfer
    Position,   \* the positions in it from which users resume
    ServerSSL,  \* the SSL setting of the data server
    Directory,  \* where a file may be read from or written to
    Output,     \* the directory a transfer is made with
    MaxEdits,   \* bound on settings applied, rows cleared and transfers paused
    Nobody      \* a pointer that is NULL

ASSUME ViewsAssumption ==
    /\ IsFiniteSet(Incoming) /\ IsFiniteSet(Outgoing)
    /\ Incoming \cap Outgoing = {}
    /\ Size \in Nat \ {0}
    /\ Position \subseteq 0 .. Size
    /\ ServerSSL \in BOOLEAN
    /\ Output \in Directory
    /\ MaxEdits \in Nat
    /\ Nobody \notin Incoming \cup Outgoing

Transfer == Incoming \cup Outgoing
Window == {"UNAPPROVED", "APPROVED"}

State == {"NONE", "SETUP_PENDING", "ACTIVE_RESOLVE_SRC_IP",
          "PASSIVE_RESOLVE_ACCEPT_IP", "VERDICT_PENDING",
          "PREPARATION_PENDING", "TRANSFERING", "COMPLETED", "ABORTED"}
Ended == {"COMPLETED", "ABORTED"}
Verdict == {"PENDING", "ACCEPTED", "DECLINED"}
Method == {"ACTIVE", "PASSIVE"}

\* The columns of the two windows that may change in the life of a row, and the
\* pointer; the address and the port of the peer are one.
UnapprovedColumns ==
    [of : Transfer, state : State, meth : Method, verdict : Verdict, ssl : BOOLEAN,
     address : BOOLEAN, directory : Directory]
ApprovedColumns ==
    [of : Transfer, state : State, meth : Method, paused : BOOLEAN, progress : 0 .. Size,
     directory : Directory]

VARIABLES
    ctl,      \* state of the control connection with the peer
    xfer,     \* the data transfers of the peer
    row,      \* the rows of each window, from the top
    popup,    \* popup_menu_unapproved_transfer_selected
    menu,     \* whether the menu of the unapproved window is open
    dialog,   \* whether the transfer settings dialog is shown, it is not modal
    edits,    \* how often users have applied settings, cleared a row or paused
    cleared   \* the transfers cleared from each window, a history variable

vars == <<ctl, xfer, row, popup, menu, dialog, edits, cleared>>

TypeOK ==
    /\ ctl \in {"ESTABLISHED", "CLOSED"}
    /\ xfer \in [Transfer ->
         [state : State, verdict : Verdict, meth : Method, local : BOOLEAN, ssl : BOOLEAN,
          paused : BOOLEAN,       \* transfer_state
          address : BOOLEAN,      \* resolve_dst_addr holds the peer's address
          directory : Directory,  \* file.directory
          applied : State,        \* where Apply last changed it, a history field
          entry : BOOLEAN,        \* an accept entry may still admit a connection
          con : {"NONE", "SSL_VERIFY", "ESTABLISHED"},  \* data_con, NONE once the
                                  \* transfer has ended and nothing looks at it
          position : 0 .. Size,   \* file.position until bytes flow
          from : 0 .. Size,       \* where bytes began to flow, a history field
          current : 0 .. Size,    \* io_total_bytes_current
          last : 0 .. Size,       \* io_total_bytes_last
          zero : BOOLEAN]]        \* io_byte_diff_zero
    /\ row["UNAPPROVED"] \in Seq(UnapprovedColumns)
    /\ row["APPROVED"] \in Seq(ApprovedColumns)
    /\ popup \in Transfer \cup {Nobody}
    /\ menu \in BOOLEAN
    /\ dialog \in BOOLEAN
    /\ edits \in 0 .. MaxEdits
    /\ cleared \subseteq Transfer \X Window

\* Memory of a transfer that does not exist yet.
NoTransfer ==
    [state |-> "NONE", verdict |-> "PENDING", meth |-> "ACTIVE", local |-> FALSE,
     ssl |-> FALSE, paused |-> FALSE, address |-> FALSE, directory |-> Output,
     applied |-> "NONE", entry |-> FALSE, con |-> "NONE",
     position |-> 0, from |-> 0, current |-> 0, last |-> 0, zero |-> FALSE]

Init ==
    /\ ctl = "ESTABLISHED"
    /\ xfer = [t \in Transfer |-> NoTransfer]
    /\ row = [w \in Window |-> <<>>]
    /\ popup = Nobody
    /\ menu = FALSE
    /\ dialog = FALSE
    /\ edits = 0
    /\ cleared = {}

-----------------------------------------------------------------------------
(* The windows.                                                            *)

Now == [ctl |-> ctl, xfer |-> xfer, row |-> row]
Become(w) == ctl' = w.ctl /\ xfer' = w.xfer /\ row' = w.row

\* Each of a set of worlds goes on with F.
Then(W, F(_)) == UNION {F(w) : w \in W}

\* gtk_ui_data_transfer_change looks at the verdict to find the window.
WindowOf(x) == IF x.verdict = "ACCEPTED" THEN "APPROVED" ELSE "UNAPPROVED"

\* set_data_transfer_approved_list_store_progress_row leaves the columns as
\* they are when there is nothing to compute a throughput from.
Progress(x, old) ==
    IF x.current = x.last /\ ~x.zero /\ x.state # "COMPLETED" THEN old ELSE x.current

\* What the two windows write for transfer t; old is the progress shown so far.
UnapprovedRow(x, t) ==
    [of |-> t, state |-> x.state, meth |-> x.meth, verdict |-> x.verdict, ssl |-> x.ssl,
     address |-> x.address, directory |-> x.directory]
ApprovedRow(x, t, old) ==
    [of |-> t, state |-> x.state, meth |-> x.meth, paused |-> x.paused,
     progress |-> Progress(x, old), directory |-> x.directory]

\* The first row of t in a window, 0 without one.
Find(rows, t) == SelectInSeq(rows, LAMBDA r : r.of = t)

AddRow(w, t) ==
    LET x == w.xfer[t] IN
    IF x.verdict = "ACCEPTED"
    THEN [w EXCEPT !.row["APPROVED"] = Append(@, ApprovedRow(x, t, 0))]
    ELSE [w EXCEPT !.row["UNAPPROVED"] = Append(@, UnapprovedRow(x, t))]

RemoveRow(w, window, t) ==
    LET i == Find(w.row[window], t) IN
    IF i = 0 THEN w ELSE [w EXCEPT !.row[window] = RemoveAt(@, i)]

UpdateRow(w, t) ==
    LET x == w.xfer[t]
        i == Find(w.row[WindowOf(x)], t)
    IN  IF i = 0 THEN w
        ELSE IF x.verdict = "ACCEPTED"
        THEN [w EXCEPT !.row["APPROVED"][i] = ApprovedRow(x, t, @.progress)]
        ELSE [w EXCEPT !.row["UNAPPROVED"][i] = UnapprovedRow(x, t)]

\* treeview_update_approved_transfer_progress_treeview
UpdateProgress(w, t) ==
    LET i == Find(w.row["APPROVED"], t) IN
    IF i = 0 THEN w
    ELSE [w EXCEPT !.row["APPROVED"][i].progress = Progress(w.xfer[t], @)]

-----------------------------------------------------------------------------
(* The setters of sd_peers.c and what is built from them.                  *)

\* Mutant of Put: the change is not announced to the windows.
PutSilently(w, t, x) == [w EXCEPT !.xfer[t] = x]

\* A setter changes the transfer and then announces it.
Put(w, t, x) == UpdateRow([w EXCEPT !.xfer[t] = x], t)

\* Mutant of SetIO: the last count is taken over before the row is written.
SetIOFirst(w, t, elapsed) ==
    IF ~elapsed THEN w
    ELSE UpdateProgress([w EXCEPT !.xfer[t].last = w.xfer[t].current,
                                  !.xfer[t].zero = FALSE], t)

\* data_transfer_set_io: progress is looked at when an interval has elapsed.
SetIO(w, t, elapsed) ==
    LET x == w.xfer[t] IN
    IF ~elapsed THEN w
    ELSE [UpdateProgress(w, t) EXCEPT !.xfer[t].zero = (x.current = x.last),
                                      !.xfer[t].last = x.current]

\* data_transfer_set_state, for the states that send nothing.
SetState(w, t, s) ==
    LET x == [w.xfer[t] EXCEPT !.state = s, !.con = IF s \in Ended THEN "NONE" ELSE @] IN
    Put(w, t,
        IF s = "TRANSFERING"
        THEN [x EXCEPT !.from = x.position, !.current = x.position,
                       !.last = x.position, !.zero = FALSE]
        ELSE IF s = "COMPLETED" THEN [x EXCEPT !.zero = FALSE] ELSE x)

\* data_transfer_abort
Abort(w, t) ==
    IF w.xfer[t].state \in Ended \cup {"NONE"} THEN w ELSE SetState(w, t, "ABORTED")

\* ctl_con_close, peer_set_closed
CtlConClose(w) ==
    [FoldSet(LAMBDA t, v : Abort(v, t), w, {t \in Transfer : w.xfer[t].con # "ESTABLISHED"})
        EXCEPT !.ctl = "CLOSED"]

\* send_protocol_command may always fail, and does so once it has failed.
SendCommand(w) ==
    {CtlConClose(w)} \cup (IF w.ctl = "ESTABLISHED" THEN {w} ELSE {})

\* data_transfer_set_state to PREPARATION_PENDING, which sends FILE-PREPARED.
SetPrepared(w, t) ==
    {UpdateRow(v, t) :
        v \in SendCommand([w EXCEPT !.xfer[t].state = "PREPARATION_PENDING"])}

\* Mutant of SetVerdict: the row of an accepted transfer is not moved.
SetVerdictInPlace(w, t, v) == Put(w, t, [w.xfer[t] EXCEPT !.verdict = v])

\* data_transfer_set_verdict: acceptance moves the row to the other window.
SetVerdict(w, t, v) ==
    LET x == [w.xfer[t] EXCEPT !.verdict = v]
        Moved == AddRow([RemoveRow(w, "UNAPPROVED", t) EXCEPT !.xfer[t] = x], t)
    IN  IF v = "ACCEPTED" THEN UpdateRow(Moved, t) ELSE Put(w, t, x)

\* file_verdict_command_pack_and_send
SendVerdict(w, t, v) ==
    {SetVerdict(IF s.ctl = "CLOSED" \/ v = "DECLINED" THEN Abort(s, t) ELSE s, t, v) :
        s \in SendCommand(w)}

\* file_suggest_command_pack_and_send
SendSuggest(w, t) == {SetState(s, t, "VERDICT_PENDING") : s \in SendCommand(w)}

\* data_transfer_setup_passive_accept
SetupPassiveAccept(w, t) ==
    IF w.xfer[t].local
    THEN {[SetState(w, t, "PASSIVE_RESOLVE_ACCEPT_IP") EXCEPT !.xfer[t].entry = TRUE]}
    ELSE IF t \in Incoming
    THEN Then(SetPrepared(w, t), LAMBDA v : SendVerdict(v, t, "ACCEPTED"))
    ELSE SetPrepared(w, t)

\* data_transfer_init: the row is added last.
InitTransfer(w, t, ssl) ==
    AddRow(Put(w, t, [NoTransfer EXCEPT !.state = "SETUP_PENDING", !.ssl = ssl]), t)

\* One pass of the suggest loop.
SuggestFile(w, t, m, local, ssl) ==
    LET new == InitTransfer(w, t, ssl)
        set == Put(new, t, [new.xfer[t] EXCEPT !.meth = m, !.local = local])
    IN  IF m = "PASSIVE" THEN SendSuggest(set, t)
        ELSE {SetState(set, t, "ACTIVE_RESOLVE_SRC_IP")}

-----------------------------------------------------------------------------
(* The user and the two windows.  An open menu has the pointer to itself.  *)

windows == <<popup, menu, dialog, edits, cleared>>

Edit == edits < MaxEdits /\ edits' = edits + 1

\* The suggest button: one pass for each of the files that were chosen.
UISuggest(files, m, local, ssl) ==
    /\ ~menu
    /\ ctl # "CLOSED"
    /\ \A i \in DOMAIN files : xfer[files[i]].state = "NONE"
    /\ m = "PASSIVE" => ~ssl
    /\ m = "ACTIVE" => ~local
    /\ \E w \in FoldLeft(LAMBDA W, t : Then(W, LAMBDA v : SuggestFile(v, t, m, local, ssl)),
                         {Now}, files) : Become(w)
    /\ UNCHANGED windows

\* A right click on a row of the unapproved window.
Click(t) ==
    /\ ~menu
    /\ Find(row["UNAPPROVED"], t) # 0
    /\ popup' = t
    /\ menu' = TRUE
    /\ UNCHANGED <<ctl, xfer, row, dialog, edits, cleared>>

\* An item of the menu is chosen, or none.  The transfer may have moved on,
\* even to the other window, since its row was clicked.  The pointer is kept as
\* long as the menu or the dialog may use it.
Choose(shown) ==
    /\ menu
    /\ menu' = FALSE
    /\ dialog' = shown
    /\ popup' = IF shown THEN popup ELSE Nobody

MenuNone == Choose(dialog) /\ UNCHANGED <<ctl, xfer, row, edits, cleared>>

MenuEditSettings ==
    /\ Choose(popup \in Incoming)
    /\ UNCHANGED <<ctl, xfer, row, edits, cleared>>

\* Mutant of MenuAccept: the state of the transfer is not looked at.
MenuAcceptAnything ==
    /\ Choose(dialog)
    /\ popup \in Incoming
    /\ \/ /\ xfer[popup].meth = "PASSIVE"
          /\ \E w \in SetupPassiveAccept(Now, popup) : Become(w)
       \/ /\ xfer[popup].meth = "ACTIVE"
          /\ Become(SetState(Now, popup, "ACTIVE_RESOLVE_SRC_IP"))
    /\ UNCHANGED <<edits, cleared>>

MenuAccept ==
    /\ Choose(dialog)
    /\ popup \in Incoming
    /\ xfer[popup].state = "SETUP_PENDING"
    /\ \/ /\ xfer[popup].meth = "PASSIVE"
          /\ \E w \in SetupPassiveAccept(Now, popup) : Become(w)
       \/ /\ xfer[popup].meth = "ACTIVE"
          /\ Become(SetState(Now, popup, "ACTIVE_RESOLVE_SRC_IP"))
    /\ UNCHANGED <<edits, cleared>>

MenuDecline ==
    /\ Choose(dialog)
    /\ popup \in Incoming
    /\ xfer[popup].state = "SETUP_PENDING"
    /\ \E w \in SendVerdict(Now, popup, "DECLINED") : Become(w)
    /\ UNCHANGED <<edits, cleared>>

MenuAbort ==
    /\ Choose(dialog)
    /\ Become(Abort(Now, popup))
    /\ UNCHANGED <<edits, cleared>>

\* ui_data_transfer_change removes the row from the window of the verdict.
MenuClear ==
    /\ Choose(dialog)
    /\ Edit
    /\ Become(RemoveRow(Now, WindowOf(xfer[popup]), popup))
    /\ cleared' = cleared \cup {<<popup, WindowOf(xfer[popup])>>}

\* The apply button of the settings dialog: it works on the transfer that was
\* clicked last, in whatever state it is.  The setters come first: the directory
\* and the position are written after the last of them.  The position is left
\* alone if the entry holds no number; a passive method takes no SSL setting.
Apply(local, ssl, directory, position) ==
    /\ dialog /\ ~menu
    /\ Edit
    /\ LET x == xfer[popup]
           set == IF x.meth = "ACTIVE" THEN [x EXCEPT !.ssl = ssl]
                  ELSE [x EXCEPT !.local = local]
           shown == Put(Put(Now, popup, x), popup, set)
           moved == [shown EXCEPT !.xfer[popup].directory = directory,
                                  !.xfer[popup].applied =
                                      IF directory = x.directory THEN @ ELSE x.state]
       IN  \/ Become([moved EXCEPT !.xfer[popup].position = position])
           \/ Become(moved)
    /\ dialog' = FALSE
    /\ popup' = Nobody
    /\ UNCHANGED <<menu, cleared>>

Cancel ==
    /\ dialog /\ ~menu
    /\ dialog' = FALSE
    /\ popup' = Nobody
    /\ UNCHANGED <<ctl, xfer, row, menu, edits, cleared>>

\* The menu of the approved window, whose rows never leave it by themselves.
OnApproved(t) == ~menu /\ Find(row["APPROVED"], t) # 0

SetTransferState(t, paused) ==
    /\ OnApproved(t)
    /\ IF paused THEN Edit ELSE UNCHANGED edits
    /\ Become(Put(Now, t, [xfer[t] EXCEPT !.paused = paused]))
    /\ UNCHANGED <<popup, menu, dialog, cleared>>

AbortApproved(t) ==
    /\ OnApproved(t)
    /\ Become(Abort(Now, t))
    /\ UNCHANGED windows

ClearApproved(t) ==
    /\ OnApproved(t)
    /\ Edit
    /\ Become(RemoveRow(Now, WindowOf(xfer[t]), t))
    /\ cleared' = cleared \cup {<<t, WindowOf(xfer[t])>>}
    /\ UNCHANGED <<popup, menu, dialog>>

-----------------------------------------------------------------------------
(* Commands of the peer.                                                   *)

\* file_suggest_command_process_cb: the connection method and the address are
\* set by hand and shown by the announcement at its end.
ReceiveSuggest(t, m) ==
    /\ ctl = "ESTABLISHED"
    /\ xfer[t].state = "NONE"
    /\ LET new == InitTransfer(Now, t, FALSE)
       IN  Become(Put(new, t, [new.xfer[t] EXCEPT !.meth = m, !.address = TRUE]))
    /\ UNCHANGED windows

\* file_verdict_command_process_cb
ReceiveVerdict(t, v, position) ==
    /\ ctl = "ESTABLISHED"
    /\ \/ /\ xfer[t].state = "VERDICT_PENDING"
          /\ LET ruled == SetVerdict(Now, t, v)
                 told == [ruled EXCEPT !.xfer[t].position = position, !.xfer[t].address = TRUE]
             IN  \E w \in IF v = "DECLINED" THEN {Abort(ruled, t)}
                          ELSE IF xfer[t].meth = "PASSIVE" THEN SetupPassiveAccept(told, t)
                          ELSE SetPrepared(told, t) : Become(UpdateRow(w, t))
       \/ xfer[t].state = "ABORTED" /\ Become(UpdateRow(Now, t))
    /\ UNCHANGED windows

\* The end of the control connection, or the disconnect button.
Disconnect ==
    /\ ctl = "ESTABLISHED"
    /\ Become(CtlConClose(Now))
    /\ UNCHANGED windows

-----------------------------------------------------------------------------
(* The tick: handle_data_transfer_state and the connections.               *)

SourceResolved(t) ==
    /\ xfer[t].state = "ACTIVE_RESOLVE_SRC_IP"
    /\ \/ /\ t \in Incoming
          /\ \E w \in Then(SendVerdict(Now, t, "ACCEPTED"), LAMBDA v : SetPrepared(v, t)) :
                Become(w)
       \/ /\ t \in Outgoing
          /\ \E w \in SendSuggest(SetState(Now, t, "VERDICT_PENDING"), t) : Become(w)
       \/ Become(Abort(Now, t))
    /\ UNCHANGED windows

EntryResolved(t) ==
    /\ xfer[t].state = "PASSIVE_RESOLVE_ACCEPT_IP"
    /\ \/ /\ t \in Incoming
          /\ \E w \in Then(SendVerdict(Now, t, "ACCEPTED"), LAMBDA v : SetPrepared(v, t)) :
                Become(w)
       \/ /\ t \in Outgoing
          /\ \E w \in SetPrepared(Now, t) : Become(w)
       \/ Become(Abort([Now EXCEPT !.xfer[t].entry = FALSE], t))
    /\ UNCHANGED windows

\* The peer is prepared.
StartTransfer(t) ==
    /\ xfer[t].state = "PREPARATION_PENDING"
    /\ Become(SetState(Now, t, "TRANSFERING"))
    /\ UNCHANGED windows

\* The data connection of an active transfer is established.
Connect(t) ==
    /\ xfer[t].meth = "ACTIVE" /\ xfer[t].state = "TRANSFERING"
    /\ xfer[t].con = "NONE"
    /\ xfer' = [xfer EXCEPT ![t].con = "ESTABLISHED"]
    /\ UNCHANGED <<ctl, row, windows>>

\* server_handle_con gives a connection to a passive one, and the server's SSL
\* setting with it.  The entry of an aborted transfer still admits one.
Admit(t) ==
    /\ xfer[t].entry
    /\ xfer[t].state # "PASSIVE_RESOLVE_ACCEPT_IP"
    /\ xfer' = [xfer EXCEPT ![t].entry = FALSE, ![t].ssl = ServerSSL,
                            ![t].con = IF xfer[t].state \in Ended THEN "NONE"
                                       ELSE IF ServerSSL THEN "SSL_VERIFY" ELSE "ESTABLISHED"]
    /\ UNCHANGED <<ctl, row, windows>>

\* Its handshake succeeds; one that fails is not noticed.
Verify(t) ==
    /\ xfer[t].con = "SSL_VERIFY"
    /\ xfer' = [xfer EXCEPT ![t].con = "ESTABLISHED"]
    /\ UNCHANGED <<ctl, row, windows>>

Running(t) == xfer[t].state = "TRANSFERING" /\ xfer[t].con = "ESTABLISHED"

\* Mutant of Move: the sender does not stop at the end of its file.
MoveBeyond(t, elapsed) ==
    /\ Running(t)
    /\ ~ xfer[t].paused
    /\ LET w == SetIO([Now EXCEPT !.xfer[t].current = @ + 1], t, elapsed)
       IN  Become(IF t \in Incoming /\ w.xfer[t].current = Size
                  THEN SetState(w, t, "COMPLETED") ELSE w)
    /\ UNCHANGED windows

\* handle_data_recv, handle_data_send: some bytes have gone through.  Only the
\* receiver completes at once.
Move(t, elapsed) ==
    /\ Running(t)
    /\ ~ xfer[t].paused
    /\ xfer[t].current < Size
    /\ LET w == SetIO([Now EXCEPT !.xfer[t].current = @ + 1], t, elapsed)
       IN  Become(IF t \in Incoming /\ w.xfer[t].current = Size
                  THEN SetState(w, t, "COMPLETED") ELSE w)
    /\ UNCHANGED windows

\* Paused, or nothing to read or to write yet.
Wait(t, elapsed) ==
    /\ Running(t)
    /\ Become(SetIO(Now, t, elapsed))
    /\ UNCHANGED windows

\* The sender has nothing left to send.
Complete(t) ==
    /\ Running(t)
    /\ t \in Outgoing
    /\ xfer[t].current = Size
    /\ Become(SetState(Now, t, "COMPLETED"))
    /\ UNCHANGED windows

\* The file cannot be opened, or the connection fails (data_con_close).
Fail(t) ==
    /\ Running(t)
    /\ Become(Abort(Now, t))
    /\ UNCHANGED windows

-----------------------------------------------------------------------------
User ==
    \/ \E files \in SetToAllKPermutations(Outgoing) \ {<<>>},
          m \in Method, local, ssl \in BOOLEAN : UISuggest(files, m, local, ssl)
    \/ \E t \in Transfer : Click(t) \/ AbortApproved(t) \/ ClearApproved(t)
    \/ \E t \in Transfer, paused \in BOOLEAN : SetTransferState(t, paused)
    \/ MenuNone \/ MenuEditSettings \/ MenuAccept \/ MenuDecline \/ MenuAbort \/ MenuClear
    \/ \E local, ssl \in BOOLEAN, directory \in Directory, position \in Position :
          Apply(local, ssl, directory, position)
    \/ Cancel

Peer ==
    \/ \E t \in Incoming, m \in Method : ReceiveSuggest(t, m)
    \/ \E t \in Outgoing, v \in {"ACCEPTED", "DECLINED"}, position \in Position :
          ReceiveVerdict(t, v, position)
    \/ Disconnect

Tick(t) ==
    \/ SourceResolved(t) \/ EntryResolved(t) \/ StartTransfer(t)
    \/ Connect(t) \/ Admit(t) \/ Verify(t) \/ Complete(t) \/ Fail(t)
    \/ \E elapsed \in BOOLEAN : Move(t, elapsed) \/ Wait(t, elapsed)

Next == User \/ Peer \/ \E t \in Transfer : Tick(t)

Spec == Init /\ [][Next]_vars

-----------------------------------------------------------------------------
(* Properties.                                                             *)

Rows(w, t) == {i \in DOMAIN row[w] : row[w][i].of = t}

\* Every transfer has exactly one row, in the window of its verdict, from the
\* handler that made it to the end of the program, unless the user cleared it
\* from that window: failing sends that abort the transfer while its verdict
\* is set, and repeated announcements, neither lose nor double a row.
OneRow ==
    \A t \in Transfer, w \in Window :
        Cardinality(Rows(w, t)) =
            IF xfer[t].state # "NONE" /\ w = WindowOf(xfer[t]) /\ <<t, w>> \notin cleared
            THEN 1 ELSE 0

\* The directory is shown, or Apply has changed it in this very state.
DirectoryShown(r, x) == r.directory = x.directory \/ x.applied = x.state

\* Between two callbacks a row shows what its transfer is: whichever path a
\* handler took, the last change it made was announced.  The code leaves two
\* columns out: the SSL setting of an aborted transfer whose entry admits a
\* connection, and the directory, which Apply writes when it has announced all
\* else.  The old one stays in the row, but not beyond the next change of the
\* transfer's state.
ShownIsCurrent ==
    /\ \A i \in DOMAIN row["UNAPPROVED"] :
         LET r == row["UNAPPROVED"][i]
             x == xfer[r.of]
         IN  /\ r.state = x.state /\ r.meth = x.meth /\ r.verdict = x.verdict
             /\ r.address = x.address
             /\ DirectoryShown(r, x)
             /\ r.ssl = x.ssl \/ x.state = "ABORTED"
    /\ \A i \in DOMAIN row["APPROVED"] :
         LET r == row["APPROVED"][i]
             x == xfer[r.of]
         IN  /\ r.state = x.state /\ r.meth = x.meth /\ r.paused = x.paused
             /\ DirectoryShown(r, x)

\* The progress of a transfer that has ended is its final one, although it is
\* written at intervals only and skipped when no bytes have moved since: a
\* completed transfer shows all of its file, an aborted one how far it came or,
\* if nothing went through, no progress at all.
FinalProgress ==
    \A i \in DOMAIN row["APPROVED"] :
        LET r == row["APPROVED"][i]
            x == xfer[r.of]
        IN  /\ x.state = "COMPLETED" => r.progress = Size
            /\ x.state = "ABORTED" =>
                   r.progress = x.current \/ (r.progress = 0 /\ x.current = x.from)

\* A verdict is final.  The user, the peer and the tick may each give one,
\* and the menu acts on a transfer that has moved on since it was opened.
VerdictOnce ==
    [][\A t \in Transfer :
          xfer[t].verdict # "PENDING" => xfer'[t].verdict = xfer[t].verdict]_vars
=============================================================================
