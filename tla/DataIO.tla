------------------------------- MODULE DataIO -------------------------------
(***************************************************************************)
(* The bytes of one file on an established data connection                 *)
(* (handle_data_send, handle_data_recv, file_open).  Both ends have just   *)
(* entered TRANSFERING.  A byte is represented by its position in the      *)
(* sender's file.                                                          *)
(***************************************************************************)
EXTENDS Naturals, Sequences

CONSTANTS
    MaxSize,    \* bound on the sizes of files and on positions in them
    BufLen,     \* DATA_BUFFER_LEN
    WireCap,    \* how many bytes the sockets hold between the ends
    MaxFaults   \* bound on failures of files and sockets and on aborts

ASSUME BoundsAssumption ==
    /\ MaxSize \in Nat
    /\ BufLen \in Nat \ {0}
    /\ WireCap \in Nat \ {0}
    /\ MaxFaults \in Nat

\* What a place in the receiver's file holds: a byte of the sender's file, or
\* Old, which is none.
Old == MaxSize
Content == 0 .. MaxSize

VARIABLES
    file,     \* sizes: suggested, actual, existing; start is the position agreed
    snd,      \* the sender's struct sd_data_transfer_info
    buf,      \* its data_buffer
    wire,     \* bytes sent and not yet read, oldest first
    rcv,      \* the receiver's struct sd_data_transfer_info
    out,      \* what the receiver's file holds at each position
    faults    \* failures, and aborts by the users, so far

vars == <<file, snd, buf, wire, rcv, out, faults>>

Ended == {"COMPLETED", "ABORTED"}

TypeOK ==
    /\ file \in [size : 0 .. MaxSize, actual : 0 .. MaxSize,
                 existing : 0 .. MaxSize, start : 0 .. MaxSize]
    /\ snd \in [state : {"TRANSFERING"} \cup Ended, opened : BOOLEAN,
                paused : BOOLEAN, position : 0 .. MaxSize, total : 0 .. MaxSize,
                lower : 0 .. BufLen, window : 0 .. BufLen]
    /\ snd.lower + snd.window <= Len(buf)
    /\ buf \in Seq(Content)
    /\ wire \in Seq(Content)
    /\ rcv \in [state : {"TRANSFERING"} \cup Ended, opened : BOOLEAN,
                paused : BOOLEAN, position : 0 .. MaxSize, total : 0 .. MaxSize]
    /\ out \in [0 .. MaxSize - 1 -> Content]
    /\ faults \in Nat

\* data_transfer_init and data_transfer_init_io.  A receiver that resumes
\* has the beginning of this very file; what lies behind it is older.
Init ==
    /\ file \in [size : 0 .. MaxSize, actual : 0 .. MaxSize,
                 existing : 0 .. MaxSize, start : 0 .. MaxSize]
    /\ snd = [state |-> "TRANSFERING", opened |-> FALSE, paused |-> FALSE,
              position |-> file.start, total |-> file.start,
              lower |-> 0, window |-> 0]
    /\ buf = <<>>
    /\ wire = <<>>
    /\ rcv = [state |-> "TRANSFERING", opened |-> FALSE, paused |-> FALSE,
              position |-> file.start, total |-> file.start]
    /\ out = [j \in 0 .. MaxSize - 1 |-> IF j < file.start THEN j ELSE Old]
    /\ faults = 0

Fault == faults < MaxFaults /\ faults' = faults + 1

-----------------------------------------------------------------------------
(* The sender.                                                             *)

\* file_open: a position behind the end of the file is refused and aborts.
SndOpen ==
    /\ snd.state = "TRANSFERING"
    /\ ~snd.opened
    /\ \/ /\ snd.position <= file.actual
          /\ snd' = [snd EXCEPT !.opened = TRUE]
          /\ UNCHANGED faults
       \/ /\ \/ snd.position > file.actual /\ UNCHANGED faults
             \/ Fault
          /\ snd' = [snd EXCEPT !.state = "ABORTED"]
    /\ UNCHANGED <<file, buf, wire, rcv, out>>

\* Mutant of Sent: a partial send leaves the offset where it was.
SentAll(n) == [snd EXCEPT !.window = @ - n, !.total = @ + n]

\* n bytes at the start of the window have been sent.
Sent(n) ==
    [snd EXCEPT !.window = @ - n, !.lower = @ + n, !.total = @ + n]

\* The window is not empty and the transfer not paused: send some of it.
\* What is sent to a receiver that has closed is lost or makes send fail.
SndSend ==
    /\ snd.state = "TRANSFERING"
    /\ snd.opened
    /\ snd.window > 0
    /\ ~snd.paused
    /\ \/ \E n \in 1 .. snd.window :
            /\ Len(wire) + n <= WireCap
            /\ snd' = Sent(n)
            /\ wire' = IF rcv.state = "TRANSFERING"
                       THEN wire \o SubSeq(buf, snd.lower + 1, snd.lower + n)
                       ELSE wire
            /\ UNCHANGED faults
       \/ /\ \/ rcv.state # "TRANSFERING" /\ UNCHANGED faults
             \/ Fault
          /\ snd' = [snd EXCEPT !.state = "ABORTED", !.opened = FALSE]
          /\ UNCHANGED wire
    /\ UNCHANGED <<file, buf, rcv, out>>

\* Mutant of Wanted: the size of the buffer is not looked at.
WantedAll == file.size - snd.position

\* How many bytes are asked for: a buffer full or what is left of the file.
Wanted == IF file.size - snd.position < BufLen THEN file.size - snd.position
          ELSE BufLen

\* Mutant of SndFill: complete as soon as the whole file has been read.
SndFillEager ==
    /\ snd.state = "TRANSFERING"
    /\ snd.opened
    /\ snd.window = 0 \/ snd.position >= file.size
    /\ \/ /\ snd.position >= file.size
          /\ snd' = [snd EXCEPT !.state = "COMPLETED", !.opened = FALSE, !.lower = 0]
          /\ UNCHANGED <<buf, faults>>
       \/ /\ snd.position < file.size
          /\ snd.position + Wanted <= file.actual
          /\ buf' = [i \in 1 .. Wanted |-> snd.position + i - 1]
          /\ snd' = [snd EXCEPT !.lower = 0, !.window = Wanted, !.position = @ + Wanted]
          /\ UNCHANGED faults
    /\ UNCHANGED <<file, wire, rcv, out>>

\* The window is empty, paused or not: complete, or read the next bytes.  A
\* file that has become shorter than it was suggested ends the transfer.
SndFill ==
    /\ snd.state = "TRANSFERING"
    /\ snd.opened
    /\ snd.window = 0
    /\ \/ /\ snd.total >= file.size
          /\ snd' = [snd EXCEPT !.state = "COMPLETED", !.opened = FALSE, !.lower = 0]
          /\ UNCHANGED <<buf, faults>>
       \/ /\ snd.total < file.size
          /\ snd.position + Wanted <= file.actual
          /\ buf' = [i \in 1 .. Wanted |-> snd.position + i - 1]
          /\ snd' = [snd EXCEPT !.lower = 0, !.window = Wanted, !.position = @ + Wanted]
          /\ UNCHANGED faults
       \/ /\ snd.total < file.size
          /\ \/ snd.position + Wanted > file.actual /\ UNCHANGED faults
             \/ Fault
          /\ snd' = [snd EXCEPT !.state = "ABORTED", !.opened = FALSE, !.lower = 0]
          /\ UNCHANGED buf
    /\ UNCHANGED <<file, wire, rcv, out>>

-----------------------------------------------------------------------------
(* The receiver.                                                           *)

RcvOpen ==
    /\ rcv.state = "TRANSFERING"
    /\ ~rcv.opened
    /\ \/ /\ rcv.position <= file.existing
          /\ rcv' = [rcv EXCEPT !.opened = TRUE]
          /\ UNCHANGED faults
       \/ /\ \/ rcv.position > file.existing /\ UNCHANGED faults
             \/ Fault
          /\ rcv' = [rcv EXCEPT !.state = "ABORTED"]
    /\ UNCHANGED <<file, snd, buf, wire, out>>

\* Mutant of Written: counts the bytes of this connection only.
WrittenHere(n) ==
    LET r == [rcv EXCEPT !.position = @ + n, !.total = @ + n]
    IN  IF r.total >= file.size - file.start
        THEN [r EXCEPT !.state = "COMPLETED", !.opened = FALSE]
        ELSE r

\* Mutant of Written: waits for one byte more than the file has.
WrittenPast(n) ==
    LET r == [rcv EXCEPT !.position = @ + n, !.total = @ + n]
    IN  IF r.total > file.size
        THEN [r EXCEPT !.state = "COMPLETED", !.opened = FALSE]
        ELSE r

\* The receiver after it has written n bytes: complete when they are all there.
Written(n) ==
    LET r == [rcv EXCEPT !.position = @ + n, !.total = @ + n]
    IN  IF r.total >= file.size
        THEN [r EXCEPT !.state = "COMPLETED", !.opened = FALSE]
        ELSE r

\* Read what has arrived, at most a buffer full, and write all of it.
RcvRead ==
    /\ rcv.state = "TRANSFERING"
    /\ rcv.opened
    /\ ~rcv.paused
    /\ \/ \E n \in 1 .. BufLen :
            /\ n <= Len(wire)
            /\ out' = [j \in DOMAIN out |->
                         IF rcv.position <= j /\ j < rcv.position + n
                         THEN wire[j - rcv.position + 1] ELSE out[j]]
            /\ wire' = SubSeq(wire, n + 1, Len(wire))
            /\ rcv' = Written(n)
            /\ UNCHANGED faults
       \/ /\ Fault
          /\ rcv' = [rcv EXCEPT !.state = "ABORTED", !.opened = FALSE]
          /\ UNCHANGED <<wire, out>>
    /\ UNCHANGED <<file, snd, buf>>

\* The sender has closed and everything it sent was read: data_con_close.
RcvEnd ==
    /\ rcv.state = "TRANSFERING"
    /\ rcv.opened
    /\ ~rcv.paused
    /\ snd.state # "TRANSFERING"
    /\ wire = <<>>
    /\ rcv' = [rcv EXCEPT !.state = "ABORTED", !.opened = FALSE]
    /\ UNCHANGED <<file, snd, buf, wire, out, faults>>

-----------------------------------------------------------------------------
(* The users.                                                              *)

SndPause(p) ==
    /\ snd.state = "TRANSFERING"
    /\ snd.paused # p
    /\ snd' = [snd EXCEPT !.paused = p]
    /\ UNCHANGED <<file, buf, wire, rcv, out, faults>>

RcvPause(p) ==
    /\ rcv.state = "TRANSFERING"
    /\ rcv.paused # p
    /\ rcv' = [rcv EXCEPT !.paused = p]
    /\ UNCHANGED <<file, snd, buf, wire, out, faults>>

\* data_transfer_abort closes the socket and leaves the file open.
SndAbort ==
    /\ snd.state = "TRANSFERING"
    /\ Fault
    /\ snd' = [snd EXCEPT !.state = "ABORTED"]
    /\ UNCHANGED <<file, buf, wire, rcv, out>>

RcvAbort ==
    /\ rcv.state = "TRANSFERING"
    /\ Fault
    /\ rcv' = [rcv EXCEPT !.state = "ABORTED"]
    /\ UNCHANGED <<file, snd, buf, wire, out>>

-----------------------------------------------------------------------------
Sender == SndOpen \/ SndSend \/ SndFill
Receiver == RcvOpen \/ RcvRead \/ RcvEnd
User == SndAbort \/ RcvAbort \/ \E p \in BOOLEAN : SndPause(p) \/ RcvPause(p)

Next == Sender \/ Receiver \/ User

Spec == Init /\ [][Next]_vars

\* Each tick handles every transfer; sockets that have room or bytes say so.
FairSpec == Spec /\ WF_vars(Sender) /\ WF_vars(Receiver)

-----------------------------------------------------------------------------
(* Properties.                                                             *)

\* Nothing is lost, repeated or reordered by partial sends and reads, by
\* pauses and by a transfer that starts in the middle of the file: while both
\* ends are at it the bytes on the wire and those in the window continue what
\* the receiver has written, up to the position of the sender's file.
Gapless ==
    /\ snd.state = "TRANSFERING" =>
          /\ snd.total + snd.window = snd.position
          /\ \A i \in 1 .. snd.window : buf[snd.lower + i] = snd.total + i - 1
    /\ rcv.state = "TRANSFERING" =>
          /\ rcv.total = rcv.position
          /\ rcv.total + Len(wire) = snd.total
          /\ \A i \in 1 .. Len(wire) : wire[i] = rcv.total + i - 1

\* A receiver that reports completion has every byte of the file in place,
\* whether the transfer was resumed, paused or read in pieces, and has written
\* nothing behind its end.
CompletedIsWhole ==
    rcv.state = "COMPLETED" =>
        /\ \A j \in 0 .. file.size - 1 : out[j] = j
        /\ rcv.position = file.size

\* A sender that reports completion has sent every byte: what the receiver,
\* if it is still there, has not written is on its way to it.
CompletedIsSent ==
    snd.state = "COMPLETED" /\ rcv.state = "TRANSFERING" =>
        rcv.total + Len(wire) >= file.size

\* Without failures and aborts, and once neither user keeps it paused, a
\* transfer of at least one byte completes at both ends.
Completes ==
    ([](faults = 0) /\ <>[](~snd.paused /\ ~rcv.paused)
        /\ file.start < file.size /\ file.size <= file.actual
        /\ file.start <= file.existing)
    => <>(snd.state = "COMPLETED" /\ rcv.state = "COMPLETED")

\* sd_peers.h:68 says of DATA_TRANSFER_STATE_COMPLETED "sent/recv all": a
\* receiver that could open its file and lacks no byte when the sender has
\* completed is not aborted.
ReceivedAllCompletes ==
    file.start <= file.existing /\ snd.state = "COMPLETED" /\ rcv.total >= file.size
        => rcv.state # "ABORTED"
=============================================================================
