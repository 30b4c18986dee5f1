----------------------------- MODULE CtlStream -----------------------------
(***************************************************************************)
(* One direction of a control connection as a stream of bytes              *)
(* (command_pack, handle_ctl_recv, get_end_of_message).  A command is a    *)
(* line of text that ends with CR LF.  TCP keeps the bytes in order but    *)
(* hands them over in pieces of any size, and the receiver has a buffer of *)
(* limited size in which it looks for the end of the first line.           *)
(* Every command here has one argument, a text that is encoded.            *)
(***************************************************************************)
EXTENDS Naturals, Sequences, SequencesExt, FiniteSetsExt, UrlCoding, LinkedList

CONSTANTS
    Text,       \* the texts that users send, each the argument of a command
    ArgLen,     \* size of the buffer an argument is encoded into
    BufLen,     \* CTL_BUFFER_LEN
    MaxSent,    \* bound on the commands sent
    MaxOverlong,\* bound on the lines sent that are longer than the buffer
    Splits      \* whether a read may end between CR and LF

ASSUME BoundsAssumption ==
    /\ Text \subseteq Seq(Byte) \ {<<>>}
    /\ ArgLen \in Nat /\ ArgLen > 3  \* the smallest, that of "NULL", has 5
    /\ BufLen \in Nat
    /\ ArgLen + 2 <= BufLen - 1
    /\ MaxSent \in Nat
    /\ MaxOverlong \in Nat
    /\ Splits \in BOOLEAN

CR == 13
LF == 10
Name == 84      \* the name of a command and the blank behind it
Other == 63     \* no name begins with it

VARIABLES
    sent,       \* the texts sent
    overlong,   \* how many other lines were sent
    wire,       \* bytes sent and not yet read
    buf,        \* ctl_buffer, up to ctl_buffer_offset
    got,        \* the texts that reached the backlog
    ctl_cmd_backlog  \* the list of the commands that wait to be processed

vars == <<sent, overlong, wire, buf, got, ctl_cmd_backlog>>

\* command_pack
Line == [c \in Text |-> <<Name>> \o Encode(c, ArgLen) \o <<CR, LF>>]

\* What is made of a text on its way.
Received == [c \in Text |-> Decode(Encode(c, ArgLen), ArgLen)]

\* The end of the first line: the first CR, and only without one the first LF.
Ends(b) ==
    IF Contains(b, CR) THEN {j \in DOMAIN b : b[j] = CR}
    ELSE {j \in DOMAIN b : b[j] = LF}

\* Mutant of Skip: one byte of the terminator is removed.
SkipOne(b, e) == e

\* The last byte of the terminator that begins at e: all CR and LF that follow.
Skip(b, e) ==
    Max({j \in e .. Len(b) : \A k \in e .. j : b[k] \in {CR, LF}})

TypeOK ==
    /\ sent \in Seq(Text)
    /\ overlong \in 0 .. MaxOverlong
    /\ wire \in Seq(Byte)
    /\ buf \in Seq(Byte)
    /\ Len(buf) < BufLen
    /\ got \in Seq(Seq(Byte))
    /\ Values(ctl_cmd_backlog) \in Seq(Seq(Byte))

Init ==
    /\ sent = <<>>
    /\ overlong = 0
    /\ wire = <<>>
    /\ buf = <<>>
    /\ got = <<>>
    /\ ctl_cmd_backlog = EmptyList

\* command_pack and handle_ctl_send, which sends all of it.
Send(c) ==
    /\ Len(sent) < MaxSent
    /\ sent' = Append(sent, c)
    /\ wire' = wire \o Line[c]
    /\ UNCHANGED <<overlong, buf, got, ctl_cmd_backlog>>

\* A peer that is another program may send a line that does not fit.
SendOverlong ==
    /\ overlong < MaxOverlong
    /\ overlong' = overlong + 1
    /\ \E n \in BufLen - 1 .. BufLen :
         wire' = wire \o [j \in 1 .. n |-> Other] \o <<CR, LF>>
    /\ UNCHANGED <<sent, buf, got, ctl_cmd_backlog>>

\* Mutant of Recv: what is in the buffer is not deducted from its size.
RecvFull ==
    /\ Ends(buf) = {} /\ Len(buf) < BufLen - 1 /\ ctl_cmd_backlog.top = NULL
    /\ \E n \in 1 .. Len(wire) :
         /\ n <= BufLen - 1
         /\ wire[n] # CR \/ Splits
         /\ buf' = buf \o SubSeq(wire, 1, n)
         /\ wire' = SubSeq(wire, n + 1, Len(wire))
    /\ UNCHANGED <<sent, overlong, got, ctl_cmd_backlog>>

\* handle_ctl_recv reads a piece behind what is in the buffer, when the loop
\* below has left no line, the buffer is not full and all commands of the last
\* piece were processed.
Recv ==
    /\ Ends(buf) = {} /\ Len(buf) < BufLen - 1 /\ ctl_cmd_backlog.top = NULL
    /\ \E n \in 1 .. Len(wire) :
         /\ n <= BufLen - 1 - Len(buf)
         /\ wire[n] # CR \/ Splits
         /\ buf' = buf \o SubSeq(wire, 1, n)
         /\ wire' = SubSeq(wire, n + 1, Len(wire))
    /\ UNCHANGED <<sent, overlong, got, ctl_cmd_backlog>>

\* One round of its loop, which is over before anything else is read.  The
\* first line is moved out of the buffer with its terminator; if it is a command
\* with an argument, its text joins the backlog (process_protocol_command).
Extract ==
    /\ Ends(buf) # {}
    /\ LET e == Min(Ends(buf))
           text == Decode(SubSeq(buf, 2, e - 1), ArgLen)
       IN  /\ IF e > 2 /\ buf[1] = Name
              THEN /\ got' = Append(got, text)
                   /\ ctl_cmd_backlog' = Add(ctl_cmd_backlog, text)
              ELSE UNCHANGED <<got, ctl_cmd_backlog>>
           /\ buf' = SubSeq(buf, Skip(buf, e) + 1, Len(buf))
    /\ UNCHANGED <<sent, overlong, wire>>

\* After the loop: an unfinished line that fills the buffer is dropped.
Overflow ==
    /\ Ends(buf) = {} /\ Len(buf) >= BufLen - 1
    /\ buf' = <<>>
    /\ UNCHANGED <<sent, overlong, wire, got, ctl_cmd_backlog>>

\* ctl_process_cmd_iter_cb: every command of the backlog is processed, then all
\* are removed.
Process ==
    /\ Ends(buf) = {} /\ Len(buf) < BufLen - 1
    /\ ctl_cmd_backlog.top # NULL
    /\ ctl_cmd_backlog' = RemAllEntries(ctl_cmd_backlog)
    /\ UNCHANGED <<sent, overlong, wire, buf, got>>

Receive == Recv \/ Extract \/ Overflow \/ Process

Next == Receive \/ SendOverlong \/ \E c \in Text : Send(c)

Spec == Init /\ [][Next]_vars

\* Every tick reads what has arrived and all of it arrives.
FairSpec == Spec /\ WF_vars(Receive)

-----------------------------------------------------------------------------
(* Properties.                                                             *)

Channel == INSTANCE CommandChannel
    WITH Command <- Range(Received),
         queue <- [i \in 1 .. Len(sent) - Len(got) |-> Received[sent[Len(got) + i]]]

\* The stream provides the channel that Negotiation uses: whatever the texts
\* contain, CR and LF included, however the bytes are cut (except between CR and
\* LF) and whatever the buffer holds when it is full, commands are processed in
\* order, none is lost, and a line that does not fit costs no command but itself.
ProvidesChannel == Channel!Spec

\* What a text should arrive as: cut at the first byte below 16, with all bytes
\* above 127 turned into 255.
Legible(text) ==
    LET small == {i \in DOMAIN text : text[i] < 16}
        end == IF small = {} THEN Len(text) ELSE Min(small) - 1
    IN  [i \in 1 .. end |-> IF text[i] > 127 THEN 255 ELSE text[i]]

\* The coding undoes itself on printable text, blanks and percent signs
\* included, and loses no more of another one than its bytes below 16 and above
\* 127 and what the buffer has no room for.
TextArrives ==
    \A i \in DOMAIN got :
        /\ IsPrefix(got[i], Legible(sent[i]))
        /\ 3 * Len(sent[i]) < ArgLen => got[i] = Legible(sent[i])

\* What waits in the backlog are the last commands that came, in their order,
\* and any item of its list can be removed without harm to the others.
BacklogIsSequence ==
    /\ IsSuffix(Values(ctl_cmd_backlog), got)
    /\ Removable(ctl_cmd_backlog)

\* sd_protocol.c:487 says of the loop "extract all messages": the commands
\* processed are the first of those sent, however the stream is cut.
AllExtracted == IsPrefix(got, [i \in DOMAIN sent |-> Received[sent[i]]])
=============================================================================
