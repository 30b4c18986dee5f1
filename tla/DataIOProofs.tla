---------------------------- MODULE DataIOProofs ----------------------------
(***************************************************************************)
(* What holds of the bytes of a file for every size of file, buffer and    *)
(* socket and every number of failures.                                    *)
(***************************************************************************)
EXTENDS DataIO, SequenceTheorems, TLAPS

-----------------------------------------------------------------------------
(* The inductive invariant.                                                *)

\* The sender accounts for what it has read from its file, and the window
\* holds the bytes that come next.  It reads nothing behind the end.
SenderAccounts ==
    /\ Len(buf) <= BufLen
    /\ snd.total + snd.window = snd.position
    /\ file.start <= snd.total
    /\ snd.position <= file.size \/ snd.position = file.start
    /\ \A i \in 1 .. snd.window : buf[snd.lower + i] = snd.total + i - 1
    /\ snd.state = "COMPLETED" => file.size <= snd.total

\* The wire continues what the receiver has written.
WireContinues ==
    rcv.state = "TRANSFERING" =>
        /\ rcv.total = rcv.position
        /\ file.start <= rcv.total
        /\ rcv.total + Len(wire) = snd.total
        /\ \A i \in 1 .. Len(wire) : wire[i] = rcv.total + i - 1

\* What the receiver has written is in its place.
Placed ==
    rcv.state = "TRANSFERING" => \A j \in 0 .. rcv.total - 1 : out[j] = j

Inv == TypeOK /\ SenderAccounts /\ WireContinues /\ Placed /\ CompletedIsWhole

-----------------------------------------------------------------------------
(* Steps that leave the bytes alone.                                       *)

\* What an end may do without touching a byte: open its file, be paused, or
\* end in any way but completing early.
QuietSender ==
    /\ snd' \in [state : {"TRANSFERING"} \cup Ended, opened : BOOLEAN,
                 paused : BOOLEAN, position : 0 .. MaxSize, total : 0 .. MaxSize,
                 lower : 0 .. BufLen, window : 0 .. BufLen]
    /\ snd'.position = snd.position /\ snd'.total = snd.total
    /\ snd'.window = snd.window
    /\ snd'.lower = snd.lower \/ (snd'.lower = 0 /\ snd.window = 0)
    /\ snd'.state = "COMPLETED" => file.size <= snd.total
    /\ UNCHANGED <<file, buf, wire, rcv, out>>

QuietReceiver ==
    /\ rcv' \in [state : {"TRANSFERING"} \cup Ended, opened : BOOLEAN,
                 paused : BOOLEAN, position : 0 .. MaxSize, total : 0 .. MaxSize]
    /\ rcv'.position = rcv.position /\ rcv'.total = rcv.total
    /\ rcv.state = "TRANSFERING"
    /\ rcv'.state \in {"TRANSFERING", "ABORTED"}
    /\ UNCHANGED <<file, snd, buf, wire, out>>

\* A quiet step of the sender keeps the invariant.
LEMMA QuietSenderStep ==
    ASSUME Inv, QuietSender, faults' \in Nat
    PROVE  Inv'
<1> USE DEF QuietSender
<1>0. /\ Len(buf) \in Nat /\ snd.lower \in Nat /\ snd.window \in Nat
      /\ snd.lower + snd.window <= Len(buf)
  BY BoundsAssumption DEF Inv, TypeOK
<1>1. TypeOK'
  <2>1. snd'.lower + snd'.window <= Len(buf')
    BY <1>0
  <2> QED BY <2>1 DEF Inv, TypeOK
<1>2. SenderAccounts'
  <2>1. \A i \in 1 .. snd'.window : buf'[snd'.lower + i] = snd'.total + i - 1
    <3>1. CASE snd'.lower = snd.lower
      BY <3>1 DEF Inv, SenderAccounts
    <3>2. CASE snd'.lower = 0 /\ snd.window = 0
      BY <3>2
    <3> QED BY <3>1, <3>2
  <2> QED BY <2>1 DEF Inv, SenderAccounts
<1>3. WireContinues' /\ Placed' /\ CompletedIsWhole'
  BY DEF Inv, WireContinues, Placed, CompletedIsWhole
<1> QED BY <1>1, <1>2, <1>3 DEF Inv

\* And so does one of the receiver.
LEMMA QuietReceiverStep ==
    ASSUME Inv, QuietReceiver, faults' \in Nat
    PROVE  Inv'
<1> USE DEF QuietReceiver
<1>1. TypeOK'
  BY DEF Inv, TypeOK
<1>2. SenderAccounts'
  BY DEF Inv, SenderAccounts
<1>3. WireContinues' /\ Placed' /\ CompletedIsWhole'
  BY DEF Inv, WireContinues, Placed, CompletedIsWhole
<1> QED BY <1>1, <1>2, <1>3 DEF Inv

\* The number of failures is a number.
LEMMA FaultCounts ==
    ASSUME faults \in Nat, Fault \/ UNCHANGED faults
    PROVE  faults' \in Nat
BY DEF Fault

LEMMA QuietSteps ==
    ASSUME Inv,
           \/ SndOpen \/ RcvOpen \/ RcvEnd \/ SndAbort \/ RcvAbort
           \/ \E p \in BOOLEAN : SndPause(p) \/ RcvPause(p)
    PROVE  Inv'
<1>0. faults' \in Nat
  BY FaultCounts DEF Inv, TypeOK, SndOpen, RcvOpen, RcvEnd, SndAbort, RcvAbort,
     SndPause, RcvPause
<1>1. CASE SndOpen \/ SndAbort \/ \E p \in BOOLEAN : SndPause(p)
  <2>1. QuietSender
    BY <1>1 DEF Inv, TypeOK, QuietSender, SndOpen, SndAbort, SndPause, Ended
  <2> QED BY <1>0, <2>1, QuietSenderStep
<1>2. CASE RcvOpen \/ RcvEnd \/ RcvAbort \/ \E p \in BOOLEAN : RcvPause(p)
  <2>1. QuietReceiver
    BY <1>2 DEF Inv, TypeOK, QuietReceiver, RcvOpen, RcvEnd, RcvAbort, RcvPause, Ended
  <2> QED BY <1>0, <2>1, QuietReceiverStep
<1> QED BY <1>1, <1>2

-----------------------------------------------------------------------------
(* Steps that move bytes.                                                  *)

\* Facts about the types that the arithmetic below needs.
LEMMA Numbers ==
    ASSUME Inv
    PROVE  /\ Len(buf) \in Nat /\ Len(wire) \in Nat
           /\ snd.lower \in Nat /\ snd.window \in Nat
           /\ snd.total \in Nat /\ snd.position \in Nat
           /\ rcv.total \in Nat /\ rcv.position \in Nat
           /\ file.size \in Nat /\ file.start \in Nat /\ file.actual \in Nat
           /\ snd.position <= MaxSize /\ file.size <= MaxSize
           /\ file.actual <= MaxSize
           /\ snd.lower + snd.window <= Len(buf) /\ Len(buf) <= BufLen
           /\ BufLen \in Nat \ {0} /\ MaxSize \in Nat
           /\ Inv /\ TypeOK
BY BoundsAssumption DEF Inv, TypeOK, SenderAccounts

\* What the sender takes off its window, and the wire with it.
Piece(n) == SubSeq(buf, snd.lower + 1, snd.lower + n)
Longer(n) == IF rcv.state = "TRANSFERING" THEN wire \o Piece(n) ELSE wire

\* The piece is the beginning of the window.
LEMMA PieceFacts ==
    ASSUME Inv, NEW n \in Nat, 1 <= n, n <= snd.window
    PROVE  /\ Piece(n) \in Seq(Content)
           /\ Len(Piece(n)) = n
           /\ \A i \in 1 .. n : Piece(n)[i] = snd.total + i - 1
<1> DEFINE a == snd.lower + 1
           b == snd.lower + n
<1>1. buf \in Seq(Content)
  BY Numbers DEF TypeOK
<1>2. /\ a \in Int /\ b \in Int /\ a <= b /\ b - a + 1 = n
      /\ \A i \in a .. b : i \in 1 .. Len(buf)
      /\ \A i \in 1 .. n : a + i - 1 = snd.lower + i /\ i \in 1 .. snd.window
  <2> DEFINE low == snd.lower
             win == snd.window
             len == Len(buf)
  <2>1. low \in Nat /\ win \in Nat /\ len \in Nat /\ low + win <= len /\ n <= win
    BY Numbers
  <2> HIDE DEF low, win, len
  <2>2. /\ low + 1 \in Int /\ low + n \in Int
        /\ low + 1 <= low + n /\ (low + n) - (low + 1) + 1 = n
        /\ \A i \in low + 1 .. low + n : i \in 1 .. len
        /\ \A i \in 1 .. n : (low + 1) + i - 1 = low + i /\ i \in 1 .. win
    BY <2>1
  <2> QED BY <2>1, <2>2 DEF low, win, len
<1>3. \A i \in a .. b : buf[i] \in Content
  BY <1>1, <1>2, ElementOfSeq
<1> HIDE DEF a, b
<1>4. /\ SubSeq(buf, a, b) \in Seq(Content)
      /\ Len(SubSeq(buf, a, b)) = IF a <= b THEN b - a + 1 ELSE 0
      /\ \A i \in 1 .. b - a + 1 : SubSeq(buf, a, b)[i] = buf[a + i - 1]
  BY <1>2, <1>3, SubSeqProperties
<1>5. /\ SubSeq(buf, a, b) \in Seq(Content)
      /\ Len(SubSeq(buf, a, b)) = n
      /\ \A i \in 1 .. n : SubSeq(buf, a, b)[i] = buf[a + i - 1]
  BY <1>2, <1>4
<1>6. Piece(n) = SubSeq(buf, a, b)
  BY DEF Piece, a, b
<1>7. ASSUME NEW i \in 1 .. n
      PROVE  buf[a + i - 1] = snd.total + i - 1
  <2>1. a + i - 1 = snd.lower + i /\ i \in 1 .. snd.window
    BY <1>2
  <2> QED BY <2>1 DEF Inv, SenderAccounts
<1> QED BY <1>5, <1>6, <1>7

\* The longer wire continues what the receiver has written: the window begins
\* where the sender's total stands.
LEMMA SendAppends ==
    ASSUME Inv, NEW n \in Nat, 1 <= n, n <= snd.window, rcv.state = "TRANSFERING"
    PROVE  /\ Longer(n) \in Seq(Content)
           /\ Len(Longer(n)) = Len(wire) + n
           /\ \A i \in 1 .. Len(wire) + n : Longer(n)[i] = rcv.total + i - 1
<1>1. wire \in Seq(Content)
  BY Numbers DEF TypeOK
<1>2. /\ Piece(n) \in Seq(Content) /\ Len(Piece(n)) = n
      /\ \A i \in 1 .. n : Piece(n)[i] = snd.total + i - 1
  BY PieceFacts
<1>3. /\ Longer(n) \in Seq(Content) /\ Len(Longer(n)) = Len(wire) + n
      /\ \A i \in 1 .. Len(wire) + n :
            Longer(n)[i] = IF i <= Len(wire) THEN wire[i]
                           ELSE Piece(n)[i - Len(wire)]
  <2>1. /\ wire \o Piece(n) \in Seq(Content)
        /\ Len(wire \o Piece(n)) = Len(wire) + Len(Piece(n))
        /\ \A i \in 1 .. Len(wire) + Len(Piece(n)) : (wire \o Piece(n))[i] =
              IF i <= Len(wire) THEN wire[i] ELSE Piece(n)[i - Len(wire)]
    BY <1>1, <1>2, ConcatProperties
  <2>2. Longer(n) = wire \o Piece(n)
    BY DEF Longer
  <2> QED BY <1>2, <2>1, <2>2
<1>4. /\ rcv.total + Len(wire) = snd.total
      /\ \A i \in 1 .. Len(wire) : wire[i] = rcv.total + i - 1
  BY DEF Inv, WireContinues
<1>5. Len(wire) \in Nat /\ rcv.total \in Nat /\ snd.total \in Nat
  BY Numbers
<1>6. ASSUME NEW i \in 1 .. Len(wire) + n
      PROVE  Longer(n)[i] = rcv.total + i - 1
  <2>1. CASE i <= Len(wire)
    <3>1. i \in 1 .. Len(wire)
      BY <1>5, <2>1
    <3>2. Longer(n)[i] = wire[i]
      BY <1>3, <2>1
    <3> QED BY <1>4, <3>1, <3>2
  <2>2. CASE ~(i <= Len(wire))
    <3>1. i - Len(wire) \in 1 .. n
      BY <1>5, <2>2
    <3>2. Longer(n)[i] = snd.total + (i - Len(wire)) - 1
      BY <1>2, <1>3, <2>2, <3>1
    <3> DEFINE len == Len(wire)
               rt == rcv.total
               st == snd.total
    <3>3. rt + len = st /\ len \in Nat /\ rt \in Nat /\ st \in Nat
      BY <1>4, <1>5
    <3> HIDE DEF len, rt, st
    <3>4. i \in Int => st + (i - len) - 1 = rt + i - 1
      BY <3>3
    <3>5. i \in Int
      BY <1>5
    <3> QED BY <3>2, <3>4, <3>5 DEF len, rt, st
  <2> QED BY <2>1, <2>2
<1> QED BY <1>3, <1>6

\* n bytes leave the window, and the wire gets them if there is anybody to
\* read them.
SendsBytes(n) ==
    /\ snd' = Sent(n)
    /\ wire' = Longer(n)
    /\ snd.state = "TRANSFERING"
    /\ UNCHANGED <<file, buf, rcv, out, faults>>

LEMMA SentKeeps ==
    ASSUME Inv, NEW n \in Nat, 1 <= n, n <= snd.window, SendsBytes(n)
    PROVE  Inv'
<1>0. /\ snd.window \in Nat /\ snd.lower \in Nat /\ snd.total \in Nat
      /\ snd.position \in Nat /\ Len(buf) \in Nat /\ Len(wire) \in Nat
      /\ rcv.total \in Nat /\ file.start \in Nat
      /\ BufLen \in Nat /\ MaxSize \in Nat
      /\ snd.lower + snd.window <= Len(buf) /\ Len(buf) <= BufLen
      /\ snd.position <= MaxSize
  BY Numbers
<1>1. snd.total + snd.window = snd.position /\ file.start <= snd.total
  BY DEF Inv, SenderAccounts
<1>2. /\ snd.window - n \in 0 .. BufLen /\ snd.lower + n \in 0 .. BufLen
      /\ snd.total + n \in 0 .. MaxSize
      /\ (snd.lower + n) + (snd.window - n) <= Len(buf)
      /\ (snd.total + n) + (snd.window - n) = snd.position
      /\ \A i \in 1 .. snd.window - n :
            /\ n + i \in 1 .. snd.window
            /\ snd.lower + (n + i) = (snd.lower + n) + i
            /\ snd.total + (n + i) - 1 = (snd.total + n) + i - 1
  <2> DEFINE low == snd.lower
             win == snd.window
             tot == snd.total
             pos == snd.position
             len == Len(buf)
  <2>1. /\ low \in Nat /\ win \in Nat /\ tot \in Nat /\ pos \in Nat /\ len \in Nat
        /\ BufLen \in Nat /\ MaxSize \in Nat
        /\ low + win <= len /\ len <= BufLen /\ pos <= MaxSize
        /\ tot + win = pos /\ n <= win
    BY <1>0, <1>1
  <2> HIDE DEF low, win, tot, pos, len
  <2>2. /\ win - n \in 0 .. BufLen /\ low + n \in 0 .. BufLen
        /\ tot + n \in 0 .. MaxSize
        /\ (low + n) + (win - n) <= len
        /\ (tot + n) + (win - n) = pos
        /\ \A i \in 1 .. win - n :
              /\ n + i \in 1 .. win
              /\ low + (n + i) = (low + n) + i
              /\ tot + (n + i) - 1 = (tot + n) + i - 1
    BY <2>1
  <2> QED BY <2>2 DEF low, win, tot, pos, len
<1>3. /\ snd' \in [state : {"TRANSFERING"} \cup Ended, opened : BOOLEAN,
                   paused : BOOLEAN, position : 0 .. MaxSize, total : 0 .. MaxSize,
                   lower : 0 .. BufLen, window : 0 .. BufLen]
      /\ snd'.window = snd.window - n /\ snd'.lower = snd.lower + n
      /\ snd'.total = snd.total + n /\ snd'.position = snd.position
      /\ snd'.state = "TRANSFERING"
  BY <1>2, Numbers DEF TypeOK, Sent, SendsBytes
<1>4. /\ wire' \in Seq(Content)
      /\ rcv.state = "TRANSFERING" =>
            /\ Len(wire') = Len(wire) + n
            /\ \A i \in 1 .. Len(wire) + n : wire'[i] = rcv.total + i - 1
  <2>1. CASE rcv.state = "TRANSFERING"
    BY <2>1, SendAppends DEF SendsBytes
  <2>2. CASE rcv.state # "TRANSFERING"
    BY <2>2, Numbers DEF TypeOK, SendsBytes, Longer
  <2> QED BY <2>1, <2>2
<1>5. UNCHANGED <<file, buf, rcv, out, faults>>
  BY DEF SendsBytes
<1>6. TypeOK'
  <2>1. snd'.lower + snd'.window <= Len(buf')
    BY <1>2, <1>3, <1>5
  <2> QED BY <1>3, <1>4, <1>5, <2>1, Numbers DEF TypeOK
<1>7. SenderAccounts'
  <2>1. ASSUME NEW i \in 1 .. snd.window - n
        PROVE  buf[(snd.lower + n) + i] = (snd.total + n) + i - 1
    <3>1. /\ n + i \in 1 .. snd.window
          /\ snd.lower + (n + i) = (snd.lower + n) + i
          /\ snd.total + (n + i) - 1 = (snd.total + n) + i - 1
      BY <1>2
    <3>2. buf[snd.lower + (n + i)] = snd.total + (n + i) - 1
      BY <3>1 DEF Inv, SenderAccounts
    <3>3. buf[(snd.lower + n) + i] = snd.total + (n + i) - 1
      BY <3>1, <3>2
    <3> QED BY <3>1, <3>3
  <2>2. snd'.total + snd'.window = snd'.position /\ file.start <= snd'.total
    <3>1. file.start <= snd.total + n
      BY <1>0, <1>1
    <3> QED BY <3>1, <1>2, <1>3
  <2> QED BY <1>3, <1>5, <2>1, <2>2 DEF Inv, SenderAccounts
<1>8. WireContinues'
  <2>1. CASE rcv.state = "TRANSFERING"
    <3>1. rcv.total + Len(wire') = snd'.total
      <4>1. rcv.total + Len(wire) = snd.total
        BY <2>1 DEF Inv, WireContinues
      <4>2. rcv.total + (Len(wire) + n) = snd.total + n
        BY <4>1, <1>0
      <4> QED BY <2>1, <4>2, <1>3, <1>4
    <3> QED BY <2>1, <3>1, <1>4, <1>5 DEF Inv, WireContinues
  <2>2. CASE rcv.state # "TRANSFERING"
    BY <2>2, <1>5 DEF WireContinues
  <2> QED BY <2>1, <2>2
<1>9. Placed' /\ CompletedIsWhole'
  BY <1>5 DEF Inv, Placed, CompletedIsWhole
<1> QED BY <1>6, <1>7, <1>8, <1>9 DEF Inv

\* SndSend sends some of the window or fails.
LEMMA SndSendStep ==
    ASSUME Inv, SndSend
    PROVE  Inv'
<1>1. faults' \in Nat
  BY FaultCounts, Numbers DEF TypeOK, SndSend
<1>2. CASE \E n \in 1 .. snd.window : snd' = Sent(n) /\ wire' = Longer(n) /\ UNCHANGED faults
  <2>1. PICK n \in 1 .. snd.window : snd' = Sent(n) /\ wire' = Longer(n) /\ UNCHANGED faults
    BY <1>2
  <2>2. n \in Nat /\ 1 <= n /\ n <= snd.window
    BY Numbers
  <2>3. SendsBytes(n)
    BY <2>1 DEF SndSend, SendsBytes
  <2> QED BY <2>2, <2>3, SentKeeps
<1>3. CASE snd' = [snd EXCEPT !.state = "ABORTED", !.opened = FALSE] /\ UNCHANGED wire
  <2>1. QuietSender
    BY <1>3, Numbers DEF TypeOK, QuietSender, SndSend, Ended
  <2> QED BY <1>1, <2>1, QuietSenderStep
<1>4. \/ \E n \in 1 .. snd.window : snd' = Sent(n) /\ wire' = Longer(n) /\ UNCHANGED faults
      \/ snd' = [snd EXCEPT !.state = "ABORTED", !.opened = FALSE] /\ UNCHANGED wire
  BY DEF SndSend, Longer, Piece
<1> QED BY <1>2, <1>3, <1>4

\* The sender reads the next bytes of its file into an empty window.
ReadsFile ==
    /\ snd.window = 0
    /\ snd.total < file.size
    /\ snd.position + Wanted <= file.actual
    /\ buf' = [i \in 1 .. Wanted |-> snd.position + i - 1]
    /\ snd' = [snd EXCEPT !.lower = 0, !.window = Wanted, !.position = @ + Wanted]
    /\ snd.state = "TRANSFERING"
    /\ UNCHANGED <<file, wire, rcv, out, faults>>

LEMMA ReadKeeps ==
    ASSUME Inv, ReadsFile
    PROVE  Inv'
<1>1. snd.total = snd.position
  <2>1. snd.total + 0 = snd.position
    BY DEF Inv, SenderAccounts, ReadsFile
  <2> QED BY <2>1, Numbers
<1>2. /\ Wanted \in 0 .. BufLen
      /\ snd.position + Wanted <= file.size
      /\ snd.position + Wanted \in 0 .. MaxSize
  <2> DEFINE pos == snd.position
             size == file.size
             w == Wanted
  <2>1. /\ pos \in Nat /\ size \in Nat /\ pos < size /\ size <= MaxSize
        /\ BufLen \in Nat /\ MaxSize \in Nat
    BY <1>1, Numbers DEF ReadsFile
  <2>2. w = IF size - pos < BufLen THEN size - pos ELSE BufLen
    BY DEF Wanted
  <2> HIDE DEF pos, size, w
  <2>3. w \in 0 .. BufLen /\ pos + w <= size /\ pos + w \in 0 .. MaxSize
    BY <2>1, <2>2
  <2> QED BY <2>3 DEF pos, size, w
<1>3. /\ snd' \in [state : {"TRANSFERING"} \cup Ended, opened : BOOLEAN,
                   paused : BOOLEAN, position : 0 .. MaxSize, total : 0 .. MaxSize,
                   lower : 0 .. BufLen, window : 0 .. BufLen]
      /\ snd'.window = Wanted /\ snd'.lower = 0
      /\ snd'.total = snd.total /\ snd'.position = snd.position + Wanted
      /\ snd'.state = "TRANSFERING"
  BY <1>2, Numbers DEF TypeOK, ReadsFile
<1>4. \A i \in 1 .. Wanted : snd.position + i - 1 \in Content
  <2> DEFINE pos == snd.position
             w == Wanted
  <2>1. pos \in Nat /\ w \in Nat /\ pos + w <= MaxSize /\ MaxSize \in Nat
    BY <1>2, Numbers
  <2> HIDE DEF pos, w
  <2>2. \A i \in 1 .. w : pos + i - 1 \in 0 .. MaxSize
    BY <2>1
  <2> QED BY <2>2 DEF pos, w, Content
<1>5. buf' \in Seq(Content) /\ Len(buf') = Wanted
  <2>1. buf' \in [1 .. Wanted -> Content]
    BY <1>4 DEF ReadsFile
  <2>2. Wanted \in Nat
    BY <1>2, Numbers
  <2> HIDE DEF Wanted
  <2> QED BY <2>1, <2>2, IsASeq, LenProperties
<1>6. UNCHANGED <<file, wire, rcv, out, faults>>
  BY DEF ReadsFile
<1>7. TypeOK'
  <2>1. snd'.lower + snd'.window <= Len(buf')
    <3>1. 0 + Wanted <= Wanted
      BY <1>2, Numbers
    <3> QED BY <3>1, <1>3, <1>5
  <2> QED BY <1>3, <1>5, <1>6, <2>1, Numbers DEF TypeOK
<1>8. SenderAccounts'
  <2>1. ASSUME NEW i \in 1 .. Wanted
        PROVE  buf'[0 + i] = snd.total + i - 1
    <3>1. 0 + i = i
      BY <1>2
    <3>2. buf'[i] = snd.position + i - 1
      BY DEF ReadsFile
    <3> QED BY <1>1, <3>1, <3>2
  <2>2. Len(buf') <= BufLen
    BY <1>2, <1>5, Numbers
  <2>3. /\ snd'.total + snd'.window = snd'.position
        /\ file.start <= snd'.total
        /\ snd'.position <= file.size
    BY <1>1, <1>2, <1>3 DEF Inv, SenderAccounts
  <2> QED BY <1>3, <1>6, <2>1, <2>2, <2>3 DEF SenderAccounts
<1>9. WireContinues' /\ Placed' /\ CompletedIsWhole'
  BY <1>3, <1>6 DEF Inv, WireContinues, Placed, CompletedIsWhole
<1> QED BY <1>7, <1>8, <1>9 DEF Inv

LEMMA SndFillStep ==
    ASSUME Inv, SndFill
    PROVE  Inv'
<1>1. faults' \in Nat
  BY FaultCounts, Numbers DEF TypeOK, SndFill
<1>2. CASE ReadsFile
  BY <1>2, ReadKeeps
<1>3. CASE ~ReadsFile
  <2>1. \/ /\ snd.total >= file.size
           /\ snd' = [snd EXCEPT !.state = "COMPLETED", !.opened = FALSE, !.lower = 0]
        \/ snd' = [snd EXCEPT !.state = "ABORTED", !.opened = FALSE, !.lower = 0]
    BY <1>3 DEF SndFill, ReadsFile
  <2>2. snd.window = 0 /\ UNCHANGED <<file, buf, wire, rcv, out>>
    BY <1>3 DEF SndFill, ReadsFile
  <2>3. 0 \in 0 .. BufLen
    BY Numbers
  <2>4. snd.total >= file.size => file.size <= snd.total
    BY Numbers
  <2>5. QuietSender
    BY <2>1, <2>2, <2>3, <2>4, Numbers DEF TypeOK, QuietSender, Ended
  <2> QED BY <1>1, <2>5, QuietSenderStep
<1> QED BY <1>2, <1>3

\* The receiver writes n bytes from the front of the wire where they belong.
WritesBytes(n) ==
    /\ rcv.state = "TRANSFERING"
    /\ out' = [j \in DOMAIN out |->
                 IF rcv.position <= j /\ j < rcv.position + n
                 THEN wire[j - rcv.position + 1] ELSE out[j]]
    /\ wire' = SubSeq(wire, n + 1, Len(wire))
    /\ rcv' = Written(n)
    /\ UNCHANGED <<file, snd, buf, faults>>

\* What is left of the wire.
LEMMA RestOfWire ==
    ASSUME Inv, NEW n \in Nat, n <= Len(wire), rcv.state = "TRANSFERING",
           wire' = SubSeq(wire, n + 1, Len(wire))
    PROVE  /\ wire' \in Seq(Content)
           /\ Len(wire') = Len(wire) - n
           /\ \A i \in 1 .. Len(wire) - n : wire'[i] = (rcv.total + n) + i - 1
<1>1. wire \in Seq(Content) /\ Len(wire) \in Nat /\ rcv.total \in Nat
  BY Numbers DEF TypeOK
<1> DEFINE a == n + 1
           b == Len(wire)
           rt == rcv.total
<1>2. /\ a \in Int /\ b \in Int
      /\ \A i \in a .. b : i \in 1 .. Len(wire)
      /\ (IF a <= b THEN b - a + 1 ELSE 0) = b - n /\ b - a + 1 = b - n
      /\ \A i \in 1 .. b - n : /\ a + i - 1 \in 1 .. b
                               /\ rt + (a + i - 1) - 1 = (rt + n) + i - 1
  <2>1. b \in Nat /\ n <= b /\ rt \in Nat
    BY <1>1
  <2> HIDE DEF b, rt
  <2>2. /\ a \in Int /\ b \in Int
        /\ \A i \in a .. b : i \in 1 .. b
        /\ (IF a <= b THEN b - a + 1 ELSE 0) = b - n /\ b - a + 1 = b - n
        /\ \A i \in 1 .. b - n : /\ a + i - 1 \in 1 .. b
                                 /\ rt + (a + i - 1) - 1 = (rt + n) + i - 1
    BY <2>1
  <2> QED BY <2>2 DEF b
<1>3. \A i \in a .. b : wire[i] \in Content
  BY <1>1, <1>2, ElementOfSeq
<1>4. \A i \in 1 .. b : wire[i] = rt + i - 1
  BY DEF Inv, WireContinues
<1>5. wire' = SubSeq(wire, a, b)
  OBVIOUS
<1> HIDE DEF a, b, rt
<1>6. /\ SubSeq(wire, a, b) \in Seq(Content)
      /\ Len(SubSeq(wire, a, b)) = IF a <= b THEN b - a + 1 ELSE 0
      /\ \A i \in 1 .. b - a + 1 : SubSeq(wire, a, b)[i] = wire[a + i - 1]
  BY <1>2, <1>3, SubSeqProperties
<1>7. /\ wire' \in Seq(Content)
      /\ Len(wire') = b - n
      /\ \A i \in 1 .. b - n : wire'[i] = wire[a + i - 1]
  BY <1>2, <1>5, <1>6
<1>8. \A i \in 1 .. b - n : wire'[i] = (rt + n) + i - 1
  BY <1>2, <1>4, <1>7
<1> QED BY <1>7, <1>8 DEF b, rt

\* What has been written, with what was there before, is the beginning of the
\* file.
LEMMA WritePlaces ==
    ASSUME Inv, NEW n \in Nat, n <= Len(wire), WritesBytes(n)
    PROVE  /\ out' \in [0 .. MaxSize - 1 -> Content]
           /\ \A j \in 0 .. (rcv.total + n) - 1 : out'[j] = j
<1>1. /\ wire \in Seq(Content) /\ Len(wire) \in Nat /\ rcv.total \in Nat
      /\ MaxSize \in Nat /\ out \in [0 .. MaxSize - 1 -> Content]
      /\ snd.total \in Nat /\ snd.total <= MaxSize
  BY Numbers DEF TypeOK
<1>2. /\ rcv.position = rcv.total
      /\ rcv.total + Len(wire) = snd.total
      /\ \A i \in 1 .. Len(wire) : wire[i] = rcv.total + i - 1
      /\ \A j \in 0 .. rcv.total - 1 : out[j] = j
  BY DEF Inv, WireContinues, Placed, WritesBytes
<1> DEFINE rt == rcv.total
           len == Len(wire)
<1>3. rt \in Nat /\ len \in Nat /\ MaxSize \in Nat /\ n <= len /\ rt + len <= MaxSize
  BY <1>1, <1>2
<1>4. out' = [j \in 0 .. MaxSize - 1 |->
                IF rt <= j /\ j < rt + n THEN wire[j - rt + 1] ELSE out[j]]
  BY <1>1, <1>2 DEF WritesBytes
<1>5. \A i \in 1 .. len : wire[i] = rt + i - 1 /\ wire[i] \in Content
  BY <1>1, <1>2, ElementOfSeq
<1>6. \A j \in 0 .. rt - 1 : out[j] = j
  BY <1>2
<1> HIDE DEF rt, len
<1>7. ASSUME NEW j \in 0 .. MaxSize - 1, rt <= j, j < rt + n
      PROVE  wire[j - rt + 1] = j /\ wire[j - rt + 1] \in Content
  <2>1. j - rt + 1 \in 1 .. len /\ rt + (j - rt + 1) - 1 = j
    BY <1>3, <1>7
  <2> QED BY <1>5, <2>1
<1>8. out' \in [0 .. MaxSize - 1 -> Content]
  BY <1>1, <1>4, <1>7
<1>9. ASSUME NEW j \in 0 .. (rt + n) - 1
      PROVE  out'[j] = j
  <2>1. j \in 0 .. MaxSize - 1 /\ j < rt + n
    BY <1>3
  <2>2. CASE rt <= j
    BY <1>4, <1>7, <2>1, <2>2
  <2>3. CASE ~(rt <= j)
    <3>1. j \in 0 .. rt - 1
      BY <1>3, <2>1, <2>3
    <3> QED BY <1>4, <1>6, <2>1, <2>3, <3>1
  <2> QED BY <2>2, <2>3
<1> QED BY <1>8, <1>9 DEF rt

LEMMA WriteKeeps ==
    ASSUME Inv, NEW n \in Nat, 1 <= n, n <= Len(wire), WritesBytes(n)
    PROVE  Inv'
<1>1. /\ wire' \in Seq(Content) /\ Len(wire') = Len(wire) - n
      /\ \A i \in 1 .. Len(wire) - n : wire'[i] = (rcv.total + n) + i - 1
  BY RestOfWire DEF WritesBytes
<1>2. /\ out' \in [0 .. MaxSize - 1 -> Content]
      /\ \A j \in 0 .. (rcv.total + n) - 1 : out'[j] = j
  BY WritePlaces
<1>3. UNCHANGED <<file, snd, buf, faults>> /\ rcv.state = "TRANSFERING"
  BY DEF WritesBytes
<1>4. /\ rcv.position = rcv.total
      /\ rcv.total + Len(wire) = snd.total
      /\ file.start <= rcv.total
  BY <1>3 DEF Inv, WireContinues
<1>5. /\ snd.total + snd.window = snd.position
      /\ snd.position <= file.size \/ snd.position = file.start
  BY DEF Inv, SenderAccounts
\* The receiver never gets more than the size of the file: a transfer that
\* starts behind its end moves nothing.
<1>6. /\ rcv.total + n \in 0 .. MaxSize
      /\ rcv.total + n <= file.size
      /\ file.start <= rcv.total + n
      /\ (rcv.total + n) + (Len(wire) - n) = snd.total
  <2> DEFINE rt == rcv.total
             len == Len(wire)
             st == snd.total
             win == snd.window
             pos == snd.position
             size == file.size
             start == file.start
  <2>1. /\ rt \in Nat /\ len \in Nat /\ st \in Nat /\ win \in Nat /\ pos \in Nat
        /\ size \in Nat /\ start \in Nat /\ MaxSize \in Nat
        /\ n <= len /\ rt + len = st /\ st + win = pos /\ start <= rt
        /\ pos <= size \/ pos = start
        /\ pos <= MaxSize
    BY <1>4, <1>5, Numbers
  <2> HIDE DEF rt, len, st, win, pos, size, start
  <2>2. /\ rt + n \in 0 .. MaxSize /\ rt + n <= size
        /\ start <= rt + n /\ (rt + n) + (len - n) = st
    BY <2>1
  <2> QED BY <2>2 DEF rt, len, st, win, pos, size, start
<1>7. /\ rcv' \in [state : {"TRANSFERING"} \cup Ended, opened : BOOLEAN,
                   paused : BOOLEAN, position : 0 .. MaxSize, total : 0 .. MaxSize]
      /\ rcv'.total = rcv.total + n /\ rcv'.position = rcv.total + n
      /\ rcv'.state \in {"TRANSFERING", "COMPLETED"}
      /\ rcv'.state = "COMPLETED" <=> rcv.total + n >= file.size
  <2> DEFINE t == rcv.total + n
             r == [rcv EXCEPT !.position = t, !.total = t]
  <2>1. /\ rcv \in [state : {"TRANSFERING"} \cup Ended, opened : BOOLEAN,
                    paused : BOOLEAN, position : 0 .. MaxSize, total : 0 .. MaxSize]
        /\ t \in 0 .. MaxSize
    BY <1>6, Numbers DEF TypeOK
  <2>2. rcv' = IF t >= file.size THEN [r EXCEPT !.state = "COMPLETED", !.opened = FALSE]
               ELSE r
    <3>1. [rcv EXCEPT !.position = @ + n, !.total = @ + n] = r
      BY <1>4
    <3>2. r.total = t
      BY <2>1
    <3> QED BY <3>1, <3>2 DEF WritesBytes, Written
  <2>3. /\ r \in [state : {"TRANSFERING"} \cup Ended, opened : BOOLEAN,
                  paused : BOOLEAN, position : 0 .. MaxSize, total : 0 .. MaxSize]
        /\ r.total = t /\ r.position = t /\ r.state = "TRANSFERING"
    BY <1>3, <2>1
  <2> HIDE DEF t, r
  <2>4. ASSUME t >= file.size
        PROVE  /\ rcv' \in [state : {"TRANSFERING"} \cup Ended, opened : BOOLEAN,
                            paused : BOOLEAN, position : 0 .. MaxSize, total : 0 .. MaxSize]
               /\ rcv'.total = t /\ rcv'.position = t /\ rcv'.state = "COMPLETED"
    BY <2>2, <2>3, <2>4 DEF Ended
  <2>5. ASSUME ~(t >= file.size)
        PROVE  rcv' = r
    BY <2>2, <2>5
  <2> QED BY <2>3, <2>4, <2>5 DEF t
<1>8. TypeOK'
  BY <1>1, <1>2, <1>3, <1>7, Numbers DEF TypeOK
<1>9. SenderAccounts'
  BY <1>3 DEF Inv, SenderAccounts
<1>10. WireContinues'
  <2>1. rcv'.total + Len(wire') = snd'.total
    BY <1>1, <1>3, <1>6, <1>7
  <2>2. \A i \in 1 .. Len(wire') : wire'[i] = rcv'.total + i - 1
    BY <1>1, <1>7
  <2>3. file'.start <= rcv'.total
    BY <1>3, <1>6, <1>7
  <2> QED BY <1>7, <2>1, <2>2, <2>3 DEF WireContinues
<1>11. Placed'
  BY <1>2, <1>7 DEF Placed
<1>12. CompletedIsWhole'
  <2> SUFFICES ASSUME rcv'.state = "COMPLETED"
               PROVE  /\ \A j \in 0 .. file.size - 1 : out'[j] = j
                      /\ rcv'.position = file.size
    BY <1>3 DEF CompletedIsWhole
  <2>1. rcv.total + n = file.size
    <3>1. rcv.total + n >= file.size /\ rcv.total + n <= file.size
      BY <1>6, <1>7
    <3> QED BY <3>1, <1>6, Numbers
  <2> QED BY <2>1, <1>2, <1>7
<1> QED BY <1>8, <1>9, <1>10, <1>11, <1>12 DEF Inv

LEMMA RcvReadStep ==
    ASSUME Inv, RcvRead
    PROVE  Inv'
<1>1. faults' \in Nat
  BY FaultCounts, Numbers DEF TypeOK, RcvRead
<1>2. CASE \E n \in 1 .. BufLen : n <= Len(wire) /\ WritesBytes(n)
  <2>1. PICK n \in 1 .. BufLen : n <= Len(wire) /\ WritesBytes(n)
    BY <1>2
  <2>2. n \in Nat /\ 1 <= n
    BY Numbers
  <2> QED BY <2>1, <2>2, WriteKeeps
<1>3. CASE /\ rcv' = [rcv EXCEPT !.state = "ABORTED", !.opened = FALSE]
           /\ UNCHANGED <<wire, out>>
  <2>1. QuietReceiver
    BY <1>3, Numbers DEF TypeOK, QuietReceiver, RcvRead, Ended
  <2> QED BY <1>1, <2>1, QuietReceiverStep
<1>4. \/ \E n \in 1 .. BufLen : n <= Len(wire) /\ WritesBytes(n)
      \/ /\ rcv' = [rcv EXCEPT !.state = "ABORTED", !.opened = FALSE]
         /\ UNCHANGED <<wire, out>>
  BY DEF RcvRead, WritesBytes
<1> QED BY <1>2, <1>3, <1>4

-----------------------------------------------------------------------------
(* The theorems.                                                           *)

\* A transfer that has just begun satisfies the invariant: nothing is on the
\* wire and the receiver holds the beginning of the file.
LEMMA InitInv == Init => Inv
<1> SUFFICES ASSUME Init PROVE Inv
  OBVIOUS
<1> USE BoundsAssumption
<1>1. /\ snd.state = "TRANSFERING" /\ snd.position = file.start
      /\ snd.total = file.start /\ snd.lower = 0 /\ snd.window = 0
      /\ rcv.state = "TRANSFERING" /\ rcv.position = file.start
      /\ rcv.total = file.start
      /\ file.start \in 0 .. MaxSize
      /\ buf = <<>> /\ wire = <<>> /\ Len(buf) = 0 /\ Len(wire) = 0
  BY DEF Init
<1>2. out = [j \in 0 .. MaxSize - 1 |-> IF j < file.start THEN j ELSE Old]
  BY DEF Init
<1>3. \A j \in 0 .. MaxSize - 1 : j \in Content /\ Old \in Content
  BY DEF Content, Old
<1>4. TypeOK
  <2>1. out \in [0 .. MaxSize - 1 -> Content]
    BY <1>2, <1>3
  <2>2. snd.lower + snd.window <= Len(buf)
    BY <1>1
  <2>3. snd \in [state : {"TRANSFERING"} \cup Ended, opened : BOOLEAN,
                 paused : BOOLEAN, position : 0 .. MaxSize, total : 0 .. MaxSize,
                 lower : 0 .. BufLen, window : 0 .. BufLen]
    BY <1>1 DEF Init
  <2>4. rcv \in [state : {"TRANSFERING"} \cup Ended, opened : BOOLEAN,
                 paused : BOOLEAN, position : 0 .. MaxSize, total : 0 .. MaxSize]
    BY <1>1 DEF Init
  <2> QED BY <1>1, <2>1, <2>2, <2>3, <2>4 DEF Init, TypeOK
<1>5. SenderAccounts
  BY <1>1 DEF SenderAccounts
<1>6. WireContinues
  BY <1>1 DEF WireContinues
<1>7. Placed
  BY <1>1, <1>2 DEF Placed
<1>8. CompletedIsWhole
  BY <1>1 DEF CompletedIsWhole
<1> QED BY <1>4, <1>5, <1>6, <1>7, <1>8 DEF Inv

\* Every step keeps it.
LEMMA NextInv == Inv /\ [Next]_vars => Inv'
<1> SUFFICES ASSUME Inv, [Next]_vars PROVE Inv'
  OBVIOUS
<1>1. CASE SndSend
  BY <1>1, SndSendStep
<1>2. CASE SndFill
  BY <1>2, SndFillStep
<1>3. CASE RcvRead
  BY <1>3, RcvReadStep
<1>4. CASE \/ SndOpen \/ RcvOpen \/ RcvEnd \/ SndAbort \/ RcvAbort
           \/ \E p \in BOOLEAN : SndPause(p) \/ RcvPause(p)
  BY <1>4, QuietSteps
<1>5. CASE UNCHANGED vars
  BY <1>5 DEF vars, Inv, TypeOK, SenderAccounts, WireContinues, Placed,
     CompletedIsWhole
<1> QED BY <1>1, <1>2, <1>3, <1>4, <1>5 DEF Next, Sender, Receiver, User

\* The accounts of both ends and of the wire between them agree at all times.
THEOREM Invariance == Spec => []Inv
<1> QED BY InitInv, NextInv, PTL DEF Spec

\* Positions and totals stay within the files and the window within the
\* buffer, so the unsigned difference of size and position and its narrowing
\* to int (sd_protocol.c:909) are what they seem, for every size.
THEOREM TypeCorrect == Spec => []TypeOK
<1>1. Inv => TypeOK
  BY DEF Inv
<1> QED BY <1>1, Invariance, PTL

\* No byte is lost, repeated or reordered between the sender's file and the
\* receiver's, for every size of file, buffer and socket.
THEOREM GaplessHolds == Spec => []Gapless
<1>1. Inv => Gapless
  BY DEF Inv, SenderAccounts, WireContinues, Gapless
<1> QED BY <1>1, Invariance, PTL

\* A receiver that reports completion has the whole file.
THEOREM CompletedIsWholeHolds == Spec => []CompletedIsWhole
<1>1. Inv => CompletedIsWhole
  BY DEF Inv
<1> QED BY <1>1, Invariance, PTL

\* A sender that reports completion has sent the whole file.
THEOREM CompletedIsSentHolds == Spec => []CompletedIsSent
<1>1. Inv => CompletedIsSent
  <2> SUFFICES ASSUME Inv, snd.state = "COMPLETED", rcv.state = "TRANSFERING"
               PROVE  rcv.total + Len(wire) >= file.size
    BY DEF CompletedIsSent
  <2>1. rcv.total + Len(wire) = snd.total /\ file.size <= snd.total
    BY DEF Inv, SenderAccounts, WireContinues
  <2>2. snd.total >= file.size
    BY <2>1, Numbers
  <2> QED BY <2>1, <2>2
<1> QED BY <1>1, Invariance, PTL
=============================================================================
