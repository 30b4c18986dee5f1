----------------------- MODULE NegotiationOrderProofs -----------------------
(***************************************************************************)
(* In what order the two ends of a negotiation go through a transfer, for  *)
(* every number of transfers and every bound on failures: each command     *)
(* finds its receiver as its sender expects it, an active end dials a      *)
(* listener that is ready, and a closed peer starts nothing.  That is why  *)
(* the negotiation implements the contract of a file transfer: each step of*)
(* a program is, seen through Ends, a step that the contract allows that   *)
(* program, or one that the contract does not see.                         *)
(***************************************************************************)
EXTENDS NegotiationProofs

-----------------------------------------------------------------------------
(* The second inductive invariant.  The first says that what one end       *)
(* believes of the other is true; this one says that it is not out of date.*)

\* States of a suggested copy, and those in which it still waits for a verdict.
Suggested == {"VERDICT_PENDING", "PASSIVE_RESOLVE_ACCEPT_IP"} \cup Past
Waiting == {"VERDICT_PENDING", "ABORTED"}

\* The listener's side is done: its accept entry, if it has one, is resolved.
Ready(c) == c.meth = "PASSIVE" /\ c.local => c.accept \in {"RESOLVED", "DELETE"}

\* What FILE-PREPARED tells of its sender's copy, and stays true of it.
Told(c) == c.state \in Past /\ c.verdict = "ACCEPTED" /\ Ready(c)

\* A copy of direction d whose connection and accept entry fit its state.
Settled(d, c) ==
    /\ c.state = "NONE" => c = NoCopy
    /\ d = "IN" /\ c.state = "SETUP_PENDING" => ~c.local
    /\ c.state = "ACTIVE_RESOLVE_SRC_IP" => c.meth = "ACTIVE"
    /\ c.state \in Agreed => Ready(c)
    /\ c.meth = "ACTIVE" /\ c.dcon \in {"CONNECTING", "ESTABLISHED"} =>
          c.prepared /\ c.state \in {"TRANSFERING", "COMPLETED", "ABORTED"}

\* The copy at its sender that a command is about.
Subject(m) ==
    IF m.cmd = "SUGGEST" THEN <<"OUT", m.id>>
    ELSE IF m.cmd = "VERDICT" THEN <<"IN", m.id>> ELSE <<m.dir, m.id>>

\* A command on its way finds the receiver's copy, mine, in the state that the
\* sender counts on, and theirs, the sender's, is as the command says.
Expected(m, mine, theirs) ==
    /\ m.cmd = "SUGGEST" =>
          mine.state = "NONE" /\ theirs.state \in Waiting /\ theirs.meth = m.meth
    /\ m.cmd = "VERDICT" => mine.state \in Waiting /\ theirs.verdict = m.ver
    /\ m.cmd = "PREPARED" => mine.state # "NONE" /\ ~mine.prepared /\ Told(theirs)

AllSettled == \A e \in Node, k \in Key : Settled(k[1], xfer[e][k])

\* No command is sent twice.
NoRepeat(s) == \A i, j \in 1 .. Len(s) : s[i] = s[j] => i = j

Distinct == \A e \in Node : NoRepeat(chan[e])

AllExpected ==
    \A e \in Node, m \in Message : InFlight(m, e) =>
        Expected(m, xfer[e][Mirror(Subject(m))], xfer[Other(e)][Subject(m)])

\* The copies of a transfer take opposite roles, and the suggested one waits as
\* long as no verdict was given.
Fits(mine, theirs) ==
    mine.state # "NONE" =>
        /\ theirs.state \in Suggested /\ mine.meth = Opposite(theirs.meth)
        /\ mine.verdict = "PENDING" => theirs.state \in Waiting

Paired ==
    \A e \in Node, k \in Key :
        k[1] = "IN" => Fits(xfer[e][k], xfer[Other(e)][Mirror(k)])

PreparedTold ==
    \A e \in Node, k \in Key : xfer[e][k].prepared => Told(xfer[Other(e)][Mirror(k)])

Order ==
    /\ AllSettled /\ Distinct /\ AllExpected /\ Paired /\ PreparedTold
    /\ ClosedPeerStartsNothing

-----------------------------------------------------------------------------
(* What one step may do to a copy, and with the channels.                  *)

\* A handler that finds a copy in state s may leave it in state t.
Leads(s, t) ==
    \/ t = s
    \/ t = "ABORTED" /\ s \notin Ended \cup {"NONE"}
    \/ s = "NONE" /\ t \in {"SETUP_PENDING", "ACTIVE_RESOLVE_SRC_IP", "VERDICT_PENDING"}
    \/ s = "SETUP_PENDING" /\ t \in {"ACTIVE_RESOLVE_SRC_IP", "PASSIVE_RESOLVE_ACCEPT_IP"}
    \/ s = "ACTIVE_RESOLVE_SRC_IP" /\ t = "VERDICT_PENDING"
    \/ s = "VERDICT_PENDING" /\ t = "PASSIVE_RESOLVE_ACCEPT_IP"
    \/ /\ s \in {"SETUP_PENDING", "ACTIVE_RESOLVE_SRC_IP", "PASSIVE_RESOLVE_ACCEPT_IP",
                 "VERDICT_PENDING"}
       /\ t = "PREPARATION_PENDING"
    \/ s = "PREPARATION_PENDING" /\ t = "TRANSFERING"
    \/ s = "TRANSFERING" /\ t = "COMPLETED"

\* Copy c under key k becomes n in a step that has heard the commands H.
Evolves(k, c, n, H) ==
    /\ Sound(k[1], n) /\ Settled(k[1], n)
    /\ Leads(c.state, n.state)
    /\ c.state # "NONE" => n.meth = c.meth
    /\ c.state \in Past /\ Ready(c) => Ready(n)
    /\ c.verdict # "PENDING" => n.verdict = c.verdict
    /\ c.state \in Ended => n.verdict = c.verdict
    /\ k[1] = "IN" /\ c.state = "NONE" /\ n.state # "NONE" =>
          Suggest(k[2], Opposite(n.meth)) \in H
    /\ k[1] = "OUT" /\ n.verdict = "ACCEPTED" =>
          c.verdict = "ACCEPTED" \/ Verdict(k[2], "ACCEPTED") \in H
    /\ n.prepared => c.prepared \/ Prepared(Flip(k[1]), k[2]) \in H

\* Command m is sent when its subject becomes n.
Justified(m, c, n) ==
    /\ m.cmd = "SUGGEST" =>
          /\ c.state \in {"NONE", "ACTIVE_RESOLVE_SRC_IP"}
          /\ n.state = "VERDICT_PENDING" /\ n.meth = m.meth
    /\ m.cmd = "VERDICT" => c.state # "NONE" /\ c.verdict = "PENDING" /\ n.verdict = m.ver
    /\ m.cmd = "PREPARED" => c.state \notin Past \cup {"NONE"} /\ Told(n)

\* A step of endpoint e evolves its copies, takes the commands it has heard off
\* the channel, and sends each command once.
Heard(e, H) == \A m \in H : m \in Message /\ InFlight(m, e) /\ ~InFlight(m, e)'

Evolution(e) ==
    /\ Step(e)
    /\ \E H : Heard(e, H) /\ \A k \in Key : Evolves(k, xfer[e][k], xfer'[e][k], H)
    /\ \A m \in Message : InFlight(m, Other(e))' =>
          \/ InFlight(m, Other(e))
          \/ Justified(m, xfer[e][Subject(m)], xfer'[e][Subject(m)])
    /\ Distinct'
    /\ ctl'[Other(e)] = ctl[Other(e)]
    /\ \A k \in Key :
          ctl'[e] = "CLOSED" /\ xfer'[e][k].state \in {"PREPARATION_PENDING", "TRANSFERING"}
              => xfer'[e][k].dcon = "ESTABLISHED"

-----------------------------------------------------------------------------
(* An evolution keeps the invariant.                                       *)

\* The subject of a command is a copy, seen from its receiver as well.
LEMMA Subjects ==
    ASSUME NEW m \in Message
    PROVE  /\ Subject(m) \in Key /\ Mirror(Subject(m)) \in Key
           /\ m.id \in Id /\ m.cmd \in {"SUGGEST", "VERDICT", "PREPARED"}
           /\ m.cmd = "SUGGEST" => /\ Mirror(Subject(m)) = <<"IN", m.id>>
                                   /\ m.meth \in Method /\ m = Suggest(m.id, m.meth)
           /\ m.cmd = "VERDICT" => /\ Mirror(Subject(m)) = <<"OUT", m.id>>
                                   /\ m = Verdict(m.id, m.ver)
           /\ m.cmd = "PREPARED" => /\ Mirror(Subject(m)) = <<Flip(m.dir), m.id>>
                                    /\ m = Prepared(m.dir, m.id) /\ m.dir \in Dir
<1>1. /\ m.id \in Id /\ m.cmd \in {"SUGGEST", "VERDICT", "PREPARED"}
      /\ m.cmd = "PREPARED" => m.dir \in Dir
  BY Fields DEF Message
<1>2. Subject(m) \in Key
  BY <1>1 DEF Subject, Key, Dir
<1>3. Mirror(Subject(m)) \in Key
  BY <1>2, Mirrored
<1> QED BY <1>1, <1>2, <1>3, Fields DEF Subject, Mirror, Flip

\* A copy never forgets that it was suggested, agreed on or told of.
LEMMA EvolvesKeeps ==
    ASSUME NEW k \in Key, NEW c \in Copy, NEW n \in Copy, NEW H,
           Sound(k[1], c), Evolves(k, c, n, H)
    PROVE  /\ Told(c) => Told(n)
           /\ c.state \in Suggested => n.state \in Suggested
           /\ c.state # "NONE" => n.state # "NONE" /\ n.meth = c.meth
           /\ k[1] = "OUT" /\ c.state \in Waiting =>
                 n.state \in Waiting \/ Verdict(k[2], "ACCEPTED") \in H
           /\ c.verdict # "PENDING" => n.verdict = c.verdict
<1>1. c.state \in State /\ n.state \in State
  BY DEF Copy
<1>2. /\ c.state \in Past => n.state \in Past
      /\ c.state \in Suggested => n.state \in Suggested
      /\ c.state # "NONE" => n.state # "NONE"
      /\ c.state \in Waiting =>
            n.state \in Waiting \cup {"PASSIVE_RESOLVE_ACCEPT_IP", "PREPARATION_PENDING"}
      /\ c.state = "ABORTED" => n.state = "ABORTED"
  BY <1>1 DEF Evolves, Leads, State, Past, Suggested, Agreed, Waiting, Ended
<1>3. ASSUME k[1] = "OUT", c.state \in Waiting, n.state \notin Waiting
      PROVE  Verdict(k[2], "ACCEPTED") \in H
  <2>1. c.verdict = "PENDING"
    BY <1>2, <1>3 DEF Sound, Waiting
  <2>2. n.verdict = "ACCEPTED"
    BY <1>2, <1>3 DEF Evolves, Sound, Agreed
  <2> QED BY <2>1, <2>2, <1>3 DEF Evolves
<1> QED BY <1>2, <1>3 DEF Told, Evolves

\* Commands of the same kind about the same copy that are on their way to the
\* same endpoint are the same command.
LEMMA OneCommand ==
    ASSUME AllExpected, NEW e \in Node,
           NEW m \in Message, InFlight(m, e), NEW h \in Message, InFlight(h, e),
           m.cmd = h.cmd, Subject(m) = Subject(h)
    PROVE  m = h
<1> DEFINE theirs == xfer[Other(e)][Subject(m)]
<1>1. /\ Expected(m, xfer[e][Mirror(Subject(m))], theirs)
      /\ Expected(h, xfer[e][Mirror(Subject(h))], theirs)
  BY DEF AllExpected
<1> HIDE DEF theirs
<1>2. m.cmd = "SUGGEST" => m.id = h.id /\ m.meth = h.meth
  BY <1>1 DEF Expected, Subject
<1>3. m.cmd = "VERDICT" => m.id = h.id /\ m.ver = h.ver
  BY <1>1 DEF Expected, Subject
<1>4. m.cmd = "PREPARED" => m.id = h.id /\ m.dir = h.dir
  BY DEF Subject
<1> QED BY <1>2, <1>3, <1>4, Subjects

\* What was heard is expected, and about the copy that it evolves.
LEMMA HeardFacts ==
    ASSUME AllExpected, NEW e \in Node, NEW H, Heard(e, H), NEW k \in Key
    PROVE  /\ \A m \in Method : Suggest(k[2], m) \in H /\ k[1] = "IN" =>
                 Expected(Suggest(k[2], m), xfer[e][k], xfer[Other(e)][Mirror(k)])
           /\ Verdict(k[2], "ACCEPTED") \in H /\ k[1] = "OUT" =>
                 xfer[Other(e)][Mirror(k)].verdict = "ACCEPTED"
           /\ Prepared(Flip(k[1]), k[2]) \in H => Told(xfer[Other(e)][Mirror(k)])
<1>1. k[1] \in Dir /\ k[2] \in Id /\ k = <<k[1], k[2]>> /\ Flip(k[1]) \in Dir
  BY Mirrored DEF Flip, Dir
<1>2. \A m \in Message : m \in H =>
         Expected(m, xfer[e][Mirror(Subject(m))], xfer[Other(e)][Subject(m)])
  BY DEF Heard, AllExpected
<1>3. ASSUME NEW m \in Method, Suggest(k[2], m) \in H, k[1] = "IN"
      PROVE  Expected(Suggest(k[2], m), xfer[e][k], xfer[Other(e)][Mirror(k)])
  <2>1. Suggest(k[2], m) \in Message
    BY <1>1, Messages
  <2>2. Subject(Suggest(k[2], m)) = Mirror(k) /\ Mirror(Mirror(k)) = k
    BY <1>1, <1>3, Mirrored DEF Suggest, Subject, Mirror, Flip
  <2> QED BY <1>2, <1>3, <2>1, <2>2
<1>4. ASSUME Verdict(k[2], "ACCEPTED") \in H, k[1] = "OUT"
      PROVE  xfer[Other(e)][Mirror(k)].verdict = "ACCEPTED"
  <2>1. Verdict(k[2], "ACCEPTED") \in Message
    BY <1>1, Messages DEF Method
  <2>2. Subject(Verdict(k[2], "ACCEPTED")) = Mirror(k)
    BY <1>4 DEF Verdict, Subject, Mirror, Flip
  <2> QED BY <1>2, <1>4, <2>1, <2>2 DEF Expected, Verdict
<1>5. ASSUME Prepared(Flip(k[1]), k[2]) \in H
      PROVE  Told(xfer[Other(e)][Mirror(k)])
  <2>1. Prepared(Flip(k[1]), k[2]) \in Message
    BY <1>1, Messages DEF Method
  <2>2. Subject(Prepared(Flip(k[1]), k[2])) = Mirror(k)
    BY <1>1 DEF Prepared, Subject, Mirror
  <2> QED BY <1>2, <1>5, <2>1, <2>2 DEF Expected, Prepared
<1> QED BY <1>3, <1>4, <1>5

\* Every evolution keeps the invariant.
LEMMA OrderKept ==
    ASSUME Inv, Order, NEW e \in Node, Evolution(e)
    PROVE  Order'
<1> DEFINE o == Other(e)
<1>0. /\ o \in Node /\ o # e /\ Other(o) = e
      /\ \A f \in Node : f = e \/ f = o
  BY Endpoints
<1>1. PICK H : Heard(e, H) /\ \A k \in Key : Evolves(k, xfer[e][k], xfer'[e][k], H)
  BY DEF Evolution
<1>2. /\ xfer'[o] = xfer[o] /\ ctl'[o] = ctl[o]
      /\ \A k \in Key : /\ xfer[e][k] \in Copy /\ xfer'[e][k] \in Copy /\ xfer[o][k] \in Copy
                        /\ Sound(k[1], xfer[e][k]) /\ Sound(k[1], xfer[o][k])
  BY <1>0 DEF Evolution, Step, Inv, TypeOK, Table, AllSound
<1>3. ASSUME NEW k \in Key
      PROVE  /\ Told(xfer[e][k]) => Told(xfer'[e][k])
             /\ xfer[e][k].state \in Suggested => xfer'[e][k].state \in Suggested
             /\ xfer[e][k].state # "NONE" =>
                   xfer'[e][k].state # "NONE" /\ xfer'[e][k].meth = xfer[e][k].meth
             /\ k[1] = "OUT" /\ xfer[e][k].state \in Waiting =>
                   \/ xfer'[e][k].state \in Waiting
                   \/ Verdict(k[2], "ACCEPTED") \in H
             /\ xfer[e][k].verdict # "PENDING" => xfer'[e][k].verdict = xfer[e][k].verdict
  <2>1. Evolves(k, xfer[e][k], xfer'[e][k], H)
    BY <1>1
  <2> QED BY <2>1, <1>2, EvolvesKeeps
<1>4. ASSUME NEW k \in Key
      PROVE  /\ \A m \in Method : Suggest(k[2], m) \in H /\ k[1] = "IN" =>
                   Expected(Suggest(k[2], m), xfer[e][k], xfer[o][Mirror(k)])
             /\ Verdict(k[2], "ACCEPTED") \in H /\ k[1] = "OUT" =>
                   xfer[o][Mirror(k)].verdict = "ACCEPTED"
             /\ Prepared(Flip(k[1]), k[2]) \in H => Told(xfer[o][Mirror(k)])
  BY <1>1, HeardFacts DEF Order
<1> HIDE DEF o
<1>5. AllSettled'
  BY <1>0, <1>1, <1>2 DEF AllSettled, Order, Evolves
<1>6. Distinct'
  BY DEF Evolution
<1>7. AllExpected'
  <2> SUFFICES ASSUME NEW f \in Node, NEW m \in Message, InFlight(m, f)'
               PROVE  Expected(m, xfer'[f][Mirror(Subject(m))], xfer'[Other(f)][Subject(m)])
    BY DEF AllExpected
  <2> DEFINE s == Subject(m)
             r == Mirror(Subject(m))
  <2>1. s \in Key /\ r \in Key
    BY Subjects
  <2>2. CASE f = e
    <3>1. InFlight(m, e) /\ Expected(m, xfer[e][r], xfer[o][s])
      BY <2>2 DEF Evolution, Step, Order, AllExpected, o
    <3>2. \A h \in H : h \in Message /\ h.cmd = m.cmd => Subject(h) # Subject(m)
      BY <3>1, <1>1, <2>2, OneCommand DEF Heard, Order
    <3>3. m.cmd = "SUGGEST" => xfer'[e][r].state = "NONE"
      <4> SUFFICES ASSUME m.cmd = "SUGGEST", xfer'[e][r].state # "NONE" PROVE FALSE
        OBVIOUS
      <4>1. r[1] = "IN" /\ r[2] = m.id /\ xfer[e][r].state = "NONE"
        BY <3>1, Subjects DEF Expected
      <4> DEFINE h == Suggest(r[2], Opposite(xfer'[e][r].meth))
      <4>2. h \in H
        BY <1>1, <2>1, <4>1 DEF Evolves
      <4>3. h.cmd = m.cmd /\ Subject(h) = Subject(m)
        BY <4>1 DEF Suggest, Subject
      <4> QED BY <4>2, <4>3, <3>2, <1>1 DEF Heard
    <3>4. m.cmd = "VERDICT" => xfer'[e][r].state \in Waiting
      <4> SUFFICES ASSUME m.cmd = "VERDICT", Verdict(r[2], "ACCEPTED") \in H PROVE FALSE
        BY <3>1, <2>1, <1>3, Subjects DEF Expected
      <4> DEFINE h == Verdict(r[2], "ACCEPTED")
      <4>1. r[2] = m.id
        BY Subjects
      <4> HIDE DEF r
      <4>2. h.cmd = m.cmd /\ Subject(h) = Subject(m)
        BY <4>1 DEF Verdict, Subject
      <4> QED BY <4>2, <3>2, <1>1 DEF Heard
    <3>5. m.cmd = "PREPARED" => xfer'[e][r].state # "NONE" /\ ~xfer'[e][r].prepared
      <4>1. m.cmd = "PREPARED" => xfer'[e][r].state # "NONE"
        BY <3>1, <2>1, <1>3 DEF Expected
      <4> SUFFICES ASSUME m.cmd = "PREPARED", xfer'[e][r].prepared PROVE FALSE
        BY <4>1
      <4> DEFINE h == Prepared(Flip(r[1]), r[2])
      <4>2. h \in H
        BY <3>1, <2>1, <1>1 DEF Expected, Evolves
      <4>3. r[1] = Flip(m.dir) /\ r[2] = m.id /\ m.dir \in Dir
        BY Subjects
      <4> HIDE DEF r
      <4>4. h.cmd = m.cmd /\ Subject(h) = Subject(m)
        BY <4>3 DEF Prepared, Subject, Flip, Dir
      <4> QED BY <4>2, <4>4, <3>2, <1>1 DEF Heard
    <3> QED BY <3>1, <3>3, <3>4, <3>5, <2>2, <1>2 DEF Expected, o
  <2>3. CASE f = o
    <3>1. CASE InFlight(m, o)
      <4>1. Expected(m, xfer[o][r], xfer[e][s])
        BY <3>1, <1>0 DEF Order, AllExpected
      <4>2. m.cmd = "SUGGEST" =>
              xfer'[e][s].state \in Waiting /\ xfer'[e][s].meth = xfer[e][s].meth
        <5> SUFFICES ASSUME m.cmd = "SUGGEST"
                     PROVE  xfer'[e][s].state \in Waiting /\ xfer'[e][s].meth = xfer[e][s].meth
          OBVIOUS
        <5>1. /\ xfer[e][s].state \in Waiting /\ xfer[o][r].state = "NONE"
              /\ s[1] = "OUT" /\ r = Mirror(s)
          BY <4>1 DEF Expected, Subject
        <5>2. Verdict(s[2], "ACCEPTED") \notin H
          <6>1. xfer[o][r].verdict = "PENDING"
            BY <5>1, <2>1, <1>2 DEF Sound
          <6> QED BY <6>1, <5>1, <2>1, <1>4
        <5> QED BY <5>1, <5>2, <2>1, <1>3 DEF Waiting
      <4>3. m.cmd = "VERDICT" => xfer'[e][s].verdict = m.ver
        BY <4>1, <2>1, <1>3 DEF Expected, Message
      <4>4. m.cmd = "PREPARED" => Told(xfer'[e][s])
        BY <4>1, <2>1, <1>3 DEF Expected
      <4> QED BY <4>1, <4>2, <4>3, <4>4, <2>3, <1>0, <1>2 DEF Expected
    <3>2. CASE Justified(m, xfer[e][s], xfer'[e][s])
      <4>1. m.cmd = "SUGGEST" => xfer[o][r].state = "NONE"
        <5> SUFFICES ASSUME m.cmd = "SUGGEST", xfer[o][r].state # "NONE" PROVE FALSE
          OBVIOUS
        <5>1. r[1] = "IN" /\ Mirror(r) = s /\ xfer[e][s].state \in {"NONE", "ACTIVE_RESOLVE_SRC_IP"}
          BY <3>2, <2>1, Mirrored, Subjects DEF Justified
        <5>2. xfer[e][s].state \in Suggested
          BY <5>1, <2>1, <1>0 DEF Order, Paired, Fits
        <5> QED BY <5>1, <5>2 DEF Suggested, Past, Agreed
      <4>2. m.cmd = "VERDICT" => xfer[o][r].state \in Waiting
        BY <3>2, <2>1 DEF Justified, Order, Paired, Fits, Subject, o
      <4>3. m.cmd = "PREPARED" => xfer[o][r].state # "NONE" /\ ~xfer[o][r].prepared
        <5> SUFFICES ASSUME m.cmd = "PREPARED"
                     PROVE  xfer[o][r].state # "NONE" /\ ~xfer[o][r].prepared
          OBVIOUS
        <5>1. /\ s = <<m.dir, m.id>> /\ m.dir \in Dir /\ Mirror(r) = s /\ r = Mirror(s)
              /\ xfer[e][s].state \notin Past \cup {"NONE"}
              /\ xfer'[e][s].verdict = "ACCEPTED"
          BY <3>2, <2>1, Mirrored, Subjects DEF Justified, Subject, Told
        <5>2. ~xfer[o][r].prepared
          BY <5>1, <2>1, <1>0 DEF Order, PreparedTold, Told
        <5>3. CASE m.dir = "IN"
          <6>1. xfer[o][r].state \in Suggested
            BY <5>1, <5>3, <2>1 DEF Order, Paired, Fits, o
          <6> QED BY <5>2, <6>1 DEF Suggested, Past, Agreed
        <5>4. CASE m.dir = "OUT"
          <6>1. xfer[e][s].verdict = "ACCEPTED" \/ Verdict(s[2], "ACCEPTED") \in H
            BY <1>1, <2>1, <5>1, <5>4 DEF Evolves
          <6>2. xfer[o][r].verdict = "ACCEPTED"
            BY <6>1, <5>1, <5>4, <2>1, <1>4 DEF Inv, BeliefsBacked, Copies, o
          <6> QED BY <6>2, <5>2, <2>1, <1>2 DEF Sound
        <5> QED BY <5>1, <5>3, <5>4 DEF Dir
      <4> QED BY <3>2, <4>1, <4>2, <4>3, <2>3, <1>0, <1>2
             DEF Expected, Justified, Waiting
    <3> QED BY <3>1, <3>2, <2>3 DEF Evolution, o
  <2> QED BY <2>2, <2>3, <1>0
<1>8. Paired'
  <2> SUFFICES ASSUME NEW f \in Node, NEW k \in Key, k[1] = "IN", xfer'[f][k].state # "NONE"
               PROVE  /\ xfer'[Other(f)][Mirror(k)].state \in Suggested
                      /\ xfer'[f][k].meth = Opposite(xfer'[Other(f)][Mirror(k)].meth)
                      /\ xfer'[f][k].verdict = "PENDING" =>
                            xfer'[Other(f)][Mirror(k)].state \in Waiting
    BY DEF Paired, Fits
  <2>1. Mirror(k) \in Key /\ Mirror(Mirror(k)) = k /\ Mirror(k)[1] = "OUT" /\ Mirror(k)[2] = k[2]
    BY Mirrored DEF Mirror, Flip
  <2>2. CASE f = e
    <3> DEFINE c == xfer[e][k]
               n == xfer'[e][k]
               d == xfer[o][Mirror(k)]
    <3>1. Fits(c, d) /\ Evolves(k, c, n, H) /\ n \in Copy /\ d \in Copy
      BY <1>1, <1>2, <2>1 DEF Order, Paired, o
    <3>2. CASE c.state # "NONE"
      <4>1. n.meth = c.meth /\ (n.verdict = "PENDING" => c.verdict = "PENDING")
        BY <1>3, <3>2
      <4> QED BY <3>1, <3>2, <4>1, <2>2, <1>2 DEF Fits, o
    <3>3. CASE c.state = "NONE"
      <4>1. Suggest(k[2], Opposite(n.meth)) \in H /\ Opposite(n.meth) \in Method
        BY <3>1, <3>3, <2>2 DEF Evolves, Opposite, Method
      <4>2. Expected(Suggest(k[2], Opposite(n.meth)), c, d)
        BY <4>1, <1>4
      <4>3. d.state \in Waiting /\ d.meth = Opposite(n.meth)
        BY <4>2 DEF Expected, Suggest
      <4>4. n.meth = Opposite(d.meth)
        BY <4>3, <3>1 DEF Opposite, Copy, Method
      <4> QED BY <4>3, <4>4, <2>2, <1>2 DEF Waiting, Suggested, Past, o
    <3> QED BY <3>2, <3>3
  <2>3. CASE f = o
    <3> DEFINE d == xfer[e][Mirror(k)]
    <3>1. Fits(xfer[o][k], d) /\ xfer[o][k].state # "NONE" /\ xfer'[o][k] = xfer[o][k]
      BY <1>0, <1>2, <2>3 DEF Order, Paired
    <3>2. d.state \in Suggested /\ d.state # "NONE"
      BY <3>1 DEF Fits, Suggested, Past, Agreed
    <3>3. xfer[o][k].verdict = "PENDING" => Verdict(k[2], "ACCEPTED") \notin H
      BY <2>1, <1>4
    <3> QED BY <3>1, <3>2, <3>3, <2>1, <2>3, <1>0, <1>3 DEF Fits
  <2> QED BY <2>2, <2>3, <1>0
<1>9. PreparedTold'
  <2> SUFFICES ASSUME NEW f \in Node, NEW k \in Key, xfer'[f][k].prepared
               PROVE  Told(xfer'[Other(f)][Mirror(k)])
    BY DEF PreparedTold
  <2>1. Mirror(k) \in Key /\ (xfer[f][k].prepared => Told(xfer[Other(f)][Mirror(k)]))
    BY Mirrored DEF Order, PreparedTold
  <2>2. CASE f = e
    <3>1. xfer[e][k].prepared \/ Prepared(Flip(k[1]), k[2]) \in H
      BY <1>1, <2>2 DEF Evolves
    <3>2. Told(xfer[o][Mirror(k)])
      BY <3>1, <2>1, <2>2, <1>4 DEF o
    <3> QED BY <3>2, <2>2, <1>2 DEF o
  <2>3. CASE f = o
    BY <2>1, <2>3, <1>0, <1>2, <1>3, Mirrored
  <2> QED BY <2>2, <2>3, <1>0
<1>10. ClosedPeerStartsNothing'
  BY <1>0, <1>2 DEF ClosedPeerStartsNothing, Order, Evolution
<1> QED BY <1>5, <1>6, <1>7, <1>8, <1>9, <1>10 DEF Order

-----------------------------------------------------------------------------
(* The kinds of steps, again: each is an evolution.                        *)

\* A copy that may evolve may be aborted as well, if it was there before.
LEMMA EvolvesAbort ==
    ASSUME NEW k \in Key, NEW c \in Copy, NEW n \in Copy, NEW H,
           Evolves(k, c, n, H), c.state # "NONE"
    PROVE  Evolves(k, c, Abort(n), H)
<1>1. CASE Abort(n) = n
  BY <1>1
<1>2. CASE Abort(n) # n
  <2> DEFINE a == Abort(n)
  <2>1. a = [n EXCEPT !.state = "ABORTED"] /\ n.state \notin Ended \cup {"NONE"}
    BY <1>2, AbortFacts
  <2>2. /\ a.state = "ABORTED" /\ a.verdict = n.verdict /\ a.prepared = n.prepared
        /\ a.meth = n.meth /\ a.local = n.local /\ a.accept = n.accept /\ a.dcon = n.dcon
    BY <2>1 DEF Copy
  <2> HIDE DEF a
  <2>3. Sound(k[1], a) /\ Settled(k[1], a) /\ (Ready(n) => Ready(a))
    BY <2>2 DEF Evolves, Sound, Settled, Ready, Agreed
  <2>4. Leads(c.state, a.state)
    BY <2>1, <2>2 DEF Evolves, Leads, Ended
  <2>5. Evolves(k, c, a, H)
    BY <2>2, <2>3, <2>4 DEF Evolves
  <2> QED BY <2>5 DEF a
<1> QED BY <1>1, <1>2

\* A copy may stay as it is, whatever is heard.
LEMMA Stays ==
    ASSUME Inv, Order, NEW e \in Node, NEW k \in Key, NEW H
    PROVE  /\ Evolves(k, xfer[e][k], xfer[e][k], H)
           /\ Settled(k[1], xfer[e][k])
           /\ xfer[e][k].state # "NONE" => Evolves(k, xfer[e][k], Abort(xfer[e][k]), H)
<1> DEFINE c == xfer[e][k]
           a == Abort(c)
<1>1. c \in Copy /\ Sound(k[1], c) /\ Settled(k[1], c)
  BY OwnCopy DEF Order, AllSettled
<1>2. Evolves(k, c, c, H)
  BY <1>1 DEF Evolves, Leads
<1>3. ASSUME c.state # "NONE" PROVE Evolves(k, c, a, H)
  BY <1>1, <1>2, <1>3, EvolvesAbort
<1> QED BY <1>1, <1>2, <1>3

\* In table T only what has an established connection is prepared or started.
StartsNothing(T) ==
    \A k \in Key : T[k].state \in {"PREPARATION_PENDING", "TRANSFERING"}
                     => T[k].dcon = "ESTABLISHED"

\* Aborting what is unestablished starts nothing, and what a step could do to
\* every copy it can also do before such an abort.
LEMMA AbortEvolves ==
    ASSUME NEW T \in Table, NEW U \in Table, NEW H,
           \A k \in Key : Evolves(k, T[k], U[k], H) /\ (T[k].state = "NONE" => U[k] = T[k])
    PROVE  /\ \A k \in Key : Evolves(k, T[k], AbortUnest(U)[k], H)
           /\ StartsNothing(AbortUnest(U))
<1> SUFFICES ASSUME NEW k \in Key
             PROVE  /\ Evolves(k, T[k], AbortUnest(U)[k], H)
                    /\ AbortUnest(U)[k].state \in {"PREPARATION_PENDING", "TRANSFERING"}
                          => AbortUnest(U)[k].dcon = "ESTABLISHED"
  BY DEF StartsNothing
<1>1. /\ T[k] \in Copy /\ U[k] \in Copy /\ Evolves(k, T[k], U[k], H)
      /\ T[k].state = "NONE" => Abort(U[k]) = U[k]
  BY AbortFacts DEF Table
<1>2. Evolves(k, T[k], Abort(U[k]), H)
  BY <1>1, EvolvesAbort
<1>3. AbortUnest(U)[k] = IF U[k].dcon # "ESTABLISHED" THEN Abort(U[k]) ELSE U[k]
  BY DEF AbortUnest
<1>4. Abort(U[k]).state \notin {"PREPARATION_PENDING", "TRANSFERING"}
  BY <1>1, AbortFacts DEF Ended
<1> QED BY <1>1, <1>2, <1>3, <1>4

\* A command of which the sender's copy does not tell yet is not on its way.
LEMMA NotSentTwice ==
    ASSUME Inv, Order, NEW e \in Node, NEW m \in Message, NEW n,
           Justified(m, xfer[e][Subject(m)], n)
    PROVE  ~InFlight(m, Other(e))
<1> SUFFICES ASSUME InFlight(m, Other(e)) PROVE FALSE
  OBVIOUS
<1> DEFINE mine == xfer[Other(e)][Mirror(Subject(m))]
           theirs == xfer[e][Subject(m)]
<1>1. Expected(m, mine, theirs)
  BY Endpoints DEF Order, AllExpected
<1> HIDE DEF mine, theirs
<1>2. Justified(m, theirs, n)
  BY DEF theirs
<1>3. m.cmd \in {"SUGGEST", "VERDICT", "PREPARED"} /\ (m.cmd = "VERDICT" => m.ver # "PENDING")
  BY Fields, Subjects
<1> QED BY <1>1, <1>2, <1>3 DEF Justified, Expected, Waiting, Told

\* What a handler took off the channel it has heard, and will not hear again.
LEMMA HeadHeard ==
    ASSUME Inv, Order, NEW e \in Node, due[e] > 0, chan'[e] = Rest(e)[e]
    PROVE  Heard(e, {Head(chan[e])})
<1> DEFINE s == chan[e]
<1>1. /\ s \in Seq(Message) /\ s # <<>> /\ Head(s) \in Message /\ InFlight(Head(s), e)
      /\ chan'[e] = Tail(s)
  BY Channels DEF Inv, TypeOK, Rest
<1>2. /\ Head(s) = s[1] /\ Len(s) \in Nat /\ Len(Tail(s)) = Len(s) - 1 /\ Len(s) > 0
      /\ \A j \in 1 .. Len(Tail(s)) : Tail(s)[j] = s[j + 1]
  BY <1>1, HeadTailProperties, LenProperties, EmptySeq
<1>3. \A i, j \in 1 .. Len(s) : s[i] = s[j] => i = j
  BY DEF Order, Distinct, NoRepeat
<1>4. ASSUME NEW j \in 1 .. Len(Tail(s)), Tail(s)[j] = Head(s) PROVE FALSE
  <2>1. j + 1 \in 1 .. Len(s) /\ 1 \in 1 .. Len(s) /\ s[j + 1] = s[1] /\ j + 1 # 1
    BY <1>2, <1>4
  <2> QED BY <2>1, <1>3
<1>5. ASSUME NEW m \in Message, m = Head(s) PROVE ~InFlight(m, e)'
  BY <1>1, <1>4, <1>5 DEF InFlight
<1> QED BY <1>1, <1>5 DEF Heard

\* Taking commands off a channel keeps the others distinct.
LEMMA ShorterDistinct ==
    ASSUME Inv, Order, NEW e \in Node, NEW s,
           \/ s = chan[e] \/ s = <<>>
           \/ due[e] > 0 /\ s = Rest(e)[e]
    PROVE  NoRepeat(s)
<1>1. CASE s = chan[e]
  BY <1>1 DEF Order, Distinct
<1>2. CASE s = <<>>
  BY <1>2 DEF NoRepeat
<1>3. CASE due[e] > 0 /\ s = Rest(e)[e]
  <2>1. chan[e] \in Seq(Message) /\ chan[e] # <<>> /\ s = Tail(chan[e])
    BY <1>3, Channels DEF Inv, TypeOK, Rest
  <2>2. /\ Len(chan[e]) \in Nat /\ Len(s) = Len(chan[e]) - 1
        /\ \A j \in 1 .. Len(s) : s[j] = chan[e][j + 1]
    BY <2>1, HeadTailProperties, LenProperties
  <2> SUFFICES ASSUME NEW i \in 1 .. Len(s), NEW j \in 1 .. Len(s), s[i] = s[j] PROVE i = j
    BY DEF NoRepeat
  <2>3. i + 1 \in 1 .. Len(chan[e]) /\ j + 1 \in 1 .. Len(chan[e])
        /\ chan[e][i + 1] = chan[e][j + 1]
    BY <2>2
  <2>4. i + 1 = j + 1
    BY <2>3 DEF Order, Distinct, NoRepeat
  <2> QED BY <2>4
<1> QED BY <1>1, <1>2, <1>3

\* A step that changes at most one copy, sends nothing, and hears at most a command.
LEMMA CopyEvolution ==
    ASSUME Inv, Order, NEW e \in Node, Step(e),
           NEW k \in Key, NEW n \in Copy, NEW H, Heard(e, H),
           Evolves(k, xfer[e][k], n, H),
           \/ xfer' = xfer
           \/ xfer' = [xfer EXCEPT ![e] = [xfer[e] EXCEPT ![k] = n]],
           chan' = chan \/ (due[e] > 0 /\ chan' = Rest(e)),
           ctl' = ctl,
           ctl[e] = "CLOSED" /\ n.state \in {"PREPARATION_PENDING", "TRANSFERING"} =>
               n.dcon = "ESTABLISHED"
    PROVE  Evolution(e)
<1> DEFINE o == Other(e)
<1>0. o \in Node /\ o # e /\ \A f \in Node : f = e \/ f = o
  BY Endpoints
<1>1. xfer \in [Node -> Table] /\ xfer[e] \in Table /\ chan \in [Node -> Seq(Message)]
  BY DEF Inv, TypeOK, Table
<1>2. ASSUME NEW j \in Key
      PROVE  xfer'[e][j] = xfer[e][j] \/ (j = k /\ xfer'[e][j] = n)
  BY <1>1 DEF Table
<1>3. \A j \in Key : Evolves(j, xfer[e][j], xfer'[e][j], H)
  BY <1>2, Stays
<1>4. chan'[o] = chan[o] /\ (chan'[e] = chan[e] \/ (due[e] > 0 /\ chan'[e] = Rest(e)[e]))
  BY <1>0, <1>1, Channels
<1>5. Distinct'
  <2>1. NoRepeat(chan'[e])
    BY <1>4, ShorterDistinct
  <2>2. NoRepeat(chan'[o])
    BY <1>0, <1>4 DEF Order, Distinct
  <2> QED BY <2>1, <2>2, <1>0 DEF Distinct
<1>6. \A m \in Message : InFlight(m, o)' => InFlight(m, o)
  BY <1>4 DEF InFlight
<1>7. \A j \in Key :
        ctl'[e] = "CLOSED" /\ xfer'[e][j].state \in {"PREPARATION_PENDING", "TRANSFERING"}
            => xfer'[e][j].dcon = "ESTABLISHED"
  BY <1>2 DEF Order, ClosedPeerStartsNothing
<1> QED BY <1>3, <1>5, <1>6, <1>7 DEF Evolution

\* Closing the control connection between two callbacks.
LEMMA CloseEvolution ==
    ASSUME Inv, Order, NEW e \in Node, Step(e), CtlConClose(e)
    PROVE  Evolution(e)
<1> DEFINE o == Other(e)
<1>0. o \in Node /\ o # e /\ \A f \in Node : f = e \/ f = o
  BY Endpoints
<1>1. /\ xfer[e] \in Table /\ xfer'[e] = AbortUnest(xfer[e])
      /\ chan'[e] = <<>> /\ chan'[o] = chan[o] /\ ctl'[o] = ctl[o]
  BY <1>0 DEF Inv, TypeOK, Table, CtlConClose
<1>2. \A k \in Key : Evolves(k, xfer[e][k], xfer[e][k], {})
  BY Stays
<1>3. /\ \A k \in Key : Evolves(k, xfer[e][k], xfer'[e][k], {})
      /\ StartsNothing(xfer'[e])
  BY <1>1, <1>2, AbortEvolves
<1>4. Distinct'
  <2>1. NoRepeat(chan'[e])
    BY <1>1 DEF NoRepeat
  <2>2. NoRepeat(chan'[o])
    BY <1>0, <1>1 DEF Order, Distinct
  <2> QED BY <2>1, <2>2, <1>0 DEF Distinct
<1>5. \A m \in Message : InFlight(m, o)' => InFlight(m, o)
  BY <1>1 DEF InFlight
<1> QED BY <1>1, <1>3, <1>4, <1>5 DEF Evolution, Heard, StartsNothing

\* A send of msgs may make t of the channel s: all, some or none arrive.
Extends(t, s, msgs) ==
    \/ t = s \/ t = s \o msgs
    \/ \E n \in 0 .. Len(msgs) - 1 : t = s \o SubSeq(msgs, 1, n)

Among(t, s, msgs) ==
    \A i \in 1 .. Len(t) : \/ \E j \in 1 .. Len(s) : t[i] = s[j]
                          \/ \E j \in 1 .. Len(msgs) : t[i] = msgs[j]

\* What a send adds to its peer's channel is new there, each command once.
LEMMA SendAdds ==
    ASSUME NEW s \in Seq(Message), NEW msgs \in Seq(Message), NEW t,
           Extends(t, s, msgs),
           NoRepeat(s), NoRepeat(msgs),
           \A i \in 1 .. Len(s), j \in 1 .. Len(msgs) : s[i] # msgs[j]
    PROVE  NoRepeat(t) /\ Among(t, s, msgs)
<1>1. Len(s) \in Nat /\ Len(msgs) \in Nat
  BY LenProperties
<1>2. PICK n \in Nat :
        /\ n <= Len(msgs) /\ Len(t) = Len(s) + n
        /\ \A i \in 1 .. Len(t) : t[i] = IF i <= Len(s) THEN s[i] ELSE msgs[i - Len(s)]
  <2>1. CASE t = s
    <3>1. /\ 0 \in Nat /\ 0 <= Len(msgs) /\ Len(t) = Len(s) + 0
          /\ \A i \in 1 .. Len(t) : t[i] = IF i <= Len(s) THEN s[i] ELSE msgs[i - Len(s)]
      BY <1>1, <2>1
    <3> QED BY <3>1
  <2>2. CASE t = s \o msgs
    BY <1>1, <2>2, ConcatProperties
  <2>3. ASSUME NEW n \in 0 .. Len(msgs) - 1, t = s \o SubSeq(msgs, 1, n)
        PROVE  /\ n \in Nat /\ n <= Len(msgs) /\ Len(t) = Len(s) + n
               /\ \A i \in 1 .. Len(t) : t[i] = IF i <= Len(s) THEN s[i] ELSE msgs[i - Len(s)]
    <3> DEFINE u == SubSeq(msgs, 1, n)
    <3>1. n \in Nat /\ n <= Len(msgs)
      BY <1>1
    <3>2. u \in Seq(Message) /\ Len(u) = n /\ \A i \in 1 .. n : u[i] = msgs[i]
      <4>1. \A i \in 1 .. n : i \in 1 .. Len(msgs)
        BY <1>1, <3>1
      <4> QED BY <1>1, <3>1, <4>1, SubSeqProperties, ElementOfSeq
    <3> HIDE DEF u
    <3>3. /\ Len(t) = Len(s) + n
          /\ \A i \in 1 .. Len(t) : t[i] = IF i <= Len(s) THEN s[i] ELSE u[i - Len(s)]
      BY <2>3, <3>2, <1>1, ConcatProperties DEF u
    <3>4. ASSUME NEW i \in 1 .. Len(t), i > Len(s) PROVE u[i - Len(s)] = msgs[i - Len(s)]
      <4>1. i - Len(s) \in 1 .. n
        BY <1>1, <3>1, <3>3, <3>4
      <4> QED BY <4>1, <3>2
    <3>5. ASSUME NEW i \in 1 .. Len(t)
          PROVE  t[i] = IF i <= Len(s) THEN s[i] ELSE msgs[i - Len(s)]
      <4>1. i \in Nat /\ (i <= Len(s) \/ i > Len(s))
        BY <1>1, <3>1, <3>3
      <4> QED BY <4>1, <3>3, <3>4
    <3> QED BY <3>1, <3>3, <3>5
  <2> QED BY <2>1, <2>2, <2>3 DEF Extends
<1>3. ASSUME NEW i \in 1 .. Len(t)
      PROVE  \/ i \in 1 .. Len(s) /\ t[i] = s[i]
             \/ i > Len(s) /\ i - Len(s) \in 1 .. Len(msgs) /\ t[i] = msgs[i - Len(s)]
  BY <1>1, <1>2
<1>4. ASSUME NEW i \in 1 .. Len(t), NEW j \in 1 .. Len(t), t[i] = t[j] PROVE i = j
  <2>1. CASE i \in 1 .. Len(s) /\ j \in 1 .. Len(s) /\ t[i] = s[i] /\ t[j] = s[j]
    BY <2>1, <1>4 DEF NoRepeat
  <2>2. CASE /\ i - Len(s) \in 1 .. Len(msgs) /\ t[i] = msgs[i - Len(s)]
             /\ j - Len(s) \in 1 .. Len(msgs) /\ t[j] = msgs[j - Len(s)]
    <3>1. i - Len(s) = j - Len(s)
      BY <2>2, <1>4 DEF NoRepeat
    <3> QED BY <3>1, <1>1, <1>2
  <2> QED BY <2>1, <2>2, <1>3, <1>4
<1> QED BY <1>3, <1>4 DEF NoRepeat, Among

\* U is a table that endpoint e may be left with when it heard H and sent msgs.
Outcome(e, U, H, msgs) ==
    /\ U \in Table
    /\ \A k \in Key : Evolves(k, xfer[e][k], U[k], H)
    /\ \A m \in Message : (\E j \in 1 .. Len(msgs) : m = msgs[j]) =>
          Justified(m, xfer[e][Subject(m)], U[Subject(m)])

\* A step that sends what both of its outcomes justify.
LEMMA SendEvolution ==
    ASSUME Inv, Order, NEW e \in Node, Step(e),
           NEW c \in [Node -> Seq(Message)], c[Other(e)] = chan[Other(e)],
           c[e] = chan[e] \/ (due[e] > 0 /\ c[e] = Rest(e)[e]),
           NEW msgs \in Seq(Message),
           NoRepeat(msgs),
           NEW ok, NEW failed, Send(e, c, msgs, ok, failed),
           NEW H, Heard(e, H),
           Outcome(e, ok, H, msgs), Outcome(e, failed, H, msgs), StartsNothing(failed)
    PROVE  Evolution(e)
<1> DEFINE o == Other(e)
<1>0. o \in Node /\ o # e /\ \A f \in Node : f = e \/ f = o
  BY Endpoints
<1>1. /\ xfer \in [Node -> Table] /\ ctl \in [Node -> {"ESTABLISHED", "CLOSED"}]
      /\ chan[o] \in Seq(Message)
  BY <1>0 DEF Inv, TypeOK, Table
<1>2. /\ xfer'[e] = ok \/ xfer'[e] = failed
      /\ ctl'[e] = "CLOSED" => xfer'[e] = failed
      /\ ctl'[o] = ctl[o]
  BY <1>0, <1>1 DEF Send
<1>3. chan'[e] = c[e] /\ Extends(chan'[o], chan[o], msgs)
  BY <1>0 DEF Send, Deliver, Extends
<1>4. \A i \in 1 .. Len(chan[o]), j \in 1 .. Len(msgs) : chan[o][i] # msgs[j]
  <2> SUFFICES ASSUME NEW j \in 1 .. Len(msgs) PROVE ~InFlight(msgs[j], o)
    BY DEF InFlight
  <2>1. msgs[j] \in Message
    BY ElementOfSeq
  <2> QED BY <2>1, NotSentTwice DEF Outcome
<1>5. NoRepeat(chan'[o]) /\ Among(chan'[o], chan[o], msgs)
  <2>1. NoRepeat(chan[o])
    BY <1>0 DEF Order, Distinct
  <2> HIDE DEF o
  <2> QED BY <1>1, <1>3, <1>4, <2>1, SendAdds
<1>6. Distinct'
  <2>1. NoRepeat(chan'[e])
    BY <1>3, ShorterDistinct
  <2> QED BY <2>1, <1>5, <1>0 DEF Distinct
<1>7. ASSUME NEW m \in Message, InFlight(m, o)'
      PROVE  InFlight(m, o) \/ Justified(m, xfer[e][Subject(m)], xfer'[e][Subject(m)])
  <2>1. InFlight(m, o) \/ \E j \in 1 .. Len(msgs) : m = msgs[j]
    BY <1>5, <1>7 DEF InFlight, Among
  <2> QED BY <2>1, <1>2 DEF Outcome
<1>8. \A k \in Key : Evolves(k, xfer[e][k], xfer'[e][k], H)
  BY <1>2 DEF Outcome
<1> QED BY <1>2, <1>6, <1>7, <1>8 DEF Evolution, StartsNothing

\* Preparing a transfer, even if a send fails and everything is aborted again.
LEMMA PrepareEvolution ==
    ASSUME Inv, Order, NEW e \in Node, Step(e), NEW k \in Key,
           NEW c \in [Node -> Seq(Message)], c[Other(e)] = chan[Other(e)],
           c[e] = chan[e] \/ (due[e] > 0 /\ c[e] = Rest(e)[e]),
           NEW msgs \in Seq(Message), NoRepeat(msgs),
           \A j \in 1 .. Len(msgs) :
               \/ msgs[j] = Prepared(k[1], k[2])
               \/ k[1] = "IN" /\ msgs[j] = Verdict(k[2], "ACCEPTED"),
           xfer[e][k].state \in {"SETUP_PENDING", "ACTIVE_RESOLVE_SRC_IP",
                                "PASSIVE_RESOLVE_ACCEPT_IP", "VERDICT_PENDING"},
           Ready(xfer[e][k]),
           NEW H, Heard(e, H),
           k[1] = "OUT" =>
               xfer[e][k].verdict = "ACCEPTED" \/ Verdict(k[2], "ACCEPTED") \in H,
           Prepare(e, c, k, xfer[e], msgs)
    PROVE  Evolution(e)
<1> DEFINE d == xfer[e][k]
           n == [d EXCEPT !.state = "PREPARATION_PENDING", !.verdict = "ACCEPTED"]
           P == [xfer[e] EXCEPT ![k] = n]
<1>1. /\ xfer[e] \in Table /\ d \in Copy /\ Sound(k[1], d) /\ Settled(k[1], d)
      /\ k[1] \in Dir
  BY OwnCopy, Stays, Mirrored
<1>2. /\ n \in Copy /\ n.state = "PREPARATION_PENDING" /\ n.verdict = "ACCEPTED"
      /\ n.prepared = d.prepared /\ n.meth = d.meth /\ n.local = d.local
      /\ n.accept = d.accept /\ n.dcon = d.dcon
  BY <1>1 DEF Copy, State
<1>3. Send(e, c, msgs, P, AbortUnest(P))
  <2>1. P = [xfer[e] EXCEPT ![k].state = "PREPARATION_PENDING", ![k].verdict = "ACCEPTED"]
    BY <1>1 DEF Table, Copy
  <2> QED BY <2>1 DEF Prepare
<1>4. P \in Table /\ P[k] = n /\ \A j \in Key : j # k => P[j] = xfer[e][j]
  BY <1>1, <1>2 DEF Table
<1> HIDE DEF n
<1>5. Evolves(k, d, n, H)
  <2>1. Sound(k[1], n) /\ Settled(k[1], n) /\ Ready(n)
    BY <1>1, <1>2 DEF Sound, Settled, Ready, Agreed
  <2>2. Leads(d.state, n.state)
    BY <1>2 DEF Leads
  <2>3. d.verdict \in {"PENDING", "ACCEPTED"} /\ d.state \notin Ended \cup {"NONE"}
    BY <1>1 DEF Sound, Copy, Ended
  <2> QED BY <2>1, <2>2, <2>3, <1>2 DEF Evolves
<1> HIDE DEF P
<1>6. \A j \in Key : /\ Evolves(j, xfer[e][j], P[j], H)
                     /\ xfer[e][j].state = "NONE" => P[j] = xfer[e][j]
  <2> SUFFICES ASSUME NEW j \in Key
               PROVE  /\ Evolves(j, xfer[e][j], P[j], H)
                      /\ xfer[e][j].state = "NONE" => P[j] = xfer[e][j]
    OBVIOUS
  <2>1. CASE j = k
    BY <2>1, <1>4, <1>5
  <2>2. CASE j # k
    BY <2>2, <1>4, Stays
  <2> QED BY <2>1, <2>2
<1>7. /\ AbortUnest(P) \in Table
      /\ \A j \in Key : Evolves(j, xfer[e][j], AbortUnest(P)[j], H)
      /\ StartsNothing(AbortUnest(P))
  BY <1>1, <1>4, <1>6, AbortEvolves, AbortUnestFacts
<1>8. ASSUME NEW x, x = P[k] \/ x = AbortUnest(P)[k]
      PROVE  Told(x)
  <2>1. x = n \/ x = Abort(n)
    BY <1>4, <1>8, AbortUnestFacts
  <2>2. /\ x.state \in {"PREPARATION_PENDING", "ABORTED"} /\ x.verdict = "ACCEPTED"
        /\ x.meth = d.meth /\ x.local = d.local /\ x.accept = d.accept
    BY <2>1, <1>2, AbortFacts DEF Copy
  <2> QED BY <2>2 DEF Told, Past, Agreed, Ready
<1>9. ASSUME NEW m \in Message, NEW j \in 1 .. Len(msgs), m = msgs[j],
             NEW x, x = P[k] \/ x = AbortUnest(P)[k]
      PROVE  Subject(m) = k /\ Justified(m, d, x)
  <2>1. k = <<k[1], k[2]>> /\ k[1] \in Dir
    BY Mirrored
  <2>2. Told(x)
    BY <1>8, <1>9
  <2>3. CASE m = Prepared(k[1], k[2])
    BY <2>1, <2>2, <2>3 DEF Justified, Subject, Prepared, Past, Agreed
  <2>4. CASE k[1] = "IN" /\ m = Verdict(k[2], "ACCEPTED")
    BY <2>1, <2>2, <2>4, <1>1 DEF Justified, Subject, Verdict, Told, Sound
  <2> QED BY <2>3, <2>4, <1>9
<1>10. Outcome(e, P, H, msgs) /\ Outcome(e, AbortUnest(P), H, msgs)
  BY <1>4, <1>6, <1>7, <1>9 DEF Outcome
<1> HIDE DEF d
<1> QED BY <1>3, <1>7, <1>10, SendEvolution

\* Suggesting a file: whatever becomes of the send, the copy waits for a verdict.
LEMMA SuggestEvolution ==
    ASSUME Inv, Order, NEW e \in Node, Step(e), NEW k \in Key, k[1] = "OUT",
           xfer[e][k].state \in {"NONE", "ACTIVE_RESOLVE_SRC_IP"},
           NEW n \in Copy, n.verdict = "PENDING", n.prepared = xfer[e][k].prepared,
           n.state \in {"SETUP_PENDING", "ACTIVE_RESOLVE_SRC_IP"},
           xfer[e][k].state # "NONE" => n.meth = xfer[e][k].meth,
           n.dcon \notin {"CONNECTING", "ESTABLISHED"},
           NEW T \in Table, T = [xfer[e] EXCEPT ![k] = n], SendSuggest(e, k, T)
    PROVE  Evolution(e)
<1> DEFINE Await(U) == [U EXCEPT ![k].state = "VERDICT_PENDING"]
           w == [n EXCEPT !.state = "VERDICT_PENDING"]
           m == Suggest(k[2], n.meth)
<1>1. xfer[e] \in Table /\ xfer[e][k] \in Copy /\ Sound(k[1], xfer[e][k])
  BY OwnCopy
<1>2. T[k] = n /\ \A j \in Key : j # k => T[j] = xfer[e][j]
  BY <1>1 DEF Table
<1>3. /\ w \in Copy /\ w.state = "VERDICT_PENDING" /\ w.verdict = "PENDING"
      /\ w.prepared = xfer[e][k].prepared /\ w.meth = n.meth /\ w.dcon = n.dcon
  BY DEF Copy, State
<1>4. Evolves(k, xfer[e][k], w, {})
  <2>1. xfer[e][k].verdict = "PENDING" /\ xfer[e][k].state \notin Past \cup Ended
    BY <1>1 DEF Sound, Past, Agreed, Ended
  <2>2. Sound(k[1], w) /\ Settled(k[1], w)
    BY <1>3 DEF Sound, Settled, Agreed
  <2>3. Leads(xfer[e][k].state, w.state)
    BY <1>3 DEF Leads
  <2> HIDE DEF w
  <2> QED BY <2>1, <2>2, <2>3, <1>3 DEF Evolves
<1>5. AbortUnest(T) \in Table
  BY AbortUnestFacts
<1>6. /\ Await(T) \in Table /\ Await(T)[k] = w
      /\ \A j \in Key : j # k => Await(T)[j] = xfer[e][j]
  BY <1>2, <1>3 DEF Table
<1>7. /\ Await(AbortUnest(T)) \in Table /\ Await(AbortUnest(T))[k] = w
      /\ \A j \in Key : j # k => Await(AbortUnest(T))[j] = AbortUnest(xfer[e])[j]
  <2>1. AbortUnest(T)[k] = n \/ AbortUnest(T)[k] = [n EXCEPT !.state = "ABORTED"]
    <3>1. AbortUnest(T)[k] = T[k] \/ AbortUnest(T)[k] = Abort(T[k])
      BY AbortUnestFacts
    <3>2. Abort(n) = n \/ Abort(n) = [n EXCEPT !.state = "ABORTED"]
      BY AbortFacts
    <3> QED BY <3>1, <3>2, <1>2
  <2>2. [AbortUnest(T)[k] EXCEPT !.state = "VERDICT_PENDING"] = w
    BY <2>1 DEF Copy
  <2>3. Await(AbortUnest(T)) = [AbortUnest(T) EXCEPT ![k] = w]
    BY <2>2, <1>5 DEF Table
  <2>4. \A j \in Key : j # k => AbortUnest(T)[j] = AbortUnest(xfer[e])[j]
    BY <1>2 DEF AbortUnest
  <2> HIDE DEF w
  <2> QED BY <2>3, <2>4, <1>3, <1>5 DEF Table
<1>8. /\ Send(e, chan, <<m>>, Await(T), Await(AbortUnest(T)))
      /\ m \in Message /\ <<m>> \in Seq(Message) /\ Len(<<m>>) = 1
      /\ \A j \in 1 .. Len(<<m>>) : <<m>>[j] = m
  BY <1>2, Mirrored, Messages DEF SendSuggest, Copy, Dir
<1>9. Subject(m) = k /\ Justified(m, xfer[e][k], w)
  BY <1>3, Mirrored DEF Subject, Justified, Suggest
<1> DEFINE ok == Await(T)
           failed == Await(AbortUnest(T))
<1>10. /\ \A j \in Key : Evolves(j, xfer[e][j], AbortUnest(xfer[e])[j], {})
       /\ StartsNothing(AbortUnest(xfer[e]))
  <2>1. \A j \in Key : Evolves(j, xfer[e][j], xfer[e][j], {})
    BY Stays
  <2> QED BY <1>1, <2>1, AbortEvolves
<1> HIDE DEF w
<1>11. ASSUME NEW j \in Key
       PROVE  Evolves(j, xfer[e][j], ok[j], {}) /\ Evolves(j, xfer[e][j], failed[j], {})
  <2> HIDE DEF ok, failed
  <2>1. CASE j = k
    BY <2>1, <1>4, <1>6, <1>7 DEF ok, failed
  <2>2. CASE j # k
    BY <2>2, <1>6, <1>7, <1>10, Stays DEF ok, failed
  <2> QED BY <2>1, <2>2
<1>12. StartsNothing(failed)
  BY <1>3, <1>7, <1>10 DEF StartsNothing
<1>13. Outcome(e, ok, {}, <<m>>) /\ Outcome(e, failed, {}, <<m>>)
  BY <1>6, <1>7, <1>8, <1>9, <1>11 DEF Outcome
<1>14. NoRepeat(<<m>>) /\ chan \in [Node -> Seq(Message)] /\ Heard(e, {})
  BY <1>8, Channels DEF NoRepeat, Heard
<1> HIDE DEF ok, failed, m
<1>15. Send(e, chan, <<m>>, ok, failed)
  BY <1>8 DEF ok, failed
<1> QED BY <1>8, <1>12, <1>13, <1>14, <1>15, SendEvolution

-----------------------------------------------------------------------------
(* The actions, again.                                                     *)

\* Preparing a transfer between two callbacks, at either end.
LEMMA IdlePrepareEvolution ==
    ASSUME Inv, Order, NEW e \in Node, Step(e), NEW k \in Key,
           xfer[e][k].state \in {"SETUP_PENDING", "ACTIVE_RESOLVE_SRC_IP",
                                "PASSIVE_RESOLVE_ACCEPT_IP"},
           Ready(xfer[e][k]),
           NEW msgs,
           \/ /\ k[1] = "IN"
              /\ \/ msgs = <<Verdict(k[2], "ACCEPTED"), Prepared("IN", k[2])>>
                 \/ msgs = <<Prepared("IN", k[2]), Verdict(k[2], "ACCEPTED")>>
           \/ /\ k[1] = "OUT"
              /\ xfer[e][k].state = "PASSIVE_RESOLVE_ACCEPT_IP"
              /\ msgs = <<Prepared("OUT", k[2])>>,
           Prepare(e, chan, k, xfer[e], msgs)
    PROVE  Evolution(e)
<1>1. /\ Verdict(k[2], "ACCEPTED") \in Message
      /\ Prepared("IN", k[2]) \in Message /\ Prepared("OUT", k[2]) \in Message
      /\ \A d \in Dir : Verdict(k[2], "ACCEPTED") # Prepared(d, k[2])
  BY Mirrored, Messages DEF Dir, Method, Verdict, Prepared
<1>2. /\ msgs \in Seq(Message) /\ NoRepeat(msgs)
      /\ \A j \in 1 .. Len(msgs) :
            \/ msgs[j] = Prepared(k[1], k[2])
            \/ k[1] = "IN" /\ msgs[j] = Verdict(k[2], "ACCEPTED")
  <2>1. CASE k[1] = "IN" /\ msgs = <<Verdict(k[2], "ACCEPTED"), Prepared("IN", k[2])>>
    BY <1>1, <2>1 DEF NoRepeat, Dir
  <2>2. CASE k[1] = "IN" /\ msgs = <<Prepared("IN", k[2]), Verdict(k[2], "ACCEPTED")>>
    BY <1>1, <2>2 DEF NoRepeat, Dir
  <2>3. CASE k[1] = "OUT" /\ msgs = <<Prepared("OUT", k[2])>>
    BY <1>1, <2>3 DEF NoRepeat
  <2> QED BY <2>1, <2>2, <2>3
<1>3. k[1] = "OUT" => xfer[e][k].verdict = "ACCEPTED"
  BY OwnCopy DEF Sound
<1>4. chan \in [Node -> Seq(Message)] /\ Heard(e, {})
  BY Channels DEF Heard
<1> QED BY <1>2, <1>3, <1>4, PrepareEvolution

\* A step that changes one copy between two callbacks.
LEMMA IdleCopyEvolution ==
    ASSUME Inv, Order, NEW e \in Node, Step(e), NEW k \in Key, NEW n \in Copy,
           Evolves(k, xfer[e][k], n, {}),
           \/ xfer' = xfer
           \/ xfer' = [xfer EXCEPT ![e] = [xfer[e] EXCEPT ![k] = n]],
           UNCHANGED <<chan, ctl>>,
           ctl[e] = "CLOSED" /\ n.state \in {"PREPARATION_PENDING", "TRANSFERING"} =>
               n.dcon = "ESTABLISHED"
    PROVE  Evolution(e)
BY CopyEvolution DEF Heard

\* Every user callback is an evolution.
LEMMA UserEvolutions ==
    ASSUME Inv, Order, NEW e \in Node, User(e)
    PROVE  Evolution(e)
<1>0. Step(e)
  BY UserSteps
<1>1. ASSUME NEW n \in 1 .. MaxBatch, NEW m \in Method, NEW l \in BOOLEAN,
             UISuggest(e, n, m, l)
      PROVE  Evolution(e)
  <2>1. PICK i \in Id : TRUE
    BY <1>1 DEF UISuggest
  <2> DEFINE k == <<"OUT", i>>
  <2>2. k \in Key
    BY DEF Key, Dir
  <2> HIDE DEF k
  <2>3. xfer[e][k] \in Copy /\ Evolves(k, xfer[e][k], xfer[e][k], {})
    BY <2>2, OwnCopy, Stays
  <2>4. UNCHANGED <<xfer, chan, ctl>>
    BY <1>1 DEF UISuggest
  <2>5. ctl[e] = "CLOSED" /\ xfer[e][k].state \in {"PREPARATION_PENDING", "TRANSFERING"} =>
           xfer[e][k].dcon = "ESTABLISHED"
    BY <2>2 DEF Order, ClosedPeerStartsNothing
  <2> QED BY <1>0, <2>2, <2>3, <2>4, <2>5, IdleCopyEvolution
<1>2. ASSUME NEW i \in Id, NEW l \in BOOLEAN, UIAccept(e, i, l)
      PROVE  Evolution(e)
  <2> DEFINE k == <<"IN", i>>
             c == xfer[e][k]
  <2>1. /\ k \in Key /\ k[1] = "IN" /\ k[2] = i /\ c \in Copy /\ xfer[e] \in Table
        /\ xfer \in [Node -> Table] /\ c.state = "SETUP_PENDING" /\ Sound("IN", c)
    BY <1>2, OwnCopy DEF UIAccept, Key, Dir, Inv, TypeOK, Table
  <2>2. c.verdict = "PENDING" /\ Settled("IN", c) /\ ~c.local
    BY <2>1, Stays DEF Sound, Settled
  <2> HIDE DEF k
  <2>3. ASSUME NEW n \in Copy, n.verdict = "PENDING", n.prepared = c.prepared,
               n.meth = c.meth, n.dcon \in {c.dcon, "RESOLVE_SRC_IP"},
               \/ n.state = "ACTIVE_RESOLVE_SRC_IP" /\ n.meth = "ACTIVE"
               \/ n.state = "PASSIVE_RESOLVE_ACCEPT_IP",
               xfer' = [xfer EXCEPT ![e] = [xfer[e] EXCEPT ![k] = n]],
               UNCHANGED <<ctl, chan, faults>>
        PROVE  Evolution(e)
    <3>1. Sound("IN", n) /\ Settled("IN", n)
      BY <2>1, <2>2, <2>3 DEF Sound, Settled, Agreed
    <3>2. Evolves(k, c, n, {})
      BY <2>1, <2>2, <2>3, <3>1 DEF Evolves, Leads, Ended, Past, Agreed
    <3> QED BY <1>0, <2>1, <2>3, <3>2, IdleCopyEvolution
  <2>4. CASE /\ c.meth = "ACTIVE"
             /\ xfer' = [xfer EXCEPT ![e][k].state = "ACTIVE_RESOLVE_SRC_IP",
                                     ![e][k].dcon = "RESOLVE_SRC_IP"]
             /\ UNCHANGED <<ctl, chan, faults>>
    <3> DEFINE n == [c EXCEPT !.state = "ACTIVE_RESOLVE_SRC_IP", !.dcon = "RESOLVE_SRC_IP"]
    <3>1. xfer' = [xfer EXCEPT ![e] = [xfer[e] EXCEPT ![k] = n]]
      BY <2>1, <2>4 DEF Table, Copy
    <3>2. /\ n \in Copy /\ n.verdict = "PENDING" /\ n.prepared = c.prepared
          /\ n.state = "ACTIVE_RESOLVE_SRC_IP" /\ n.meth = c.meth /\ n.meth = "ACTIVE"
          /\ n.dcon = "RESOLVE_SRC_IP"
      BY <2>1, <2>2, <2>4 DEF Copy, State
    <3> QED BY <2>3, <2>4, <3>1, <3>2
  <2>5. CASE /\ xfer' = [xfer EXCEPT ![e][k].state = "PASSIVE_RESOLVE_ACCEPT_IP",
                                     ![e][k].local = TRUE,
                                     ![e][k].accept = "RESOLVE_IP"]
             /\ UNCHANGED <<ctl, chan, faults>>
    <3> DEFINE n == [c EXCEPT !.state = "PASSIVE_RESOLVE_ACCEPT_IP", !.local = TRUE,
                              !.accept = "RESOLVE_IP"]
    <3>1. xfer' = [xfer EXCEPT ![e] = [xfer[e] EXCEPT ![k] = n]]
      BY <2>1, <2>5 DEF Table, Copy
    <3>2. /\ n \in Copy /\ n.verdict = "PENDING" /\ n.prepared = c.prepared
          /\ n.state = "PASSIVE_RESOLVE_ACCEPT_IP" /\ n.meth = c.meth /\ n.dcon = c.dcon
      BY <2>1, <2>2 DEF Copy, State
    <3> QED BY <2>3, <2>5, <3>1, <3>2
  <2>6. CASE Prepare(e, chan, k, xfer[e], <<Prepared("IN", i), Verdict(i, "ACCEPTED")>>)
    <3>1. Ready(c)
      BY <2>2 DEF Ready
    <3> QED BY <1>0, <2>1, <2>6, <3>1, IdlePrepareEvolution
  <2> QED BY <1>2, <2>4, <2>5, <2>6 DEF UIAccept, k
<1>3. ASSUME NEW i \in Id, UIDecline(e, i)
      PROVE  Evolution(e)
  <2> DEFINE k == <<"IN", i>>
             c == xfer[e][k]
             n == [c EXCEPT !.state = "ABORTED", !.verdict = "DECLINED"]
             D == [xfer[e] EXCEPT ![k] = n]
             m == Verdict(i, "DECLINED")
  <2>1. /\ k \in Key /\ k[1] = "IN" /\ k[2] = i /\ c \in Copy /\ xfer[e] \in Table
        /\ c.state = "SETUP_PENDING" /\ Sound("IN", c)
    BY <1>3, OwnCopy DEF UIDecline, Key, Dir
  <2>2. c.verdict = "PENDING" /\ Settled("IN", c)
    BY <2>1, Stays DEF Sound
  <2>3. Send(e, chan, <<m>>, D, AbortUnest(D))
    <3>1. D = [xfer[e] EXCEPT ![k].state = "ABORTED", ![k].verdict = "DECLINED"]
      BY <2>1 DEF Table, Copy
    <3> QED BY <1>3, <3>1 DEF UIDecline
  <2>4. /\ n \in Copy /\ n.state = "ABORTED" /\ n.verdict = "DECLINED"
        /\ n.prepared = c.prepared /\ n.meth = c.meth /\ n.dcon = c.dcon
    BY <2>1 DEF Copy, State
  <2>5. m \in Message /\ m.cmd = "VERDICT" /\ m.ver = "DECLINED" /\ Subject(m) = k
    BY <2>1, Messages DEF Verdict, Subject, Dir, Method
  <2>6. <<m>> \in Seq(Message) /\ \A j \in 1 .. Len(<<m>>) : <<m>>[j] = m /\ j = 1
    BY <2>5
  <2> HIDE DEF k, n, m
  <2>7. Evolves(k, c, n, {})
    <3>1. Sound("IN", n) /\ Settled("IN", n)
      BY <2>2, <2>4 DEF Sound, Settled, Agreed
    <3> QED BY <2>1, <2>2, <2>4, <3>1 DEF Evolves, Leads, Ended, Past, Agreed
  <2>8. D \in Table /\ D[k] = n /\ \A j \in Key : j # k => D[j] = xfer[e][j]
    BY <2>1, <2>4 DEF Table
  <2> HIDE DEF D
  <2>9. \A j \in Key : /\ Evolves(j, xfer[e][j], D[j], {})
                       /\ xfer[e][j].state = "NONE" => D[j] = xfer[e][j]
    BY <2>1, <2>7, <2>8, Stays
  <2>10. /\ AbortUnest(D) \in Table
         /\ \A j \in Key : Evolves(j, xfer[e][j], AbortUnest(D)[j], {})
         /\ StartsNothing(AbortUnest(D))
    BY <2>1, <2>8, <2>9, AbortEvolves, AbortUnestFacts
  <2>11. AbortUnest(D)[k] = n
    BY <2>1, <2>4, <2>8, AbortUnestFacts, AbortFacts DEF Ended
  <2>12. Justified(m, c, n)
    BY <2>1, <2>2, <2>4, <2>5 DEF Justified
  <2>13. Outcome(e, D, {}, <<m>>) /\ Outcome(e, AbortUnest(D), {}, <<m>>)
    BY <2>5, <2>6, <2>8, <2>9, <2>10, <2>11, <2>12 DEF Outcome
  <2>14. chan \in [Node -> Seq(Message)] /\ NoRepeat(<<m>>) /\ Heard(e, {})
    BY <2>6, Channels DEF NoRepeat, Heard
  <2> QED BY <1>0, <2>3, <2>6, <2>10, <2>13, <2>14, SendEvolution
<1>4. ASSUME NEW k \in Key, UIAbort(e, k)
      PROVE  Evolution(e)
  <2> DEFINE n == Abort(xfer[e][k])
  <2>1. /\ xfer' = [xfer EXCEPT ![e] = [xfer[e] EXCEPT ![k] = n]]
        /\ xfer[e][k].state \notin Ended \cup {"NONE"} /\ UNCHANGED <<chan, ctl>>
    BY <1>4 DEF UIAbort
  <2>2. n \in Copy /\ n.state = "ABORTED" /\ Evolves(k, xfer[e][k], n, {})
    BY <2>1, OwnCopy, AbortFacts, Stays
  <2> HIDE DEF n
  <2> QED BY <1>0, <2>1, <2>2, IdleCopyEvolution
<1>5. CASE UIDisconnect(e)
  BY <1>0, <1>5, CloseEvolution DEF UIDisconnect
<1> QED BY <1>1, <1>2, <1>3, <1>4, <1>5 DEF User

\* Every pass of the suggest loop is an evolution.
LEMMA SuggestFileEvolutions ==
    ASSUME Inv, Order, NEW e \in Node, SuggestFile(e)
    PROVE  Evolution(e)
<1> DEFINE New == [NoCopy EXCEPT !.state = "SETUP_PENDING", !.meth = todo[e].meth,
                                 !.local = todo[e].local]
<1>0. Step(e)
  BY SuggestFileSteps
<1>1. PICK i \in Id :
        LET k == <<"OUT", i>>
        IN  /\ IsNextId(xfer[e], i)
            /\ \/ /\ todo[e].meth = "PASSIVE"
                  /\ SendSuggest(e, k, [xfer[e] EXCEPT ![k] = New])
               \/ /\ todo[e].meth = "ACTIVE"
                  /\ xfer' = [xfer EXCEPT ![e][k] =
                                [New EXCEPT !.state = "ACTIVE_RESOLVE_SRC_IP",
                                            !.dcon = "RESOLVE_SRC_IP"]]
                  /\ UNCHANGED <<ctl, chan, faults>>
  BY DEF SuggestFile
<1> DEFINE k == <<"OUT", i>>
           n == [New EXCEPT !.state = "ACTIVE_RESOLVE_SRC_IP", !.dcon = "RESOLVE_SRC_IP"]
<1>2. todo[e] \in [n : Nat, meth : Method, local : BOOLEAN]
  BY DEF Inv, TypeOK
<1>3. /\ k \in Key /\ k[1] = "OUT" /\ xfer[e] \in Table /\ xfer[e][k].state = "NONE"
      /\ Settled("OUT", xfer[e][k])
  <2>1. k \in Key /\ k[1] = "OUT"
    BY DEF Key, Dir
  <2>2. xfer[e] \in Table /\ Settled(k[1], xfer[e][k])
    BY <2>1, OwnCopy, Stays
  <2>3. xfer[e][k].state = "NONE"
    <3>1. i \in Nat
      BY BoundsAssumption DEF Id
    <3> QED BY <1>1, <3>1 DEF IsNextId
  <2> QED BY <2>1, <2>2, <2>3
<1>4. xfer[e][k] = NoCopy /\ xfer[e][k].verdict = "PENDING" /\ xfer[e][k].prepared = FALSE
  BY <1>3 DEF Settled, NoCopy
<1>5. /\ New \in Copy /\ New.verdict = "PENDING" /\ New.prepared = FALSE
      /\ New.state = "SETUP_PENDING" /\ New.dcon = "CLOSED" /\ New.meth = todo[e].meth
  BY <1>2 DEF NoCopy, Copy, State
<1>6. /\ n \in Copy /\ n.verdict = "PENDING" /\ n.prepared = FALSE
      /\ n.state = "ACTIVE_RESOLVE_SRC_IP" /\ n.dcon = "RESOLVE_SRC_IP" /\ n.meth = todo[e].meth
  BY <1>5 DEF Copy, State
<1>7. CASE SendSuggest(e, k, [xfer[e] EXCEPT ![k] = New])
  <2> DEFINE T == [xfer[e] EXCEPT ![k] = New]
  <2>1. T \in Table
    BY <1>3, <1>5 DEF Table
  <2> HIDE DEF k, New
  <2>2. New.prepared = xfer[e][k].prepared
    BY <1>4, <1>5 DEF NoCopy
  <2> QED BY <1>0, <1>3, <1>4, <1>5, <1>7, <2>1, <2>2, SuggestEvolution
<1>8. CASE /\ todo[e].meth = "ACTIVE"
           /\ xfer' = [xfer EXCEPT ![e][k] = n] /\ UNCHANGED <<ctl, chan, faults>>
  <2>1. xfer' = [xfer EXCEPT ![e] = [xfer[e] EXCEPT ![k] = n]]
    BY <1>8
  <2> HIDE DEF k, n
  <2>2. Sound("OUT", n) /\ Settled("OUT", n)
    BY <1>6, <1>8 DEF Sound, Settled, Agreed
  <2>3. Evolves(k, xfer[e][k], n, {})
    BY <1>3, <1>4, <1>6, <2>2 DEF Evolves, Leads, Ended, Past, Agreed
  <2> QED BY <1>0, <1>3, <1>6, <1>8, <2>1, <2>3, IdleCopyEvolution
<1> QED BY <1>1, <1>7, <1>8

\* Every case of handle_data_transfer_state is an evolution.
LEMMA TransferEvolutions ==
    ASSUME Inv, Order, NEW e \in Node, NEW k \in Key, Transfer(e, k)
    PROVE  Evolution(e)
<1> DEFINE c == xfer[e][k]
<1>0. Step(e)
  BY TransferSteps
<1>1. /\ c \in Copy /\ Sound(k[1], c) /\ Settled(k[1], c)
      /\ xfer[e] \in Table /\ xfer \in [Node -> Table] /\ k[1] \in Dir
  BY OwnCopy, Stays, Mirrored DEF Inv, TypeOK, Table
<1>2. CASE SourceResolved(e, k)
  <2>1. c.state = "ACTIVE_RESOLVE_SRC_IP" /\ c.dcon = "RESOLVED_SRC_IP" /\ Ready(c)
    BY <1>1, <1>2 DEF SourceResolved, Settled, Ready
  <2>2. CASE /\ k[1] = "IN"
             /\ Prepare(e, chan, k, xfer[e],
                        <<Verdict(k[2], "ACCEPTED"), Prepared("IN", k[2])>>)
    BY <1>0, <2>1, <2>2, IdlePrepareEvolution
  <2>3. CASE k[1] = "OUT" /\ SendSuggest(e, k, xfer[e])
    <3>1. xfer[e] = [xfer[e] EXCEPT ![k] = c] /\ c.verdict = "PENDING"
      BY <1>1, <2>1 DEF Table, Sound
    <3> QED BY <1>0, <1>1, <2>1, <2>3, <3>1, SuggestEvolution
  <2> QED BY <1>2, <2>2, <2>3 DEF SourceResolved
<1>3. CASE SourceFailed(e, k)
  <2> DEFINE n == Abort(c)
  <2>1. /\ xfer' = [xfer EXCEPT ![e] = [xfer[e] EXCEPT ![k] = n]]
        /\ c.state = "ACTIVE_RESOLVE_SRC_IP" /\ UNCHANGED <<chan, ctl>>
    BY <1>3 DEF SourceFailed
  <2>2. n \in Copy /\ n.state = "ABORTED" /\ Evolves(k, c, n, {})
    BY <2>1, OwnCopy, AbortFacts, Stays DEF Ended
  <2> HIDE DEF n
  <2> QED BY <1>0, <2>1, <2>2, IdleCopyEvolution
<1>4. CASE AcceptResolved(e, k)
  <2>1. c.state = "PASSIVE_RESOLVE_ACCEPT_IP" /\ Ready(c)
    BY <1>4 DEF AcceptResolved, Ready
  <2> QED BY <1>0, <1>4, <2>1, IdlePrepareEvolution DEF AcceptResolved
<1>5. CASE AcceptFailed(e, k)
  <2> DEFINE n == [Abort(c) EXCEPT !.accept = "DELETE"]
  <2>1. /\ xfer' = [xfer EXCEPT ![e] = [xfer[e] EXCEPT ![k] = n]]
        /\ c.state = "PASSIVE_RESOLVE_ACCEPT_IP" /\ UNCHANGED <<chan, ctl>>
    BY <1>5 DEF AcceptFailed
  <2>2. Abort(c) = [c EXCEPT !.state = "ABORTED"]
    BY <2>1 DEF Abort, Ended
  <2>3. /\ n \in Copy /\ n.state = "ABORTED" /\ n.verdict = c.verdict
        /\ n.prepared = c.prepared /\ n.meth = c.meth /\ n.dcon = c.dcon
    BY <1>1, <2>2 DEF Copy, State
  <2> HIDE DEF n
  <2>4. Sound(k[1], n) /\ Settled(k[1], n)
    BY <1>1, <2>1, <2>3 DEF Sound, Settled, Agreed
  <2>5. Evolves(k, c, n, {})
    BY <2>1, <2>3, <2>4 DEF Evolves, Leads, Ended, Past, Agreed
  <2> QED BY <1>0, <2>1, <2>3, <2>5, IdleCopyEvolution
<1>6. CASE StartTransfer(e, k)
  <2> DEFINE n == [c EXCEPT !.state = "TRANSFERING",
                            !.dcon = IF c.meth = "ACTIVE" THEN "CONNECTING" ELSE @]
  <2>1. xfer' = [xfer EXCEPT ![e] = [xfer[e] EXCEPT ![k] = n]]
    BY <1>1, <1>6 DEF StartTransfer, Table, Copy
  <2>2. c.prepared /\ c.state = "PREPARATION_PENDING" /\ UNCHANGED <<chan, ctl>>
    BY <1>6 DEF StartTransfer
  <2>3. /\ n \in Copy /\ n.state = "TRANSFERING" /\ n.verdict = c.verdict
        /\ n.prepared = c.prepared /\ n.meth = c.meth /\ n.local = c.local
        /\ n.accept = c.accept /\ n.dcon = IF c.meth = "ACTIVE" THEN "CONNECTING" ELSE c.dcon
    BY <1>1 DEF Copy, State
  <2> HIDE DEF n
  <2>4. Sound(k[1], n) /\ Settled(k[1], n) /\ Ready(n)
    BY <1>1, <2>2, <2>3 DEF Sound, Settled, Agreed, Ready
  <2>5. Evolves(k, c, n, {})
    BY <2>2, <2>3, <2>4 DEF Evolves, Leads, Ended
  <2>6. ctl[e] = "CLOSED" => n.dcon = "ESTABLISHED"
    <3>1. ctl[e] = "CLOSED" => c.dcon = "ESTABLISHED"
      BY <2>2 DEF Order, ClosedPeerStartsNothing
    <3> QED BY <3>1, <1>1, <2>2, <2>3 DEF Settled
  <2> QED BY <1>0, <2>1, <2>2, <2>3, <2>5, <2>6, IdleCopyEvolution
<1>7. CASE EndTransfer(e, k)
  <2>1. PICK s \in Ended, d \in {"CLOSED", "ESTABLISHED"} :
          xfer' = [xfer EXCEPT ![e][k].state = s, ![e][k].dcon = d]
    BY <1>7 DEF EndTransfer
  <2> DEFINE n == [c EXCEPT !.state = s, !.dcon = d]
  <2>2. xfer' = [xfer EXCEPT ![e] = [xfer[e] EXCEPT ![k] = n]]
    BY <1>1, <2>1 DEF Table, Copy
  <2>3. c.state = "TRANSFERING" /\ c.prepared /\ c.verdict = "ACCEPTED" /\ UNCHANGED <<chan, ctl>>
    BY <1>1, <1>7 DEF EndTransfer, Sound, Agreed
  <2>4. /\ n \in Copy /\ n.state = s /\ n.state \in {"COMPLETED", "ABORTED"}
        /\ n.verdict = c.verdict /\ n.prepared = c.prepared /\ n.meth = c.meth
        /\ n.local = c.local /\ n.accept = c.accept
    BY <1>1 DEF Copy, State, Ended
  <2> HIDE DEF n
  <2>5. Sound(k[1], n) /\ Settled(k[1], n) /\ Ready(n)
    BY <1>1, <2>3, <2>4 DEF Sound, Settled, Agreed, Ready
  <2>6. Evolves(k, c, n, {})
    BY <2>3, <2>4, <2>5 DEF Evolves, Leads, Ended
  <2> QED BY <1>0, <2>2, <2>3, <2>4, <2>6, IdleCopyEvolution
<1> QED BY <1>2, <1>3, <1>4, <1>5, <1>6, <1>7 DEF Transfer

\* Every change of a connection or an accept entry is an evolution.
LEMMA ConnectionEvolutions ==
    ASSUME Inv, Order, NEW e \in Node, NEW k \in Key, Connection(e, k)
    PROVE  Evolution(e)
<1> DEFINE c == xfer[e][k]
<1>0. Step(e)
  BY ConnectionSteps
<1>1. /\ c \in Copy /\ Sound(k[1], c) /\ Settled(k[1], c)
      /\ xfer[e] \in Table /\ xfer \in [Node -> Table]
      /\ UNCHANGED <<chan, ctl>>
      /\ ctl[e] = "CLOSED" /\ c.state \in {"PREPARATION_PENDING", "TRANSFERING"} =>
            c.dcon = "ESTABLISHED"
  BY OwnCopy, Stays DEF Inv, TypeOK, Table, Order, ClosedPeerStartsNothing, Connection,
     ConResolveSource, ConConnect, AcceptResolve, ServerHandleCon
<1>2. ASSUME NEW n \in Copy, n.state = c.state, n.verdict = c.verdict,
             n.prepared = c.prepared, n.meth = c.meth, n.local = c.local,
             c.state # "NONE", Ready(c) => Ready(n),
             n.dcon \in {"CONNECTING", "ESTABLISHED"} => 
                 \/ c.dcon \in {"CONNECTING", "ESTABLISHED"} \/ c.meth = "PASSIVE",
             c.dcon = "ESTABLISHED" => n.dcon = "ESTABLISHED",
             xfer' = [xfer EXCEPT ![e] = [xfer[e] EXCEPT ![k] = n]]
      PROVE  Evolution(e)
  <2>1. Sound(k[1], n) /\ Settled(k[1], n)
    BY <1>1, <1>2 DEF Sound, Settled
  <2>2. Evolves(k, c, n, {})
    BY <1>2, <2>1 DEF Evolves, Leads
  <2> QED BY <1>0, <1>1, <1>2, <2>2, IdleCopyEvolution
<1>3. c.state = "NONE" => c.dcon = "CLOSED" /\ c.accept = "NONE"
  BY <1>1 DEF Settled, NoCopy
<1>4. ASSUME NEW d \in {"CLOSED", "RESOLVED_SRC_IP", "ESTABLISHED"},
             c.dcon # "CLOSED", c.dcon # "ESTABLISHED",
             d = "ESTABLISHED" => c.dcon = "CONNECTING",
             xfer' = [xfer EXCEPT ![e][k].dcon = d]
      PROVE  Evolution(e)
  <2> DEFINE n == [c EXCEPT !.dcon = d]
  <2>1. /\ n \in Copy /\ n.state = c.state /\ n.verdict = c.verdict
        /\ n.prepared = c.prepared /\ n.meth = c.meth /\ n.local = c.local
        /\ n.accept = c.accept /\ n.dcon = d
    BY <1>1 DEF Copy
  <2>2. xfer' = [xfer EXCEPT ![e] = [xfer[e] EXCEPT ![k] = n]]
    BY <1>4
  <2> HIDE DEF n
  <2>3. Ready(c) => Ready(n)
    BY <2>1 DEF Ready
  <2> QED BY <1>2, <1>3, <1>4, <2>1, <2>2, <2>3
<1>5. ASSUME NEW a \in {"RESOLVED", "ERROR"}, c.accept = "RESOLVE_IP",
             xfer' = [xfer EXCEPT ![e][k].accept = a]
      PROVE  Evolution(e)
  <2> DEFINE n == [c EXCEPT !.accept = a]
  <2>1. /\ n \in Copy /\ n.state = c.state /\ n.verdict = c.verdict
        /\ n.prepared = c.prepared /\ n.meth = c.meth /\ n.local = c.local
        /\ n.dcon = c.dcon
    BY <1>1 DEF Copy
  <2>2. xfer' = [xfer EXCEPT ![e] = [xfer[e] EXCEPT ![k] = n]]
    BY <1>5
  <2> HIDE DEF n
  <2>3. Ready(c) => Ready(n)
    BY <1>5, <2>1 DEF Ready
  <2> QED BY <1>2, <1>3, <1>5, <2>1, <2>2, <2>3
<1>6. CASE ConResolveSource(e, k)
  BY <1>4, <1>6 DEF ConResolveSource
<1>7. CASE ConConnect(e, k)
  BY <1>4, <1>7 DEF ConConnect
<1>8. CASE AcceptResolve(e, k)
  BY <1>5, <1>8 DEF AcceptResolve
<1>9. CASE ServerHandleCon(e, k)
  <2>1. CASE c.accept = "RESOLVED"
    <3> DEFINE n == [c EXCEPT !.accept = "DELETE", !.dcon = "ESTABLISHED"]
    <3>1. /\ n \in Copy /\ n.state = c.state /\ n.verdict = c.verdict
          /\ n.prepared = c.prepared /\ n.meth = c.meth /\ n.local = c.local
          /\ n.dcon = "ESTABLISHED" /\ n.accept = "DELETE"
      BY <1>1 DEF Copy
    <3>2. xfer' = [xfer EXCEPT ![e] = [xfer[e] EXCEPT ![k] = n]]
      BY <1>1, <1>9, <2>1 DEF ServerHandleCon, Table, Copy
    <3>3. c.meth = "PASSIVE"
      BY <1>9 DEF ServerHandleCon
    <3> HIDE DEF n
    <3>4. Ready(n)
      BY <3>1 DEF Ready
    <3> QED BY <1>2, <1>3, <2>1, <3>1, <3>2, <3>3, <3>4
  <2>2. CASE c.accept # "RESOLVED"
    <3>1. xfer' = xfer
      BY <1>9, <2>2 DEF ServerHandleCon
    <3> QED BY <1>0, <1>1, <3>1, Stays, IdleCopyEvolution
  <2> QED BY <2>1, <2>2
<1> QED BY <1>6, <1>7, <1>8, <1>9 DEF Connection

\* Reading or closing the control connection is an evolution.
LEMMA CtlEvolutions ==
    ASSUME Inv, Order, NEW e \in Node, CtlRecv(e) \/ CtlRecvClosed(e)
    PROVE  Evolution(e)
<1>0. Step(e)
  BY CtlSteps
<1>1. CASE CtlRecv(e)
  <2>1. PICK n \in 1 .. Len(chan[e]) : TRUE
    BY <1>1 DEF CtlRecv
  <2>2. chan[e][n] \in Message
    BY <2>1, ElementOfSeq DEF Inv, TypeOK
  <2> DEFINE k == Subject(chan[e][n])
  <2>3. k \in Key
    BY <2>2, Subjects
  <2> HIDE DEF k
  <2>4. xfer[e][k] \in Copy /\ Evolves(k, xfer[e][k], xfer[e][k], {})
    BY <2>3, OwnCopy, Stays
  <2>5. UNCHANGED <<xfer, chan, ctl>>
    BY <1>1 DEF CtlRecv
  <2>6. ctl[e] = "CLOSED" /\ xfer[e][k].state \in {"PREPARATION_PENDING", "TRANSFERING"} =>
           xfer[e][k].dcon = "ESTABLISHED"
    BY <2>3 DEF Order, ClosedPeerStartsNothing
  <2> QED BY <1>0, <2>3, <2>4, <2>5, <2>6, IdleCopyEvolution
<1>2. CASE CtlRecvClosed(e)
  BY <1>0, <1>2, CloseEvolution DEF CtlRecvClosed
<1> QED BY <1>1, <1>2

\* Processing a command is an evolution that has heard it.
LEMMA CommandEvolutions ==
    ASSUME Inv, Order, NEW e \in Node, Command(e)
    PROVE  Evolution(e)
<1> DEFINE m == Head(chan[e])
<1>0. Step(e)
  BY CommandSteps
<1>1. due[e] > 0
  BY DEF Command, ProcessSuggest, ProcessVerdict, ProcessPrepared, Take
<1>2. /\ m \in Message /\ InFlight(m, e)
      /\ Rest(e) \in [Node -> Seq(Message)] /\ Rest(e)[Other(e)] = chan[Other(e)]
      /\ xfer \in [Node -> Table] /\ xfer[e] \in Table
  BY <1>1, Channels DEF Inv, TypeOK, Table
<1>3. chan'[e] = Rest(e)[e] => Heard(e, {m})
  BY <1>1, HeadHeard
<1>4. Expected(m, xfer[e][Mirror(Subject(m))], xfer[Other(e)][Subject(m)])
  BY <1>2 DEF Order, AllExpected
<1>5. ASSUME NEW k \in Key, NEW n \in Copy, Evolves(k, xfer[e][k], n, {m}),
             xfer' = xfer \/ xfer' = [xfer EXCEPT ![e] = [xfer[e] EXCEPT ![k] = n]],
             chan' = Rest(e), UNCHANGED <<ctl, faults>>,
             ctl[e] = "CLOSED" /\ n.state \in {"PREPARATION_PENDING", "TRANSFERING"} =>
                 n.dcon = "ESTABLISHED"
      PROVE  Evolution(e)
  BY <1>0, <1>1, <1>3, <1>5, CopyEvolution
<1>6. ASSUME NEW k \in Key, xfer' = xfer, chan' = Rest(e), UNCHANGED <<ctl, faults>>
      PROVE  Evolution(e)
  <2>1. /\ xfer[e][k] \in Copy /\ Evolves(k, xfer[e][k], xfer[e][k], {m})
        /\ ctl[e] = "CLOSED" /\ xfer[e][k].state \in {"PREPARATION_PENDING", "TRANSFERING"}
              => xfer[e][k].dcon = "ESTABLISHED"
    BY <1>6, OwnCopy, Stays DEF Order, ClosedPeerStartsNothing
  <2> QED BY <1>5, <1>6, <2>1
<1>7. CASE ProcessSuggest(e)
  <2> DEFINE k == <<"IN", m.id>>
             c == xfer[e][k]
             n == [NoCopy EXCEPT !.state = "SETUP_PENDING", !.meth = Opposite(m.meth)]
  <2>1. /\ m.cmd = "SUGGEST" /\ m.meth \in Method /\ m = Suggest(m.id, m.meth)
        /\ k \in Key /\ k[1] = "IN" /\ k[2] = m.id
        /\ c \in Copy /\ Sound("IN", c) /\ Settled("IN", c)
        /\ chan' = Rest(e) /\ UNCHANGED <<ctl, faults>>
    BY <1>2, <1>7, Fields, OwnCopy, Stays DEF Key, Dir, ProcessSuggest, Take
  <2>2. CASE c.state # "NONE"
    <3>1. xfer' = xfer
      BY <1>7, <2>2 DEF ProcessSuggest
    <3> QED BY <1>6, <2>1, <3>1
  <2>3. CASE c.state = "NONE"
    <3>1. xfer' = [xfer EXCEPT ![e] = [xfer[e] EXCEPT ![k] = n]]
      BY <1>7, <2>3 DEF ProcessSuggest
    <3>2. /\ n \in Copy /\ n.state = "SETUP_PENDING" /\ n.verdict = "PENDING"
          /\ ~n.prepared /\ ~n.local /\ n.dcon = "CLOSED" /\ n.meth = Opposite(m.meth)
      BY DEF NoCopy, Copy, State, Opposite, Method
    <3>3. c.verdict = "PENDING"
      BY <2>1, <2>3 DEF Sound
    <3>4. Suggest(k[2], Opposite(n.meth)) \in {m}
      BY <2>1, <3>2 DEF Opposite, Method
    <3> HIDE DEF n, k, m
    <3>5. Sound("IN", n) /\ Settled("IN", n)
      BY <3>2 DEF Sound, Settled, Agreed
    <3>6. Evolves(k, c, n, {m})
      BY <2>1, <2>3, <3>2, <3>3, <3>4, <3>5 DEF Evolves, Leads, Ended, Past, Agreed
    <3> QED BY <1>5, <2>1, <3>1, <3>2, <3>6 DEF m
  <2> QED BY <2>2, <2>3
<1>8. CASE ProcessVerdict(e)
  <2> DEFINE k == <<"OUT", m.id>>
             c == xfer[e][k]
  <2>1. /\ m.cmd = "VERDICT" /\ m = Verdict(m.id, m.ver) /\ m.id \in Id
        /\ k \in Key /\ k[1] = "OUT" /\ k[2] = m.id
        /\ c \in Copy /\ Sound("OUT", c) /\ Settled("OUT", c)
    BY <1>2, <1>8, Fields, OwnCopy, Stays DEF Key, Dir, ProcessVerdict, Take
  <2> HIDE DEF m
  <2>2. CASE c.state # "VERDICT_PENDING"
    <3>1. xfer' = xfer /\ chan' = Rest(e) /\ UNCHANGED <<ctl, faults>>
      BY <1>8, <2>2 DEF ProcessVerdict, m
    <3> QED BY <1>6, <2>1, <3>1
  <2>3. CASE c.state = "VERDICT_PENDING"
    <3>1. c.verdict = "PENDING"
      BY <2>1, <2>3 DEF Sound
    <3>2. m.ver = "ACCEPTED" => Verdict(k[2], "ACCEPTED") \in {m}
      BY <2>1
    <3>3. CASE /\ xfer' = [xfer EXCEPT ![e][k] = [Abort(@) EXCEPT !.verdict = "DECLINED"]]
               /\ chan' = Rest(e) /\ UNCHANGED <<ctl, faults>>
      <4> DEFINE n == [Abort(c) EXCEPT !.verdict = "DECLINED"]
      <4>1. Abort(c) = [c EXCEPT !.state = "ABORTED"]
        BY <2>3 DEF Abort, Ended
      <4>2. /\ n \in Copy /\ n.state = "ABORTED" /\ n.verdict = "DECLINED"
            /\ n.prepared = c.prepared /\ n.meth = c.meth /\ n.dcon = c.dcon
        BY <2>1, <4>1 DEF Copy, State
      <4>3. xfer' = [xfer EXCEPT ![e] = [xfer[e] EXCEPT ![k] = n]]
        BY <3>3
      <4> HIDE DEF n, k
      <4>4. Sound("OUT", n) /\ Settled("OUT", n)
        BY <2>1, <2>3, <4>2 DEF Sound, Settled, Agreed
      <4>5. Evolves(k, c, n, {m})
        BY <2>1, <2>3, <3>1, <4>2, <4>4 DEF Evolves, Leads, Ended, Past, Agreed
      <4> QED BY <1>5, <2>1, <3>3, <4>2, <4>3, <4>5
    <3>4. CASE /\ m.ver = "ACCEPTED"
               /\ xfer' = [xfer EXCEPT ![e][k].state = "PASSIVE_RESOLVE_ACCEPT_IP",
                                       ![e][k].verdict = "ACCEPTED",
                                       ![e][k].accept = "RESOLVE_IP"]
               /\ chan' = Rest(e) /\ UNCHANGED <<ctl, faults>>
      <4> DEFINE n == [c EXCEPT !.state = "PASSIVE_RESOLVE_ACCEPT_IP",
                                !.verdict = "ACCEPTED", !.accept = "RESOLVE_IP"]
      <4>1. /\ n \in Copy /\ n.state = "PASSIVE_RESOLVE_ACCEPT_IP" /\ n.verdict = "ACCEPTED"
            /\ n.prepared = c.prepared /\ n.meth = c.meth /\ n.dcon = c.dcon
        BY <2>1 DEF Copy, State
      <4>2. xfer' = [xfer EXCEPT ![e] = [xfer[e] EXCEPT ![k] = n]]
        BY <1>2, <2>1, <3>4 DEF Table, Copy
      <4> HIDE DEF n, k
      <4>3. Sound("OUT", n) /\ Settled("OUT", n)
        BY <2>1, <2>3, <4>1 DEF Sound, Settled, Agreed
      <4>4. Evolves(k, c, n, {m})
        BY <2>1, <2>3, <3>1, <3>2, <3>4, <4>1, <4>3 DEF Evolves, Leads, Ended, Past, Agreed
      <4> QED BY <1>5, <2>1, <3>4, <4>1, <4>2, <4>4
    <3>5. CASE /\ m.ver = "ACCEPTED" /\ (c.meth = "ACTIVE" \/ ~c.local)
               /\ Prepare(e, Rest(e), k, xfer[e], <<Prepared("OUT", m.id)>>)
      <4> DEFINE p == Prepared("OUT", m.id)
      <4>1. p \in Message /\ p = Prepared(k[1], k[2])
        BY <2>1, Messages DEF Dir, Method
      <4>2. /\ <<p>> \in Seq(Message) /\ NoRepeat(<<p>>)
            /\ \A j \in 1 .. Len(<<p>>) : <<p>>[j] = Prepared(k[1], k[2])
        BY <4>1 DEF NoRepeat
      <4>3. Ready(c)
        BY <2>1, <3>5 DEF Ready
      <4>4. Prepare(e, Rest(e), k, xfer[e], <<p>>)
        BY <3>5
      <4>5. chan'[e] = Rest(e)[e]
        BY <1>2, <4>4, Endpoints DEF Prepare, Send, Deliver
      <4> HIDE DEF p, k
      <4> QED BY <1>0, <1>1, <1>2, <1>3, <2>1, <2>3, <3>2, <3>5, <4>2, <4>3, <4>4, <4>5,
                 PrepareEvolution DEF m
    <3> QED BY <1>8, <2>3, <3>3, <3>4, <3>5 DEF ProcessVerdict, m
  <2> QED BY <2>2, <2>3
<1>9. CASE ProcessPrepared(e)
  <2> DEFINE k == <<Flip(m.dir), m.id>>
             c == xfer[e][k]
             n == [c EXCEPT !.prepared = TRUE]
  <2>1. /\ m.cmd = "PREPARED" /\ m = Prepared(m.dir, m.id)
        /\ k \in Key /\ k[2] = m.id /\ Flip(k[1]) = m.dir
    BY <1>2, <1>9, Fields DEF ProcessPrepared, Take, Key, Dir, Flip
  <2>2. c \in Copy /\ Sound(k[1], c) /\ Settled(k[1], c)
    BY <2>1, OwnCopy, Stays
  <2>3. /\ n \in Copy /\ n.state = c.state /\ n.verdict = c.verdict /\ n.prepared
        /\ n.meth = c.meth /\ n.local = c.local /\ n.accept = c.accept /\ n.dcon = c.dcon
    BY <2>2 DEF Copy
  <2>4. chan' = Rest(e) /\ UNCHANGED <<ctl, faults>>
    BY <1>9 DEF ProcessPrepared
  <2>5. CASE c.state = "NONE"
    <3>1. xfer' = xfer
      BY <1>9, <2>5 DEF ProcessPrepared
    <3> QED BY <1>6, <2>1, <2>4, <3>1
  <2>6. CASE c.state # "NONE"
    <3>1. xfer' = [xfer EXCEPT ![e] = [xfer[e] EXCEPT ![k] = n]]
      BY <1>9, <2>6 DEF ProcessPrepared
    <3>2. Prepared(Flip(k[1]), k[2]) \in {m}
      BY <2>1
    <3>3. ctl[e] = "CLOSED" /\ n.state \in {"PREPARATION_PENDING", "TRANSFERING"} =>
             n.dcon = "ESTABLISHED"
      BY <2>1, <2>3 DEF Order, ClosedPeerStartsNothing
    <3> HIDE DEF n, k
    <3>4. Sound(k[1], n) /\ Settled(k[1], n) /\ (Ready(c) => Ready(n))
      BY <2>2, <2>3, <2>6 DEF Sound, Settled, Ready
    <3>5. Evolves(k, c, n, {m})
      BY <2>3, <2>6, <3>2, <3>4 DEF Evolves, Leads
    <3> QED BY <1>5, <2>1, <2>3, <2>4, <3>1, <3>3, <3>5
  <2> QED BY <2>5, <2>6
<1> QED BY <1>7, <1>8, <1>9 DEF Command

-----------------------------------------------------------------------------
(* The theorems.                                                           *)

\* Before anything was suggested nothing is out of date.
LEMMA InitOrder == Init => Order
<1> SUFFICES ASSUME Init PROVE Order
  OBVIOUS
<1>1. /\ \A e \in Node, k \in Key : xfer[e][k] = NoCopy
      /\ \A e \in Node : chan[e] = <<>> /\ Len(chan[e]) = 0
  BY DEF Init
<1>2. \A d \in Dir : Settled(d, NoCopy)
  BY DEF NoCopy, Settled, Agreed
<1>3. AllSettled
  BY <1>1, <1>2, Mirrored DEF AllSettled
<1>4. Distinct /\ AllExpected
  BY <1>1 DEF Distinct, NoRepeat, AllExpected, InFlight
<1>5. Paired /\ PreparedTold /\ ClosedPeerStartsNothing
  BY <1>1 DEF Paired, Fits, PreparedTold, ClosedPeerStartsNothing, NoCopy
<1> QED BY <1>3, <1>4, <1>5 DEF Order

\* Whatever happens is the evolution of one endpoint.
LEMMA NextEvolution ==
    ASSUME Inv, Order, Next
    PROVE  \E e \in Node : Evolution(e)
<1>1. PICK e \in Node : \/ User(e) \/ SuggestFile(e)
                        \/ \E k \in Key : Transfer(e, k) \/ Connection(e, k)
                        \/ CtlRecv(e) \/ CtlRecvClosed(e)
                        \/ Command(e)
  BY DEF Next
<1> QED BY <1>1, UserEvolutions, SuggestFileEvolutions, TransferEvolutions,
           ConnectionEvolutions, CtlEvolutions, CommandEvolutions

\* The second invariant holds of every behaviour.
THEOREM OrderInvariance == Spec => []Order
<1>1. Inv /\ Order /\ [Next]_vars => Order'
  <2>1. CASE Next
    BY <2>1, NextEvolution, OrderKept
  <2>2. CASE UNCHANGED vars
    BY <2>2 DEF vars, Order, AllSettled, Distinct, AllExpected, Paired, PreparedTold,
                ClosedPeerStartsNothing, InFlight
  <2> QED BY <2>1, <2>2
<1> QED BY Invariance, InitOrder, <1>1, PTL DEF Spec

\* The active end dials only a peer that takes the passive role and, if it
\* listens itself, has its accept entry resolved.
THEOREM ListenerReadyHolds == Spec => []ListenerReady
<1>1. Inv /\ Order => ListenerReady
  <2> SUFFICES ASSUME Inv, Order, NEW e \in Node, NEW k \in Key, NEW c, NEW t,
                      c = xfer[e][k], t = xfer[Other(e)][Mirror(k)],
                      c.meth = "ACTIVE", c.dcon \in {"CONNECTING", "ESTABLISHED"}
               PROVE  t.meth = "PASSIVE" /\ (t.local => t.accept \in {"RESOLVED", "DELETE"})
    BY DEF ListenerReady, Copies
  <2>1. /\ Other(e) \in Node /\ Other(Other(e)) = e
        /\ Mirror(k) \in Key /\ Mirror(Mirror(k)) = k
        /\ Mirror(k)[1] = Flip(k[1]) /\ k[1] \in Dir
    BY Endpoints, Mirrored DEF Mirror
  <2>2. /\ Settled(k[1], c) /\ t \in Copy /\ c.prepared
        /\ c.state \in {"TRANSFERING", "COMPLETED", "ABORTED"}
    <3>1. Settled(k[1], c) /\ t \in Copy
      BY <2>1, Stays, OwnCopy
    <3> QED BY <3>1 DEF Settled
  <2>3. Told(t)
    BY <2>2 DEF Order, PreparedTold
  <2>4. t.meth = "PASSIVE"
    <3>1. CASE k[1] = "IN"
      BY <3>1, <2>2 DEF Order, Paired, Fits, Opposite, Copy, Method
    <3>2. CASE k[1] = "OUT"
      <4>1. Mirror(k)[1] = "IN" /\ t.state # "NONE"
        BY <2>1, <2>3, <3>2 DEF Flip, Told, Past, Agreed
      <4> QED BY <4>1, <2>1 DEF Order, Paired, Fits, Opposite
    <3> QED BY <3>1, <3>2, <2>1 DEF Dir
  <2> QED BY <2>3, <2>4 DEF Told, Ready
<1> QED BY Invariance, OrderInvariance, <1>1, PTL

\* A command is unexpected only because of an abort.
THEOREM ExpectedCommandsHolds == Spec => []ExpectedCommands
<1>1. Order => ExpectedCommands
  <2> SUFFICES ASSUME Order, NEW e \in Node, NEW i \in Id
               PROVE  /\ \A m \in Method : InFlight(Suggest(i, m), e) =>
                            xfer[e][<<"IN", i>>].state = "NONE"
                      /\ \A v \in {"ACCEPTED", "DECLINED"} : InFlight(Verdict(i, v), e) =>
                            xfer[e][<<"OUT", i>>].state \in {"VERDICT_PENDING", "ABORTED"}
                      /\ \A d \in Dir : InFlight(Prepared(d, i), e) =>
                            /\ xfer[e][<<Flip(d), i>>].state # "NONE"
                            /\ ~xfer[e][<<Flip(d), i>>].prepared
    BY DEF ExpectedCommands
  <2>1. \A x \in Message : InFlight(x, e) =>
           Expected(x, xfer[e][Mirror(Subject(x))], xfer[Other(e)][Subject(x)])
    BY DEF Order, AllExpected
  <2>2. ASSUME NEW m \in Method, InFlight(Suggest(i, m), e)
        PROVE  xfer[e][<<"IN", i>>].state = "NONE"
    <3>1. Suggest(i, m) \in Message /\ Mirror(Subject(Suggest(i, m))) = <<"IN", i>>
      BY Messages DEF Suggest, Subject, Mirror, Flip, Dir
    <3> QED BY <2>1, <2>2, <3>1 DEF Expected, Suggest
  <2>3. ASSUME NEW v \in {"ACCEPTED", "DECLINED"}, InFlight(Verdict(i, v), e)
        PROVE  xfer[e][<<"OUT", i>>].state \in {"VERDICT_PENDING", "ABORTED"}
    <3>1. Verdict(i, v) \in Message /\ Mirror(Subject(Verdict(i, v))) = <<"OUT", i>>
      BY Messages DEF Verdict, Subject, Mirror, Flip, Dir, Method
    <3> QED BY <2>1, <2>3, <3>1 DEF Expected, Verdict, Waiting
  <2>4. ASSUME NEW d \in Dir, InFlight(Prepared(d, i), e)
        PROVE  /\ xfer[e][<<Flip(d), i>>].state # "NONE"
               /\ ~xfer[e][<<Flip(d), i>>].prepared
    <3>1. Prepared(d, i) \in Message /\ Mirror(Subject(Prepared(d, i))) = <<Flip(d), i>>
      BY Messages DEF Prepared, Subject, Mirror, Method
    <3> QED BY <2>1, <2>4, <3>1 DEF Expected, Prepared
  <2> QED BY <2>2, <2>3, <2>4
<1> QED BY OrderInvariance, <1>1, PTL

\* Once its control connection is closed an endpoint starts no transfer.
THEOREM ClosedPeerStartsNothingHolds == Spec => []ClosedPeerStartsNothing
BY OrderInvariance, PTL DEF Order

-----------------------------------------------------------------------------
(* The contract: one copy of the negotiation, seen through Ends.           *)

\* The stage of each state.
LEMMA Stages ==
    ASSUME NEW c \in Copy
    PROVE  /\ View(c).stage \in {"UNKNOWN", "OPEN", "AGREED", "MOVING", "DONE", "STOPPED"}
           /\ View(c).stage = "UNKNOWN" <=> c.state = "NONE"
           /\ View(c).stage = "OPEN" <=>
                 c.state \in {"SETUP_PENDING", "ACTIVE_RESOLVE_SRC_IP",
                             "PASSIVE_RESOLVE_ACCEPT_IP", "VERDICT_PENDING"}
           /\ View(c).stage = "AGREED" <=> c.state = "PREPARATION_PENDING"
           /\ View(c).stage = "MOVING" <=> c.state = "TRANSFERING"
           /\ View(c).stage = "DONE" <=> c.state = "COMPLETED"
           /\ View(c).stage = "STOPPED" <=> c.state = "ABORTED"
           /\ View(c).accepted = (c.verdict = "ACCEPTED")
           /\ View(c) = [stage |-> View(c).stage, accepted |-> View(c).accepted]
<1>1. c.state \in State
  BY DEF Copy
<1>2. View(c).stage = Stage[c.state] /\ View(c).accepted = (c.verdict = "ACCEPTED")
  BY DEF View
<1>3. Stage[c.state] = IF c.state = "NONE" THEN "UNKNOWN"
                       ELSE IF c.state = "PREPARATION_PENDING" THEN "AGREED"
                       ELSE IF c.state = "TRANSFERING" THEN "MOVING"
                       ELSE IF c.state = "COMPLETED" THEN "DONE"
                       ELSE IF c.state = "ABORTED" THEN "STOPPED"
                       ELSE "OPEN"
  BY <1>1 DEF Stage
<1> QED BY <1>1, <1>2, <1>3 DEF State, View

\* What a step may do to a copy the contract allows, or does not see.
LEMMA EvolutionAdvances ==
    ASSUME NEW k \in Key, NEW c \in Copy, NEW n \in Copy, NEW d \in Copy, NEW H,
           Sound(k[1], c), Evolves(k, c, n, H),
           k[1] = "IN" /\ c.state = "NONE" /\ n.state # "NONE" => d.state # "NONE",
           k[1] = "OUT" /\ n.verdict = "ACCEPTED" => d.verdict = "ACCEPTED",
           n.prepared => d.verdict = "ACCEPTED"
    PROVE  \/ View(n) = View(c)
           \/ Contract!Advances(View(c), View(n), View(d), k[1] = "OUT")
<1> DEFINE mine == View(c)
           new == View(n)
           theirs == View(d)
           owns == k[1] = "OUT"
<1>1. /\ k[1] \in Dir /\ c.verdict \in {"PENDING", "ACCEPTED", "DECLINED"}
      /\ n.verdict \in {"PENDING", "ACCEPTED", "DECLINED"}
      /\ c.state \in State /\ n.state \in State
  BY Mirrored DEF Copy
<1>2. /\ Sound(k[1], n) /\ Leads(c.state, n.state)
      /\ c.verdict # "PENDING" => n.verdict = c.verdict
      /\ c.state \in Ended => n.verdict = c.verdict
  BY DEF Evolves
<1>3. CASE c.state = "NONE" /\ n.state # "NONE"
  <2>1. mine.stage = "UNKNOWN" /\ new.stage = "OPEN" /\ new.accepted = FALSE
    BY <1>2, <1>3, Stages DEF Leads, Sound, Ended
  <2>2. owns \/ theirs.stage # "UNKNOWN"
    BY <1>1, <1>3, Stages DEF Dir
  <2>3. new = [stage |-> "OPEN", accepted |-> FALSE]
    BY <2>1, Stages
  <2> HIDE DEF mine, new, theirs
  <2>4. Contract!Opens(mine, new, theirs, owns)
    BY <2>1, <2>2, <2>3 DEF Contract!Opens
  <2> QED BY <2>4 DEF Contract!Advances, mine, new, theirs
<1>4. CASE mine.accepted = new.accepted /\ c.state # "NONE"
  <2>1. new = [stage |-> new.stage, accepted |-> mine.accepted]
        /\ mine = [stage |-> mine.stage, accepted |-> mine.accepted]
    BY <1>4, Stages
  <2>2. \/ new.stage = mine.stage
        \/ mine.stage = "OPEN" /\ mine.accepted /\ new.stage = "AGREED"
        \/ mine.stage = "AGREED" /\ theirs.accepted /\ new.stage = "MOVING"
        \/ mine.stage = "MOVING" /\ new.stage = "DONE"
        \/ mine.stage \in {"OPEN", "AGREED", "MOVING"} /\ new.stage = "STOPPED"
    <3>1. n.state = "TRANSFERING" => d.verdict = "ACCEPTED"
      BY <1>2 DEF Sound
    <3>2. n.state = "PREPARATION_PENDING" => n.verdict = "ACCEPTED"
      BY <1>2 DEF Sound, Agreed
    <3>3. /\ mine.accepted <=> c.verdict = "ACCEPTED"
          /\ new.accepted <=> n.verdict = "ACCEPTED"
          /\ theirs.accepted <=> d.verdict = "ACCEPTED"
      BY Stages
    <3> QED BY <1>1, <1>2, <1>4, <3>1, <3>2, <3>3, Stages DEF Leads, Ended, State
  <2> HIDE DEF mine, new, theirs
  <2>3. CASE new.stage = mine.stage
    BY <2>1, <2>3 DEF mine, new
  <2>4. CASE mine.stage = "OPEN" /\ mine.accepted /\ new.stage = "AGREED"
    <3>1. new = [mine EXCEPT !.stage = "AGREED"]
      <4>1. new.stage = "AGREED"
        BY <2>4
      <4> QED BY <2>1, <4>1
    <3>2. Contract!Agrees(mine, new)
      BY <3>1, <2>4 DEF Contract!Agrees
    <3> QED BY <3>2 DEF Contract!Advances, mine, new
  <2>5. CASE mine.stage = "AGREED" /\ theirs.accepted /\ new.stage = "MOVING"
    <3>1. Contract!Moves(mine, new, theirs)
      BY <2>1, <2>5 DEF Contract!Moves
    <3> QED BY <3>1 DEF Contract!Advances, mine, new, theirs
  <2>6. CASE mine.stage = "MOVING" /\ new.stage = "DONE"
    <3>1. Contract!Completes(mine, new)
      BY <2>1, <2>6 DEF Contract!Completes
    <3> QED BY <3>1 DEF Contract!Advances, mine, new
  <2>7. CASE mine.stage \in {"OPEN", "AGREED", "MOVING"} /\ new.stage = "STOPPED"
    <3>1. Contract!Stops(mine, new)
      BY <2>1, <2>7 DEF Contract!Stops
    <3> QED BY <3>1 DEF Contract!Advances, mine, new
  <2> QED BY <2>2, <2>3, <2>4, <2>5, <2>6, <2>7
<1>5. CASE mine.accepted # new.accepted /\ c.state # "NONE"
  <2>1. c.verdict = "PENDING" /\ n.verdict = "ACCEPTED" /\ c.state \notin Ended
    BY <1>1, <1>2, <1>5, Stages
  <2>2. mine.stage = "OPEN" /\ new.stage \in {"OPEN", "AGREED", "STOPPED"}
    BY <1>1, <1>2, <1>5, <2>1, Stages DEF Leads, Ended, State, Sound, Agreed
  <2>3. ~mine.accepted /\ new.accepted /\ (owns => theirs.accepted)
    BY <2>1, Stages
  <2> HIDE DEF mine, new, theirs
  <2>4. Contract!Accepts(mine, new, theirs, owns)
    BY <2>2, <2>3 DEF Contract!Accepts
  <2> QED BY <2>4 DEF Contract!Advances, mine, new, theirs
<1>6. CASE c.state = "NONE" /\ n.state = "NONE"
  BY <1>2, <1>6, Stages DEF Sound
<1> QED BY <1>3, <1>4, <1>5, <1>6

-----------------------------------------------------------------------------
(* All copies.                                                             *)

\* Each end of a transfer is a copy, its peer's the mirrored one.
LEMMA Entries ==
    ASSUME NEW e \in Node, NEW t \in Node \X Id
    PROVE  \E k \in Key :
             /\ k[1] = "OUT" <=> t[1] = e
             /\ EntryOf(e, t) = xfer[e][k] /\ EntryOf(e, t)' = xfer'[e][k]
             /\ EntryOf(Other(e), t) = xfer[Other(e)][Mirror(k)]
<1> DEFINE k == <<IF t[1] = e THEN "OUT" ELSE "IN", t[2]>>
<1>1. t[1] \in Node /\ t[2] \in Id
  OBVIOUS
<1>2. k \in Key /\ (k[1] = "OUT" <=> t[1] = e)
  BY <1>1 DEF Key, Dir
<1>3. Mirror(k) = <<IF t[1] = Other(e) THEN "OUT" ELSE "IN", t[2]>>
  BY <1>1, Endpoints DEF Mirror, Flip
<1> QED BY <1>2, <1>3 DEF EntryOf

\* An evolution is a step of the contract.
LEMMA EvolutionActs ==
    ASSUME Inv, Order, NEW e \in Node, Evolution(e)
    PROVE  Contract!Act(e)
<1> DEFINE o == Other(e)
<1>0. o \in Node /\ o # e /\ \A f \in Node \ {e} : f = o
  BY Endpoints
<1>1. PICK H : Heard(e, H) /\ \A k \in Key : Evolves(k, xfer[e][k], xfer'[e][k], H)
  BY DEF Evolution
<1>2. /\ Ends'[o] = Ends[o]
      /\ \A t \in Node \X Id : /\ Ends[e][t] = View(EntryOf(e, t))
                               /\ Ends'[e][t] = View(EntryOf(e, t)')
                               /\ Ends[o][t] = View(EntryOf(o, t))
  <2>1. xfer'[o] = xfer[o]
    BY DEF Evolution, Step
  <2> QED BY <1>0, <2>1 DEF Ends, EntryOf, View
<1>3. ASSUME NEW t \in Node \X Id
      PROVE  \/ Ends'[e][t] = Ends[e][t]
             \/ Contract!Advances(Ends[e][t], Ends'[e][t], Ends[o][t], t[1] = e)
  <2>1. PICK k \in Key : /\ k[1] = "OUT" <=> t[1] = e
                        /\ EntryOf(e, t) = xfer[e][k] /\ EntryOf(e, t)' = xfer'[e][k]
                        /\ EntryOf(o, t) = xfer[o][Mirror(k)]
    BY Entries
  <2> DEFINE c == xfer[e][k]
             n == xfer'[e][k]
             d == xfer[o][Mirror(k)]
  <2>2. /\ c \in Copy /\ n \in Copy /\ d \in Copy /\ Sound(k[1], c)
        /\ Evolves(k, c, n, H)
    BY <1>0, <1>1, Mirrored DEF Evolution, Step, Inv, TypeOK, Table, AllSound
  <2>3. /\ \A m \in Method : Suggest(k[2], m) \in H /\ k[1] = "IN" =>
              Expected(Suggest(k[2], m), c, d)
        /\ Verdict(k[2], "ACCEPTED") \in H /\ k[1] = "OUT" => d.verdict = "ACCEPTED"
        /\ Prepared(Flip(k[1]), k[2]) \in H => Told(d)
    BY <1>1, HeardFacts DEF Order
  <2>4. /\ k[1] = "OUT" /\ c.verdict = "ACCEPTED" => d.verdict = "ACCEPTED"
        /\ c.prepared => Told(d)
    BY DEF Inv, BeliefsBacked, Copies, Order, PreparedTold
  <2> HIDE DEF o, c, n, d
  <2>5. k[1] = "IN" /\ c.state = "NONE" /\ n.state # "NONE" => d.state # "NONE"
    <3> SUFFICES ASSUME k[1] = "IN", c.state = "NONE", n.state # "NONE"
                 PROVE  d.state # "NONE"
      OBVIOUS
    <3>1. Suggest(k[2], Opposite(n.meth)) \in H /\ Opposite(n.meth) \in Method
      BY <2>2 DEF Evolves, Opposite, Method
    <3> QED BY <3>1, <2>3 DEF Expected, Suggest, Waiting
  <2>6. k[1] = "OUT" /\ n.verdict = "ACCEPTED" => d.verdict = "ACCEPTED"
    BY <2>2, <2>3, <2>4 DEF Evolves
  <2>7. n.prepared => d.verdict = "ACCEPTED"
    BY <2>2, <2>3, <2>4 DEF Evolves, Told
  <2>8. View(n) = View(c) \/ Contract!Advances(View(c), View(n), View(d), k[1] = "OUT")
    BY <2>2, <2>5, <2>6, <2>7, EvolutionAdvances
  <2>9. (k[1] = "OUT") = (t[1] = e)
    BY <2>1
  <2> QED BY <1>2, <2>1, <2>8, <2>9 DEF c, n, d
<1> QED BY <1>0, <1>2, <1>3 DEF Contract!Act, Contract!Transfer, Contract!Owns

-----------------------------------------------------------------------------
(* The theorem.                                                            *)

\* The negotiation implements the contract: both ends of each transfer go
\* through their stages in order, and none before its peer has done its part.
THEOREM KeepsContractHolds == Spec => KeepsContract
<1>1. Init => Contract!Init
  <2> SUFFICES ASSUME Init, NEW e \in Node, NEW t \in Node \X Id
               PROVE  View(EntryOf(e, t)) = [stage |-> "UNKNOWN", accepted |-> FALSE]
    BY DEF Contract!Init, Contract!Transfer, Ends
  <2>1. PICK k \in Key : EntryOf(e, t) = xfer[e][k]
    BY Entries
  <2>2. EntryOf(e, t) = NoCopy
    BY <2>1 DEF Init
  <2>3. NoCopy \in Copy /\ NoCopy.state = "NONE" /\ NoCopy.verdict = "PENDING"
    BY DEF NoCopy, Copy, State, Method
  <2>4. View(NoCopy).stage = "UNKNOWN" /\ View(NoCopy).accepted = FALSE
    BY <2>3, Stages
  <2> QED BY <2>2, <2>3, <2>4, Stages
<1>2. Inv /\ Order /\ [Next]_vars => [Contract!Next]_Ends
  <2>1. CASE Next /\ Inv /\ Order
    <3>1. PICK e \in Node : Evolution(e)
      BY <2>1, NextEvolution
    <3>2. Contract!Act(e)
      BY <2>1, <3>1, EvolutionActs
    <3> QED BY <3>2 DEF Contract!Next
  <2>2. CASE UNCHANGED vars
    BY <2>2 DEF vars, Ends, EntryOf
  <2> QED BY <2>1, <2>2
<1> QED BY Invariance, OrderInvariance, <1>1, <1>2, PTL DEF Spec, KeepsContract, Contract!Spec
=============================================================================
