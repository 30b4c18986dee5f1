-------------------------- MODULE NegotiationProofs --------------------------
(***************************************************************************)
(* What holds of a negotiation for every number of transfers, every bound  *)
(* on failures and every choice of who suggests files.                     *)
(***************************************************************************)
EXTENDS Negotiation, SequenceTheorems, TLAPS

-----------------------------------------------------------------------------
(* Facts about endpoints, keys and messages.                               *)

\* There are two endpoints, each the other's peer.
LEMMA Endpoints ==
    ASSUME NEW e \in Node
    PROVE  /\ Other(e) \in Node /\ Other(e) # e /\ Other(Other(e)) = e
           /\ \A f \in Node : f # e => f = Other(e)
BY DEF Node, Other

\* A transfer's copies have mirrored keys.
LEMMA Mirrored ==
    ASSUME NEW k \in Key
    PROVE  /\ k[1] \in Dir /\ k[2] \in Id /\ k = <<k[1], k[2]>>
           /\ Mirror(k) \in Key /\ Mirror(Mirror(k)) = k
BY DEF Key, Mirror, Flip, Dir

\* Whatever is sent is a command.
LEMMA Messages ==
    ASSUME NEW i \in Id, NEW d \in Dir, NEW m \in Method,
           NEW v \in {"ACCEPTED", "DECLINED"}
    PROVE  /\ Suggest(i, m) \in Message
           /\ Verdict(i, v) \in Message
           /\ Prepared(d, i) \in Message
BY DEF Suggest, Verdict, Prepared, Message

\* What arrives is one of the three commands, with the fields that it needs.
LEMMA Fields ==
    ASSUME NEW m \in Message
    PROVE  /\ m.id \in Id
           /\ m.cmd = "SUGGEST" => m.meth \in Method /\ m = Suggest(m.id, m.meth)
           /\ m.cmd = "VERDICT" => m.ver \in {"ACCEPTED", "DECLINED"}
                                   /\ m = Verdict(m.id, m.ver)
           /\ m.cmd = "PREPARED" => m.dir \in Dir /\ m = Prepared(m.dir, m.id)
BY DEF Message, Suggest, Verdict, Prepared

-----------------------------------------------------------------------------
(* Facts about tables of transfers.                                        *)

Table == [Key -> Copy]

\* data_transfer_abort keeps everything but the state, and keeps an end.
LEMMA AbortFacts ==
    ASSUME NEW c \in Copy
    PROVE  /\ Abort(c) \in Copy
           /\ Abort(c) = c \/ Abort(c) = [c EXCEPT !.state = "ABORTED"]
           /\ c.state \in Ended \cup {"NONE"} => Abort(c) = c
           /\ c.state \notin Ended \cup {"NONE"} => Abort(c).state = "ABORTED"
BY DEF Abort, Copy, State, Ended

\* So does aborting all that is unestablished, for each copy in the table.
LEMMA AbortUnestFacts ==
    ASSUME NEW T \in Table
    PROVE  /\ AbortUnest(T) \in Table
           /\ \A k \in Key : AbortUnest(T)[k] = T[k] \/ AbortUnest(T)[k] = Abort(T[k])
BY AbortFacts DEF AbortUnest, Table

-----------------------------------------------------------------------------
(* The inductive invariant: a copy's verdict follows from its state, what  *)
(* one end believes of the other is backed by the other's table, and so is *)
(* every command that is on its way to tell it so.                         *)

Past == Agreed \cup {"ABORTED"}

\* A copy of direction d that is consistent in itself.
Sound(d, c) ==
    /\ c.state \in {"NONE", "SETUP_PENDING", "ACTIVE_RESOLVE_SRC_IP",
                   "VERDICT_PENDING"} => c.verdict = "PENDING"
    /\ c.state = "PASSIVE_RESOLVE_ACCEPT_IP" =>
          c.verdict = IF d = "IN" THEN "PENDING" ELSE "ACCEPTED"
    /\ c.state \in Agreed => c.verdict = "ACCEPTED"
    /\ c.state \in {"TRANSFERING", "COMPLETED"} => c.prepared

\* What the command m tells about its sender is true of the sender's table.
Backed(m, T) ==
    /\ m.cmd = "VERDICT" /\ m.ver = "ACCEPTED" =>
          T[<<"IN", m.id>>].verdict = "ACCEPTED"
    /\ m.cmd = "PREPARED" => T[<<m.dir, m.id>>].state \in Past

AllSound == \A e \in Node, k \in Key : Sound(k[1], xfer[e][k])

CommandsBacked ==
    \A e \in Node, m \in Message : InFlight(m, e) => Backed(m, xfer[Other(e)])

BeliefsBacked ==
    \A e \in Node, k \in Key :
        LET c == Copies(e, k) IN
        /\ k[1] = "OUT" /\ c.mine.verdict = "ACCEPTED" => c.theirs.verdict = "ACCEPTED"
        /\ c.mine.prepared => c.theirs.state \in Past

Inv == TypeOK /\ AllSound /\ CommandsBacked /\ BeliefsBacked

-----------------------------------------------------------------------------
(* What one step of endpoint e may do, whatever action it is.              *)

\* A copy may move on to n: no verdict or end is revised, and what it learns
\* of its peer comes from a command that is on its way.
Progress(e, k, n) ==
    /\ xfer[e][k].verdict # "PENDING" => n.verdict = xfer[e][k].verdict
    /\ xfer[e][k].state \in Ended => n.state = xfer[e][k].state
    /\ xfer[e][k].state \in Past => n.state \in Past
    /\ Sound(k[1], n)
    /\ k[1] = "OUT" /\ n.verdict = "ACCEPTED" =>
          \/ xfer[e][k].verdict = "ACCEPTED"
          \/ InFlight(Verdict(k[2], "ACCEPTED"), e)
    /\ n.prepared => \/ xfer[e][k].prepared
                     \/ InFlight(Prepared(Flip(k[1]), k[2]), e)

Advance(e, T) == T \in Table /\ \A k \in Key : Progress(e, k, T[k])

Step(e) ==
    /\ xfer' \in [Node -> Table]
    /\ xfer'[Other(e)] = xfer[Other(e)]
    /\ Advance(e, xfer'[e])
    /\ chan' \in [Node -> Seq(Message)]
    /\ \A m \in Message : InFlight(m, e)' => InFlight(m, e)
    /\ \A m \in Message :
          InFlight(m, Other(e))' => InFlight(m, Other(e)) \/ Backed(m, xfer'[e])

\* No verdict is revised and nothing agreed on is taken back between T and U.
Keeps(T, U) ==
    \A k \in Key : /\ T[k].verdict # "PENDING" => U[k].verdict = T[k].verdict
                   /\ T[k].state \in Past => U[k].state \in Past

\* What a table backs stays backed while the table only moves on.
LEMMA BackedStays ==
    ASSUME NEW m \in Message, NEW T, NEW U, Backed(m, T), Keeps(T, U)
    PROVE  Backed(m, U)
<1>1. ASSUME m.cmd = "VERDICT", m.ver = "ACCEPTED"
      PROVE  U[<<"IN", m.id>>].verdict = "ACCEPTED"
  <2>1. <<"IN", m.id>> \in Key
    BY Fields DEF Key, Dir
  <2>2. T[<<"IN", m.id>>].verdict = "ACCEPTED"
    BY <1>1 DEF Backed
  <2> QED BY <2>1, <2>2 DEF Keeps
<1>2. ASSUME m.cmd = "PREPARED"
      PROVE  U[<<m.dir, m.id>>].state \in Past
  <2>1. <<m.dir, m.id>> \in Key
    BY <1>2, Fields DEF Key, Dir
  <2>2. T[<<m.dir, m.id>>].state \in Past
    BY <1>2 DEF Backed
  <2> QED BY <2>1, <2>2 DEF Keeps
<1> QED BY <1>1, <1>2 DEF Backed

\* A step of either end keeps the invariant's three parts.
LEMMA StepKeeps ==
    ASSUME Inv, NEW e \in Node, Step(e)
    PROVE  AllSound' /\ CommandsBacked' /\ BeliefsBacked'
<1> DEFINE o == Other(e)
<1>0. /\ o \in Node /\ o # e /\ Other(o) = e
      /\ \A f \in Node : f = e \/ f = o
  BY Endpoints
<1>1. /\ xfer \in [Node -> Table] /\ xfer' \in [Node -> Table]
      /\ xfer'[o] = xfer[o]
      /\ \A k \in Key : Progress(e, k, xfer'[e][k])
  BY DEF Inv, TypeOK, Step, Advance, Table
<1> HIDE DEF o
<1>2. AllSound'
  BY <1>0, <1>1 DEF AllSound, Inv, Progress
<1>4. CommandsBacked'
  <2> SUFFICES ASSUME NEW f \in Node, NEW m \in Message, InFlight(m, f)'
               PROVE  Backed(m, xfer'[Other(f)])
    BY DEF CommandsBacked
  <2>1. CASE f = e
    BY <2>1, <1>0, <1>1 DEF Step, CommandsBacked, Inv, o
  <2>2. CASE f = o
    <3>1. InFlight(m, o) \/ Backed(m, xfer'[e])
      BY <2>2 DEF Step, o
    <3>2. ASSUME InFlight(m, o) PROVE Backed(m, xfer'[e])
      <4>1. Backed(m, xfer[e])
        BY <3>2, <1>0 DEF CommandsBacked, Inv
      <4>2. Keeps(xfer[e], xfer'[e])
        BY <1>1 DEF Progress, Keeps
      <4> QED BY <4>1, <4>2, BackedStays
    <3> QED BY <3>1, <3>2, <2>2, <1>0
  <2> QED BY <2>1, <2>2, <1>0
<1>5. BeliefsBacked'
  <2> SUFFICES ASSUME NEW f \in Node, NEW k \in Key
               PROVE  /\ k[1] = "OUT" /\ xfer'[f][k].verdict = "ACCEPTED" =>
                            xfer'[Other(f)][Mirror(k)].verdict = "ACCEPTED"
                      /\ xfer'[f][k].prepared => xfer'[Other(f)][Mirror(k)].state \in Past
    BY DEF BeliefsBacked, Copies
  <2>0. /\ Mirror(k) \in Key /\ Mirror(k) = <<Flip(k[1]), k[2]>>
        /\ k[1] = "OUT" => Mirror(k) = <<"IN", k[2]>>
        /\ k[2] \in Id /\ Flip(k[1]) \in Dir
    BY Mirrored DEF Mirror, Flip, Dir
  <2>1. /\ k[1] = "OUT" /\ xfer[f][k].verdict = "ACCEPTED" =>
              xfer[Other(f)][Mirror(k)].verdict = "ACCEPTED"
        /\ xfer[f][k].prepared => xfer[Other(f)][Mirror(k)].state \in Past
    BY DEF Inv, BeliefsBacked, Copies
  <2>2. CASE f = e
    <3>1. InFlight(Verdict(k[2], "ACCEPTED"), e) =>
            xfer[o][<<"IN", k[2]>>].verdict = "ACCEPTED"
      BY <2>0, Messages DEF Inv, CommandsBacked, Backed, Verdict, o, Method
    <3>2. InFlight(Prepared(Flip(k[1]), k[2]), e) =>
            xfer[o][<<Flip(k[1]), k[2]>>].state \in Past
      BY <2>0, Messages DEF Inv, CommandsBacked, Backed, Prepared, o, Method
    <3>3. Progress(e, k, xfer'[e][k])
      BY <1>1
    <3> QED BY <3>1, <3>2, <3>3, <2>0, <2>1, <2>2, <1>1, <1>0 DEF Progress, o
  <2>3. CASE f = o
    <3>1. Progress(e, Mirror(k), xfer'[e][Mirror(k)])
      BY <2>0, <1>1
    <3> QED BY <3>1, <2>1, <2>3, <1>0, <1>1 DEF Progress
  <2> QED BY <2>2, <2>3, <1>0
<1> QED BY <1>2, <1>4, <1>5

-----------------------------------------------------------------------------
(* The kinds of steps there are.                                           *)

\* Types of the variables that a step's effect on copies leaves open.
OthersOK ==
    /\ ctl \in [Node -> {"ESTABLISHED", "CLOSED"}]
    /\ due \in [Node -> Nat]
    /\ \A e \in Node : due[e] <= Len(chan[e])
    /\ todo \in [Node -> [n : Nat, meth : Method, local : BOOLEAN]]
    /\ dialled \subseteq Node \X Id
    /\ faults \in Nat

\* Aborting a copy that has moved on is itself moving on.
LEMMA AbortProgress ==
    ASSUME NEW e \in Node, NEW k \in Key, NEW n \in Copy, Progress(e, k, n)
    PROVE  Progress(e, k, Abort(n))
<1>1. CASE Abort(n) = n
  BY <1>1
<1>2. CASE Abort(n) # n
  <2>1. /\ Abort(n) = [n EXCEPT !.state = "ABORTED"]
        /\ n.state \notin Ended \cup {"NONE"}
    BY <1>2, AbortFacts
  <2> DEFINE a == Abort(n)
  <2>2. /\ a.state = "ABORTED" /\ a.verdict = n.verdict /\ a.prepared = n.prepared
    BY <2>1 DEF Copy
  <2> HIDE DEF a
  <2>3. Progress(e, k, a)
    BY <2>1, <2>2 DEF Progress, Sound, Past, Agreed, Ended
  <2> QED BY <2>3 DEF a
<1> QED BY <1>1, <1>2

\* So is aborting the unestablished copies of a table, and what the table
\* backed it still backs.
LEMMA AbortAdvance ==
    ASSUME NEW e \in Node, NEW T, Advance(e, T)
    PROVE  /\ Advance(e, AbortUnest(T))
           /\ \A m \in Message : Backed(m, T) => Backed(m, AbortUnest(T))
<1>1. T \in Table /\ \A k \in Key : T[k] \in Copy /\ Progress(e, k, T[k])
  BY DEF Advance, Table
<1>2. Advance(e, AbortUnest(T))
  BY <1>1, AbortUnestFacts, AbortProgress DEF Advance
<1>3. Keeps(T, AbortUnest(T))
  <2> SUFFICES ASSUME NEW k \in Key, NEW u, u = AbortUnest(T)[k]
               PROVE  /\ T[k].verdict # "PENDING" => u.verdict = T[k].verdict
                      /\ T[k].state \in Past => u.state \in Past
    BY DEF Keeps
  <2>1. u = T[k] \/ u = Abort(T[k])
    BY <1>1, AbortUnestFacts
  <2>2. u = T[k] \/ u = [T[k] EXCEPT !.state = "ABORTED"]
    BY <2>1, <1>1, AbortFacts
  <2> QED BY <2>2, <1>1 DEF Copy, Past
<1> QED BY <1>2, <1>3, BackedStays

\* Moving one copy on, and perhaps none.
LEMMA OneAdvances ==
    ASSUME Inv, NEW e \in Node, NEW k \in Key, NEW n \in Copy, Progress(e, k, n)
    PROVE  Advance(e, xfer[e]) /\ Advance(e, [xfer[e] EXCEPT ![k] = n])
<1>1. xfer[e] \in Table /\ [xfer[e] EXCEPT ![k] = n] \in Table
  BY DEF Inv, TypeOK, Table
<1>2. \A j \in Key : Progress(e, j, xfer[e][j])
  BY DEF Progress, Inv, AllSound
<1> QED BY <1>1, <1>2 DEF Advance, Table

\* A step that sends nothing, and takes at most a command off the backlog.
LEMMA QuietStep ==
    ASSUME Inv, NEW e \in Node, NEW T, Advance(e, T),
           xfer' = [xfer EXCEPT ![e] = T],
           \/ chan' = chan
           \/ chan' = [chan EXCEPT ![e] = <<>>]
           \/ chan[e] # <<>> /\ chan' = Rest(e)
    PROVE  Step(e)
<1>1. /\ xfer \in [Node -> Table] /\ T \in Table
      /\ chan \in [Node -> Seq(Message)] /\ chan[e] \in Seq(Message)
  BY DEF Inv, TypeOK, Table, Advance
<1>2. Other(e) \in Node /\ Other(e) # e
  BY Endpoints
<1>3. chan[e] # <<>> => /\ Tail(chan[e]) \in Seq(Message)
                        /\ Len(Tail(chan[e])) = Len(chan[e]) - 1
                        /\ Len(chan[e]) \in Nat
                        /\ \A j \in 1 .. Len(Tail(chan[e])) :
                              Tail(chan[e])[j] = chan[e][j + 1]
  BY <1>1, HeadTailProperties
<1>4. /\ chan' \in [Node -> Seq(Message)]
      /\ chan'[Other(e)] = chan[Other(e)]
      /\ \/ chan'[e] = chan[e] \/ chan'[e] = <<>>
         \/ chan[e] # <<>> /\ chan'[e] = Tail(chan[e])
  <2>1. ASSUME NEW s \in Seq(Message), chan' = [chan EXCEPT ![e] = s]
        PROVE  /\ chan' \in [Node -> Seq(Message)]
               /\ chan'[Other(e)] = chan[Other(e)] /\ chan'[e] = s
    BY <2>1, <1>1, <1>2
  <2>2. CASE chan' = chan
    BY <2>2, <1>1
  <2>3. CASE chan' = [chan EXCEPT ![e] = <<>>]
    BY <2>1, <2>3, EmptySeq
  <2>4. CASE chan[e] # <<>> /\ chan' = Rest(e)
    BY <2>1, <2>4, <1>3 DEF Rest
  <2> QED BY <2>2, <2>3, <2>4
<1>5. \A m \in Message : InFlight(m, e)' => InFlight(m, e)
  <2> SUFFICES ASSUME NEW m \in Message, NEW j \in 1 .. Len(chan'[e]), chan'[e][j] = m
               PROVE  InFlight(m, e)
    BY DEF InFlight
  <2>1. CASE chan'[e] = chan[e]
    BY <2>1 DEF InFlight
  <2>2. CASE chan'[e] = <<>>
    BY <2>2
  <2>3. CASE chan[e] # <<>> /\ chan'[e] = Tail(chan[e])
    <3>1. j + 1 \in 1 .. Len(chan[e]) /\ chan[e][j + 1] = m
      BY <2>3, <1>3
    <3> QED BY <3>1 DEF InFlight
  <2> QED BY <1>4, <2>1, <2>2, <2>3
<1>6. \A m \in Message : InFlight(m, Other(e))' => InFlight(m, Other(e))
  BY <1>4 DEF InFlight
<1>7. xfer' \in [Node -> Table] /\ xfer'[Other(e)] = xfer[Other(e)] /\ xfer'[e] = T
  BY <1>1, <1>2
<1> QED BY <1>4, <1>5, <1>6, <1>7 DEF Step

\* A step that sends commands which both of its outcomes back.
LEMMA SendStep ==
    ASSUME Inv, NEW e \in Node,
           NEW c \in [Node -> Seq(Message)],
           c[Other(e)] = chan[Other(e)],
           \A j \in 1 .. Len(c[e]) : InFlight(c[e][j], e),
           NEW msgs \in Seq(Message),
           NEW ok, Advance(e, ok), NEW failed, Advance(e, failed),
           \A j \in 1 .. Len(msgs) : Backed(msgs[j], ok) /\ Backed(msgs[j], failed),
           Send(e, c, msgs, ok, failed)
    PROVE  /\ Step(e)
           /\ ctl' \in [Node -> {"ESTABLISHED", "CLOSED"}] /\ faults' \in Nat
           /\ chan'[e] = c[e] /\ Len(chan'[Other(e)]) >= Len(chan[Other(e)])
<1> DEFINE o == Other(e)
<1>0. o \in Node /\ o # e
  BY Endpoints
<1>1. xfer \in [Node -> Table] /\ c[o] \in Seq(Message) /\ c[e] \in Seq(Message)
      /\ ok \in Table /\ failed \in Table
      /\ ctl \in [Node -> {"ESTABLISHED", "CLOSED"}] /\ faults \in Nat
  BY <1>0 DEF Inv, TypeOK, Table, Advance
<1>2. ctl' \in [Node -> {"ESTABLISHED", "CLOSED"}] /\ faults' \in Nat
  <2>1. ctl' = ctl \/ ctl' = [ctl EXCEPT ![e] = "CLOSED"]
    BY DEF Send
  <2>2. faults' = faults \/ faults' = faults + 1
    BY DEF Send, Charge
  <2>3. ctl' \in [Node -> {"ESTABLISHED", "CLOSED"}]
    BY <2>1, <1>1
  <2>4. faults' \in Nat
    BY <2>2, <1>1
  <2> QED BY <2>3, <2>4
<1>3. PICK T \in {ok, failed} : xfer' = [xfer EXCEPT ![e] = T]
  BY DEF Send
<1>4. PICK sent \in Seq(Message) :
        /\ chan' = c \/ chan' = [c EXCEPT ![o] = c[o] \o sent]
        /\ \A j \in 1 .. Len(sent) : \E i \in 1 .. Len(msgs) : sent[j] = msgs[i]
  <2>1. ASSUME NEW sent \in Seq(Message), chan' = Deliver(c, e, sent)
        PROVE  chan' = c \/ chan' = [c EXCEPT ![o] = c[o] \o sent]
    BY <2>1, <1>0 DEF Deliver
  <2>2. CASE chan' = Deliver(c, e, msgs)
    BY <2>1, <2>2
  <2>3. ASSUME NEW n \in 0 .. Len(msgs) - 1, chan' = Deliver(c, e, SubSeq(msgs, 1, n))
        PROVE  \E sent \in Seq(Message) :
                 /\ chan' = c \/ chan' = [c EXCEPT ![o] = c[o] \o sent]
                 /\ \A j \in 1 .. Len(sent) : \E i \in 1 .. Len(msgs) : sent[j] = msgs[i]
    <3>1. /\ SubSeq(msgs, 1, n) \in Seq(Message)
          /\ \A j \in 1 .. Len(SubSeq(msgs, 1, n)) :
                j \in 1 .. Len(msgs) /\ SubSeq(msgs, 1, n)[j] = msgs[j]
      <4>1. Len(msgs) \in Nat
        BY LenProperties
      <4>2. n \in Nat /\ n <= Len(msgs) /\ \A i \in 1 .. n : i \in 1 .. Len(msgs)
        BY <4>1
      <4> QED BY <4>1, <4>2, SubSeqProperties, ElementOfSeq
    <3> QED BY <3>1, <2>1, <2>3
  <2>4. CASE chan' = c
    BY <2>4, EmptySeq
  <2> QED BY <2>2, <2>3, <2>4 DEF Send
<1> HIDE DEF o
<1>5. /\ chan' \in [Node -> Seq(Message)]
      /\ chan'[e] = c[e]
      /\ chan'[o] = chan[o] \/ chan'[o] = chan[o] \o sent
  <2>1. CASE chan' = c
    BY <2>1 DEF o
  <2>2. CASE chan' = [c EXCEPT ![o] = c[o] \o sent]
    <3>1. c[o] \o sent \in Seq(Message)
      BY <1>1, ConcatProperties DEF o
    <3>2. chan' \in [Node -> Seq(Message)] /\ chan'[e] = c[e] /\ chan'[o] = c[o] \o sent
      BY <2>2, <3>1, <1>0
    <3> QED BY <3>2 DEF o
  <2> QED BY <1>4, <2>1, <2>2
<1>6. chan[o] \in Seq(Message)
  BY <1>1, <1>0 DEF o
<1>7. Len(chan'[o]) >= Len(chan[o])
  BY <1>5, <1>6, <1>4, ConcatProperties, LenProperties
<1>8. \A m \in Message : InFlight(m, e)' => InFlight(m, e)
  BY <1>5 DEF InFlight
<1>9. \A m \in Message : InFlight(m, o)' => InFlight(m, o) \/ Backed(m, T)
  <2> SUFFICES ASSUME NEW m \in Message, NEW j \in 1 .. Len(chan'[o]), chan'[o][j] = m
               PROVE  InFlight(m, o) \/ Backed(m, T)
    BY DEF InFlight
  <2>1. CASE chan'[o] = chan[o]
    BY <2>1 DEF InFlight
  <2>2. CASE chan'[o] = chan[o] \o sent
    <3>1. /\ Len(chan[o]) \in Nat /\ Len(sent) \in Nat
          /\ Len(chan'[o]) = Len(chan[o]) + Len(sent)
          /\ m = IF j <= Len(chan[o]) THEN chan[o][j] ELSE sent[j - Len(chan[o])]
      BY <2>2, <1>6, ConcatProperties, LenProperties
    <3>2. CASE j <= Len(chan[o])
      BY <3>1, <3>2 DEF InFlight
    <3>3. CASE j > Len(chan[o])
      <4>1. j - Len(chan[o]) \in 1 .. Len(sent) /\ m = sent[j - Len(chan[o])]
        BY <3>1, <3>3
      <4> QED BY <4>1, <1>4, <1>3
    <3> QED BY <3>1, <3>2, <3>3
  <2> QED BY <1>5, <2>1, <2>2
<1>10. Advance(e, T) /\ xfer'[e] = T /\ xfer'[o] = xfer[o] /\ xfer' \in [Node -> Table]
  BY <1>0, <1>1, <1>3
<1> QED BY <1>2, <1>5, <1>7, <1>8, <1>9, <1>10 DEF Step, o

\* Sending FILE-PREPARED, and the verdict with it at the receiving end, backs
\* both commands even if a send fails and the transfer is aborted again.
LEMMA PrepareStep ==
    ASSUME Inv, NEW e \in Node, NEW k \in Key,
           NEW c \in [Node -> Seq(Message)],
           c[Other(e)] = chan[Other(e)],
           \A j \in 1 .. Len(c[e]) : InFlight(c[e][j], e),
           NEW msgs \in Seq(Message),
           \A j \in 1 .. Len(msgs) :
               \/ msgs[j] = Prepared(k[1], k[2])
               \/ k[1] = "IN" /\ msgs[j] = Verdict(k[2], "ACCEPTED"),
           xfer[e][k].state \notin Ended,
           xfer[e][k].verdict # "DECLINED",
           k[1] = "OUT" => \/ xfer[e][k].verdict = "ACCEPTED"
                           \/ InFlight(Verdict(k[2], "ACCEPTED"), e),
           Prepare(e, c, k, xfer[e], msgs)
    PROVE  /\ Step(e)
           /\ ctl' \in [Node -> {"ESTABLISHED", "CLOSED"}] /\ faults' \in Nat
           /\ chan'[e] = c[e] /\ Len(chan'[Other(e)]) >= Len(chan[Other(e)])
<1> DEFINE n == [xfer[e][k] EXCEPT !.state = "PREPARATION_PENDING", !.verdict = "ACCEPTED"]
           P == [xfer[e] EXCEPT ![k] = n]
<1>1. /\ xfer[e] \in Table /\ xfer[e][k] \in Copy
      /\ n \in Copy /\ n.state = "PREPARATION_PENDING" /\ n.verdict = "ACCEPTED"
      /\ n.prepared = xfer[e][k].prepared
  <2>1. xfer[e] \in Table /\ xfer[e][k] \in Copy
    BY DEF Inv, TypeOK, Table
  <2>2. /\ n.state = "PREPARATION_PENDING" /\ n.verdict = "ACCEPTED"
        /\ n.prepared = xfer[e][k].prepared
    BY <2>1 DEF Copy
  <2>3. n \in Copy
    BY <2>1 DEF Copy, State
  <2> QED BY <2>1, <2>2, <2>3
<1>2. Send(e, c, msgs, P, AbortUnest(P))
  <2>1. P = [xfer[e] EXCEPT ![k].state = "PREPARATION_PENDING", ![k].verdict = "ACCEPTED"]
    BY <1>1 DEF Table, Copy
  <2> QED BY <2>1 DEF Prepare
<1>3. P[k] = n
  BY <1>1 DEF Table
<1> HIDE DEF n
<1>4. Progress(e, k, n)
  BY <1>1 DEF Progress, Sound, Past, Agreed, Copy
<1>5. Advance(e, P)
  BY <1>1, <1>4, OneAdvances
<1> HIDE DEF P
<1>6. Advance(e, AbortUnest(P)) /\ \A m \in Message : Backed(m, P) => Backed(m, AbortUnest(P))
  BY <1>5, AbortAdvance
<1>7. \A j \in 1 .. Len(msgs) : Backed(msgs[j], P) /\ Backed(msgs[j], AbortUnest(P))
  <2> SUFFICES ASSUME NEW j \in 1 .. Len(msgs) PROVE Backed(msgs[j], P)
    BY <1>6, ElementOfSeq
  <2>1. k = <<k[1], k[2]>>
    BY Mirrored
  <2>2. CASE msgs[j] = Prepared(k[1], k[2])
    <3>1. msgs[j].cmd = "PREPARED" /\ <<msgs[j].dir, msgs[j].id>> = k
      BY <2>1, <2>2 DEF Prepared
    <3> QED BY <3>1, <1>1, <1>3 DEF Backed, Past, Agreed
  <2>3. CASE k[1] = "IN" /\ msgs[j] = Verdict(k[2], "ACCEPTED")
    <3>1. msgs[j].cmd = "VERDICT" /\ <<"IN", msgs[j].id>> = k
      BY <2>1, <2>3 DEF Verdict
    <3> QED BY <3>1, <1>1, <1>3 DEF Backed
  <2> QED BY <2>2, <2>3
<1> QED BY <1>2, <1>5, <1>6, <1>7, SendStep

\* The contents of the channels before and after taking a command serve as
\* the c of a send.
LEMMA Channels ==
    ASSUME Inv, NEW e \in Node
    PROVE  /\ chan \in [Node -> Seq(Message)]
           /\ \A j \in 1 .. Len(chan[e]) : InFlight(chan[e][j], e)
           /\ due[e] > 0 =>
                 /\ chan[e] # <<>> /\ Head(chan[e]) \in Message
                 /\ InFlight(Head(chan[e]), e)
                 /\ Rest(e) \in [Node -> Seq(Message)]
                 /\ Rest(e)[Other(e)] = chan[Other(e)]
                 /\ Len(Rest(e)[e]) = Len(chan[e]) - 1
                 /\ \A j \in 1 .. Len(Rest(e)[e]) : InFlight(Rest(e)[e][j], e)
<1>1. /\ chan \in [Node -> Seq(Message)] /\ chan[e] \in Seq(Message)
      /\ due[e] \in Nat /\ due[e] <= Len(chan[e]) /\ Len(chan[e]) \in Nat
  BY LenProperties DEF Inv, TypeOK
<1>2. \A j \in 1 .. Len(chan[e]) : InFlight(chan[e][j], e)
  BY DEF InFlight
<1>3. ASSUME due[e] > 0
      PROVE  /\ chan[e] # <<>> /\ Head(chan[e]) \in Message
             /\ InFlight(Head(chan[e]), e)
             /\ Rest(e) \in [Node -> Seq(Message)]
             /\ Rest(e)[Other(e)] = chan[Other(e)]
             /\ Len(Rest(e)[e]) = Len(chan[e]) - 1
             /\ \A j \in 1 .. Len(Rest(e)[e]) : InFlight(Rest(e)[e][j], e)
  <2>1. chan[e] # <<>>
    BY <1>1, <1>3, EmptySeq
  <2>2. /\ Head(chan[e]) \in Message /\ Tail(chan[e]) \in Seq(Message)
        /\ Len(Tail(chan[e])) = Len(chan[e]) - 1
        /\ \A j \in 1 .. Len(Tail(chan[e])) : Tail(chan[e])[j] = chan[e][j + 1]
    BY <1>1, <2>1, HeadTailProperties
  <2>3. Head(chan[e]) = chan[e][1] /\ 1 \in 1 .. Len(chan[e])
    BY <1>1, <1>3, <2>1
  <2>4. /\ Rest(e) \in [Node -> Seq(Message)] /\ Rest(e)[e] = Tail(chan[e])
        /\ Rest(e)[Other(e)] = chan[Other(e)]
    BY <1>1, <2>2, Endpoints DEF Rest
  <2>5. \A j \in 1 .. Len(Rest(e)[e]) : InFlight(Rest(e)[e][j], e)
    <3> SUFFICES ASSUME NEW j \in 1 .. Len(Tail(chan[e]))
                 PROVE  InFlight(Tail(chan[e])[j], e)
      BY <2>4
    <3>1. j + 1 \in 1 .. Len(chan[e])
      BY <1>1, <2>2
    <3> QED BY <3>1, <2>2, <1>2
  <2> QED BY <1>2, <2>1, <2>2, <2>3, <2>4, <2>5
<1> QED BY <1>1, <1>2, <1>3

\* A step that changes one copy, sends nothing, and takes at most a command.
LEMMA CopyStep ==
    ASSUME Inv, NEW e \in Node, NEW k \in Key, NEW n \in Copy, Progress(e, k, n),
           \/ xfer' = xfer
           \/ xfer' = [xfer EXCEPT ![e] = [xfer[e] EXCEPT ![k] = n]],
           chan' = chan \/ (due[e] > 0 /\ chan' = Rest(e))
    PROVE  Step(e)
<1>1. Advance(e, xfer[e]) /\ Advance(e, [xfer[e] EXCEPT ![k] = n])
  BY OneAdvances
<1>2. chan' = chan \/ (chan[e] # <<>> /\ chan' = Rest(e))
  BY Channels
<1>3. xfer = [xfer EXCEPT ![e] = xfer[e]]
  BY DEF Inv, TypeOK
<1> QED BY <1>1, <1>2, <1>3, QuietStep

\* No backlog outgrows its channel when only the actor's may shrink.
LEMMA DueKept ==
    ASSUME Inv, NEW e \in Node, chan' \in [Node -> Seq(Message)],
           due' = [due EXCEPT ![e] = due'[e]],
           due'[e] \in Nat, due'[e] <= Len(chan'[e]),
           Len(chan'[Other(e)]) >= Len(chan[Other(e)])
    PROVE  due' \in [Node -> Nat] /\ \A f \in Node : due'[f] <= Len(chan'[f])
<1>1. due \in [Node -> Nat] /\ \A f \in Node : due[f] <= Len(chan[f])
  BY DEF Inv, TypeOK
<1>2. due' \in [Node -> Nat]
  BY <1>1
<1>3. ASSUME NEW f \in Node PROVE due'[f] <= Len(chan'[f])
  <2>1. CASE f = e
    BY <2>1
  <2>2. CASE f # e
    <3>1. f = Other(e) /\ due'[f] = due[f] /\ due[f] <= Len(chan[f]) /\ due[f] \in Nat
      BY <2>2, <1>1, Endpoints
    <3>2. Len(chan'[f]) \in Nat /\ Len(chan[f]) \in Nat
      BY LenProperties DEF Inv, TypeOK
    <3> QED BY <3>1, <3>2
  <2> QED BY <2>1, <2>2
<1> QED BY <1>2, <1>3

\* A send between two callbacks leaves the backlogs consistent.
LEMMA SendOthers ==
    ASSUME Inv, NEW e \in Node, Idle(e), Step(e),
           ctl' \in [Node -> {"ESTABLISHED", "CLOSED"}], faults' \in Nat,
           chan'[e] = chan[e], Len(chan'[Other(e)]) >= Len(chan[Other(e)]),
           UNCHANGED <<due, todo, dialled>>
    PROVE  OthersOK'
<1>1. chan' \in [Node -> Seq(Message)]
  BY DEF Step
<1>2. due = [due EXCEPT ![e] = due[e]] /\ due[e] \in Nat /\ due[e] <= Len(chan[e])
  BY DEF Inv, TypeOK
<1>3. due' \in [Node -> Nat] /\ \A f \in Node : due'[f] <= Len(chan'[f])
  BY <1>1, <1>2, DueKept
<1>4. todo \in [Node -> [n : Nat, meth : Method, local : BOOLEAN]] /\ dialled \subseteq Node \X Id
  BY DEF Inv, TypeOK
<1> QED BY <1>3, <1>4 DEF OthersOK

\* A step that leaves the channels and backlogs alone.
LEMMA QuietOthers ==
    ASSUME Inv, UNCHANGED <<ctl, chan, due, todo>>,
           dialled' \subseteq Node \X Id, faults' \in Nat
    PROVE  OthersOK'
<1>1. OthersOK
  BY DEF Inv, TypeOK, OthersOK
<1> QED BY <1>1 DEF OthersOK

\* Closing the control connection between two callbacks.
LEMMA CloseStep ==
    ASSUME Inv, NEW e \in Node, Idle(e), CtlConClose(e), faults' \in Nat,
           UNCHANGED <<due, todo, dialled>>
    PROVE  Step(e) /\ OthersOK'
<1>1. xfer[e] \in Table /\ \A k \in Key : Progress(e, k, xfer[e][k])
  BY DEF Inv, TypeOK, Table, AllSound, Progress
<1>2. Advance(e, xfer[e])
  BY <1>1 DEF Advance
<1>3. Advance(e, AbortUnest(xfer[e]))
  BY <1>2, AbortAdvance
<1>4. Step(e)
  BY <1>3, QuietStep DEF CtlConClose
<1>5. due = [due EXCEPT ![e] = due[e]] /\ due[e] = 0 /\ Len(<<>>) = 0
  BY DEF Inv, TypeOK, Idle
<1>6. chan'[e] = <<>> /\ chan'[Other(e)] = chan[Other(e)] /\ chan' \in [Node -> Seq(Message)]
  BY <1>4, Endpoints DEF CtlConClose, Inv, TypeOK, Step
<1>7. Len(chan'[Other(e)]) >= Len(chan[Other(e)])
  BY <1>6, Endpoints, LenProperties DEF Inv, TypeOK
<1>8. due' \in [Node -> Nat] /\ \A f \in Node : due'[f] <= Len(chan'[f])
  BY <1>5, <1>6, <1>7, DueKept
<1>9. ctl' \in [Node -> {"ESTABLISHED", "CLOSED"}]
  BY DEF CtlConClose, Inv, TypeOK
<1> QED BY <1>4, <1>8, <1>9 DEF OthersOK, Inv, TypeOK

\* Every copy may stay as it is or be aborted.
LEMMA OwnCopy ==
    ASSUME Inv, NEW e \in Node, NEW k \in Key
    PROVE  /\ xfer[e] \in Table /\ xfer[e][k] \in Copy /\ Sound(k[1], xfer[e][k])
           /\ Progress(e, k, xfer[e][k])
           /\ Abort(xfer[e][k]) \in Copy /\ Progress(e, k, Abort(xfer[e][k]))
<1>1. xfer[e] \in Table /\ xfer[e][k] \in Copy /\ Sound(k[1], xfer[e][k])
  BY DEF Inv, TypeOK, Table, AllSound
<1>2. Progress(e, k, xfer[e][k])
  BY <1>1 DEF Progress
<1> QED BY <1>1, <1>2, AbortFacts, AbortProgress

\* FILE-SUGGEST tells nothing that needs backing, so any table will do that
\* moves on to VERDICT_PENDING; it does so whatever becomes of the send.
LEMMA SuggestStep ==
    ASSUME Inv, NEW e \in Node, Idle(e) \/ todo[e].n > 0,
           NEW k \in Key, NEW n \in Copy, n.verdict = "PENDING",
           n.prepared => xfer[e][k].prepared,
           xfer[e][k].verdict = "PENDING", xfer[e][k].state \notin Ended \cup Past,
           NEW T \in Table, T = [xfer[e] EXCEPT ![k] = n], SendSuggest(e, k, T)
    PROVE  /\ Step(e)
           /\ ctl' \in [Node -> {"ESTABLISHED", "CLOSED"}] /\ faults' \in Nat
           /\ chan'[e] = chan[e] /\ Len(chan'[Other(e)]) >= Len(chan[Other(e)])
<1> DEFINE Await(U) == [U EXCEPT ![k].state = "VERDICT_PENDING"]
<1>1. xfer[e] \in Table /\ \A j \in Key : Progress(e, j, xfer[e][j])
  BY OwnCopy DEF Inv, TypeOK, Table
<1>2. ASSUME NEW U \in Table, U[k].verdict = "PENDING",
             U[k].prepared => xfer[e][k].prepared,
             \A j \in Key : j # k => Progress(e, j, U[j])
      PROVE  Advance(e, Await(U))
  <2> DEFINE u == [U[k] EXCEPT !.state = "VERDICT_PENDING"]
  <2>1. U[k] \in Copy /\ Await(U) = [U EXCEPT ![k] = u]
    BY <1>2 DEF Table
  <2>2. /\ u \in Copy /\ u.state = "VERDICT_PENDING" /\ u.verdict = "PENDING"
        /\ u.prepared => xfer[e][k].prepared
    BY <1>2, <2>1 DEF Copy, State
  <2> HIDE DEF u
  <2>3. Sound(k[1], u)
    BY <2>2 DEF Sound, Agreed
  <2>4. Progress(e, k, u)
    <3>1. u.prepared => \/ xfer[e][k].prepared
                       \/ InFlight(Prepared(Flip(k[1]), k[2]), e)
      BY <2>2
    <3>2. u.verdict = "PENDING"
      BY <2>2
    <3> QED BY <2>3, <3>1, <3>2 DEF Progress, Past
  <2> DEFINE V == [U EXCEPT ![k] = u]
  <2>5. V \in Table
    BY <2>2 DEF Table
  <2>6. ASSUME NEW j \in Key PROVE Progress(e, j, V[j])
    <3>1. CASE j = k
      <4>1. V[j] = u
        BY <3>1 DEF Table
      <4> HIDE DEF V
      <4> QED BY <4>1, <3>1, <2>4
    <3>2. CASE j # k
      <4>1. V[j] = U[j]
        BY <3>2 DEF Table
      <4> HIDE DEF V
      <4> QED BY <4>1, <3>2, <1>2
    <3> QED BY <3>1, <3>2
  <2> HIDE DEF V
  <2>7. Advance(e, V)
    BY <2>5, <2>6 DEF Advance
  <2> QED BY <2>1, <2>7 DEF V
<1>3. T[k] = n /\ \A j \in Key : j # k => T[j] = xfer[e][j]
  BY <1>1 DEF Table
<1>4. Advance(e, Await(T))
  BY <1>1, <1>2, <1>3
<1>5. Advance(e, Await(AbortUnest(T)))
  <2>1. AbortUnest(T) \in Table
    BY AbortUnestFacts
  <2>2. \A j \in Key : j # k => Progress(e, j, AbortUnest(T)[j])
    <3> SUFFICES ASSUME NEW j \in Key, j # k PROVE Progress(e, j, AbortUnest(T)[j])
      OBVIOUS
    <3>1. AbortUnest(T)[j] = xfer[e][j] \/ AbortUnest(T)[j] = Abort(xfer[e][j])
      BY <1>3, AbortUnestFacts
    <3> QED BY <3>1, OwnCopy
  <2>3. AbortUnest(T)[k].verdict = "PENDING" /\ AbortUnest(T)[k].prepared = n.prepared
    <3>1. AbortUnest(T)[k] = n \/ AbortUnest(T)[k] = [n EXCEPT !.state = "ABORTED"]
      <4>1. AbortUnest(T)[k] = T[k] \/ AbortUnest(T)[k] = Abort(T[k])
        BY AbortUnestFacts
      <4>2. Abort(n) = n \/ Abort(n) = [n EXCEPT !.state = "ABORTED"]
        BY AbortFacts
      <4> QED BY <4>1, <4>2, <1>3
    <3> QED BY <3>1 DEF Copy
  <2> QED BY <1>2, <2>1, <2>2, <2>3
<1>6. /\ k[2] \in Id /\ T[k].meth \in Method
      /\ Suggest(k[2], T[k].meth) \in Message
  BY <1>3, Mirrored, Messages DEF Copy, Dir
<1>7. /\ Send(e, chan, <<Suggest(k[2], T[k].meth)>>, Await(T), Await(AbortUnest(T)))
      /\ <<Suggest(k[2], T[k].meth)>> \in Seq(Message)
      /\ Len(<<Suggest(k[2], T[k].meth)>>) = 1
  BY <1>6 DEF SendSuggest
<1>8. \A U : Backed(Suggest(k[2], T[k].meth), U)
  BY DEF Backed, Suggest
<1> HIDE DEF Await
<1>9. \A j \in 1 .. Len(<<Suggest(k[2], T[k].meth)>>) :
         /\ Backed(<<Suggest(k[2], T[k].meth)>>[j], Await(T))
         /\ Backed(<<Suggest(k[2], T[k].meth)>>[j], Await(AbortUnest(T)))
  BY <1>7, <1>8
<1> QED BY <1>4, <1>5, <1>7, <1>9, Channels, SendStep

\* Preparing a transfer between two callbacks, at either end.
LEMMA IdlePrepare ==
    ASSUME Inv, NEW e \in Node, Idle(e), NEW k \in Key,
           xfer[e][k].state \in {"SETUP_PENDING", "ACTIVE_RESOLVE_SRC_IP",
                                "PASSIVE_RESOLVE_ACCEPT_IP"},
           NEW msgs,
           \/ /\ k[1] = "IN"
              /\ \/ msgs = <<Verdict(k[2], "ACCEPTED"), Prepared("IN", k[2])>>
                 \/ msgs = <<Prepared("IN", k[2]), Verdict(k[2], "ACCEPTED")>>
           \/ /\ k[1] = "OUT"
              /\ xfer[e][k].state = "PASSIVE_RESOLVE_ACCEPT_IP"
              /\ msgs = <<Prepared("OUT", k[2])>>,
           Prepare(e, chan, k, xfer[e], msgs),
           UNCHANGED <<due, todo, dialled>>
    PROVE  Step(e) /\ OthersOK'
<1>1. /\ Verdict(k[2], "ACCEPTED") \in Message
      /\ Prepared("IN", k[2]) \in Message /\ Prepared("OUT", k[2]) \in Message
  BY Mirrored, Messages DEF Dir, Method
<1>2. /\ msgs \in Seq(Message)
      /\ \A j \in 1 .. Len(msgs) :
            \/ msgs[j] = Prepared(k[1], k[2])
            \/ k[1] = "IN" /\ msgs[j] = Verdict(k[2], "ACCEPTED")
  <2>1. CASE k[1] = "IN" /\ msgs = <<Verdict(k[2], "ACCEPTED"), Prepared("IN", k[2])>>
    BY <1>1, <2>1
  <2>2. CASE k[1] = "IN" /\ msgs = <<Prepared("IN", k[2]), Verdict(k[2], "ACCEPTED")>>
    BY <1>1, <2>2
  <2>3. CASE k[1] = "OUT" /\ msgs = <<Prepared("OUT", k[2])>>
    BY <1>1, <2>3
  <2> QED BY <2>1, <2>2, <2>3
<1>3. /\ xfer[e][k].state \notin Ended
      /\ xfer[e][k].verdict # "DECLINED"
      /\ k[1] = "OUT" => xfer[e][k].verdict = "ACCEPTED"
  BY OwnCopy DEF Sound, Ended
<1>4. /\ Step(e)
      /\ ctl' \in [Node -> {"ESTABLISHED", "CLOSED"}] /\ faults' \in Nat
      /\ chan'[e] = chan[e] /\ Len(chan'[Other(e)]) >= Len(chan[Other(e)])
  <2>1. Len(chan[e]) >= Len(chan[e]) /\ chan[Other(e)] = chan[Other(e)]
    BY DEF Inv, TypeOK
  <2> QED BY <1>2, <1>3, <2>1, Channels, PrepareStep
<1> QED BY <1>4, SendOthers

-----------------------------------------------------------------------------
(* The actions.                                                            *)

\* Every user callback is a step.
LEMMA UserSteps ==
    ASSUME Inv, NEW e \in Node, User(e)
    PROVE  Step(e) /\ OthersOK'
<1>1. ASSUME NEW n \in 1 .. MaxBatch, NEW m \in Method, NEW l \in BOOLEAN,
             UISuggest(e, n, m, l)
      PROVE  Step(e) /\ OthersOK'
  <2>1. Step(e)
    <3>1. PICK i \in Id : TRUE
      BY <1>1 DEF UISuggest
    <3>2. <<"OUT", i>> \in Key
      BY DEF Key, Dir
    <3> QED BY <1>1, <3>2, OwnCopy, CopyStep DEF UISuggest
  <2>2. n \in Nat /\ [n |-> n, meth |-> m, local |-> l] \in [n : Nat, meth : Method, local : BOOLEAN]
    BY BoundsAssumption
  <2>3. OthersOK
    BY DEF Inv, TypeOK, OthersOK
  <2> QED BY <1>1, <2>1, <2>2, <2>3 DEF UISuggest, OthersOK
<1>2. ASSUME NEW i \in Id, NEW l \in BOOLEAN, UIAccept(e, i, l)
      PROVE  Step(e) /\ OthersOK'
  <2> DEFINE k == <<"IN", i>>
             c == xfer[e][k]
  <2>1. /\ k \in Key /\ k[1] = "IN" /\ k[2] = i /\ c \in Copy /\ xfer[e] \in Table
        /\ xfer \in [Node -> Table]
        /\ c.state = "SETUP_PENDING" /\ Sound("IN", c) /\ Idle(e)
    BY <1>2, OwnCopy DEF UIAccept, Key, Dir, Inv, TypeOK, Table
  <2>2. c.verdict = "PENDING"
    BY <2>1 DEF Sound
  <2> HIDE DEF k
  <2>3. ASSUME NEW n \in Copy, n.verdict = "PENDING", n.prepared = c.prepared,
               n.state \in {"ACTIVE_RESOLVE_SRC_IP", "PASSIVE_RESOLVE_ACCEPT_IP"},
               xfer' = [xfer EXCEPT ![e] = [xfer[e] EXCEPT ![k] = n]],
               UNCHANGED <<ctl, chan, faults>>
        PROVE  Step(e) /\ OthersOK'
    <3>1. Progress(e, k, n)
      BY <2>1, <2>2, <2>3 DEF Progress, Sound, Ended, Past, Agreed
    <3>2. Step(e)
      BY <2>1, <2>3, <3>1, CopyStep
    <3>3. UNCHANGED <<due, todo, dialled>>
      BY <1>2 DEF UIAccept
    <3> QED BY <2>3, <3>2, <3>3, QuietOthers DEF Inv, TypeOK
  <2>4. CASE /\ xfer' = [xfer EXCEPT ![e][k].state = "ACTIVE_RESOLVE_SRC_IP",
                                     ![e][k].dcon = "RESOLVE_SRC_IP"]
             /\ UNCHANGED <<ctl, chan, faults>>
    <3> DEFINE n == [c EXCEPT !.state = "ACTIVE_RESOLVE_SRC_IP", !.dcon = "RESOLVE_SRC_IP"]
    <3>1. xfer' = [xfer EXCEPT ![e] = [xfer[e] EXCEPT ![k] = n]]
      BY <2>1, <2>4 DEF Table, Copy
    <3>2. /\ n \in Copy /\ n.verdict = "PENDING" /\ n.prepared = c.prepared
          /\ n.state = "ACTIVE_RESOLVE_SRC_IP"
      BY <2>1, <2>2 DEF Copy, State
    <3> QED BY <2>3, <2>4, <3>1, <3>2
  <2>5. CASE /\ xfer' = [xfer EXCEPT ![e][k].state = "PASSIVE_RESOLVE_ACCEPT_IP",
                                     ![e][k].local = TRUE,
                                     ![e][k].accept = "RESOLVE_IP"]
             /\ UNCHANGED <<ctl, chan, faults>>
    <3> DEFINE n == [c EXCEPT !.state = "PASSIVE_RESOLVE_ACCEPT_IP", !.local = TRUE,
                              !.accept = "RESOLVE_IP"]
    <3>1. xfer' = [xfer EXCEPT ![e] = [xfer[e] EXCEPT ![k] = n]]
      BY <2>1, <2>5 DEF Table, Copy
    <3>2. /\ n \in Copy /\ n.verdict = "PENDING" /\ n.prepared = c.prepared
          /\ n.state = "PASSIVE_RESOLVE_ACCEPT_IP"
      BY <2>1, <2>2 DEF Copy, State
    <3> QED BY <2>3, <2>5, <3>1, <3>2
  <2>6. CASE Prepare(e, chan, k, xfer[e], <<Prepared("IN", i), Verdict(i, "ACCEPTED")>>)
    <3>1. UNCHANGED <<due, todo, dialled>>
      BY <1>2 DEF UIAccept
    <3> QED BY <2>1, <2>6, <3>1, IdlePrepare
  <2> QED BY <1>2, <2>4, <2>5, <2>6 DEF UIAccept, k
<1>3. ASSUME NEW i \in Id, UIDecline(e, i)
      PROVE  Step(e) /\ OthersOK'
  <2> DEFINE k == <<"IN", i>>
             c == xfer[e][k]
             n == [c EXCEPT !.state = "ABORTED", !.verdict = "DECLINED"]
             D == [xfer[e] EXCEPT ![k] = n]
             msgs == <<Verdict(i, "DECLINED")>>
  <2>1. /\ k \in Key /\ k[1] = "IN" /\ c \in Copy /\ xfer[e] \in Table
        /\ c.state = "SETUP_PENDING" /\ Sound("IN", c) /\ Idle(e)
    BY <1>3, OwnCopy DEF UIDecline, Key, Dir
  <2>2. c.verdict = "PENDING"
    BY <2>1 DEF Sound
  <2>3. Send(e, chan, msgs, D, AbortUnest(D))
    <3>1. D = [xfer[e] EXCEPT ![k].state = "ABORTED", ![k].verdict = "DECLINED"]
      BY <2>1 DEF Table, Copy
    <3> QED BY <1>3, <3>1 DEF UIDecline
  <2>4. n \in Copy /\ n.state = "ABORTED" /\ n.verdict = "DECLINED" /\ n.prepared = c.prepared
    BY <2>1 DEF Copy, State
  <2> HIDE DEF k, n
  <2>5. Progress(e, k, n)
    BY <2>1, <2>2, <2>4 DEF Progress, Sound, Ended, Past, Agreed
  <2>6. Advance(e, D)
    BY <2>1, <2>4, <2>5, OneAdvances
  <2> HIDE DEF D
  <2>7. Advance(e, AbortUnest(D))
    BY <2>6, AbortAdvance
  <2>8. msgs \in Seq(Message) /\ Len(msgs) = 1 /\ \A U : \A j \in 1 .. 1 : Backed(msgs[j], U)
    <3>1. Verdict(i, "DECLINED") \in Message /\ \A U : Backed(Verdict(i, "DECLINED"), U)
      BY Messages DEF Dir, Method, Backed, Verdict
    <3> QED BY <3>1
  <2> HIDE DEF msgs
  <2>9. /\ Step(e)
        /\ ctl' \in [Node -> {"ESTABLISHED", "CLOSED"}] /\ faults' \in Nat
        /\ chan'[e] = chan[e] /\ Len(chan'[Other(e)]) >= Len(chan[Other(e)])
    BY <2>3, <2>6, <2>7, <2>8, Channels, SendStep
  <2> QED BY <1>3, <2>1, <2>9, SendOthers DEF UIDecline
<1>4. ASSUME NEW k \in Key, UIAbort(e, k)
      PROVE  Step(e) /\ OthersOK'
  <2>1. xfer' = [xfer EXCEPT ![e] = [xfer[e] EXCEPT ![k] = Abort(xfer[e][k])]]
    BY <1>4 DEF UIAbort
  <2> QED BY <1>4, <2>1, OwnCopy, CopyStep, QuietOthers DEF UIAbort, Inv, TypeOK
<1>5. CASE UIDisconnect(e)
  BY <1>5, CloseStep DEF UIDisconnect, Inv, TypeOK
<1> QED BY <1>1, <1>2, <1>3, <1>4, <1>5 DEF User

\* Every pass of the suggest loop is a step.
LEMMA SuggestFileSteps ==
    ASSUME Inv, NEW e \in Node, SuggestFile(e)
    PROVE  Step(e) /\ OthersOK'
<1> DEFINE New == [NoCopy EXCEPT !.state = "SETUP_PENDING", !.meth = todo[e].meth,
                                 !.local = todo[e].local]
<1>1. PICK i \in Id :
        LET k == <<"OUT", i>>
        IN  /\ IsNextId(xfer[e], i)
            /\ \/ /\ todo[e].meth = "PASSIVE"
                  /\ SendSuggest(e, k, [xfer[e] EXCEPT ![k] = New])
               \/ /\ todo[e].meth = "ACTIVE"
                  /\ xfer' = [xfer EXCEPT ![e][k] =
                                [New EXCEPT !.state = "ACTIVE_RESOLVE_SRC_IP",
                                            !.dcon = "RESOLVE_SRC_IP"]]
                  /\ UNCHANGED <<ctl, chan, faults>>
  BY DEF SuggestFile
<1> DEFINE k == <<"OUT", i>>
           n == [New EXCEPT !.state = "ACTIVE_RESOLVE_SRC_IP", !.dcon = "RESOLVE_SRC_IP"]
<1>2. /\ todo[e] \in [n : Nat, meth : Method, local : BOOLEAN] /\ todo[e].n > 0
      /\ todo' = [todo EXCEPT ![e] = Shorter(todo[e])]
      /\ UNCHANGED <<due, dialled>>
  BY DEF Inv, TypeOK, SuggestFile
<1>3. todo' \in [Node -> [n : Nat, meth : Method, local : BOOLEAN]]
  <2>1. NoLoop \in [n : Nat, meth : Method, local : BOOLEAN]
    BY DEF NoLoop, Method
  <2>2. [todo[e] EXCEPT !.n = todo[e].n - 1] \in [n : Nat, meth : Method, local : BOOLEAN]
    BY <1>2
  <2>3. todo \in [Node -> [n : Nat, meth : Method, local : BOOLEAN]]
    BY DEF Inv, TypeOK
  <2>4. Shorter(todo[e]) \in [n : Nat, meth : Method, local : BOOLEAN]
    BY <2>1, <2>2 DEF Shorter
  <2> QED BY <1>2, <2>3, <2>4
<1>4. /\ k \in Key /\ xfer[e] \in Table /\ xfer \in [Node -> Table]
      /\ xfer[e][k].state = "NONE" /\ xfer[e][k].verdict = "PENDING"
  <2>1. k \in Key
    BY DEF Key, Dir
  <2>2. xfer[e] \in Table /\ xfer[e][k] \in Copy /\ Sound(k[1], xfer[e][k])
    BY <2>1, OwnCopy
  <2>3. xfer[e][k].state = "NONE"
    <3>1. i \in Nat
      BY BoundsAssumption DEF Id
    <3> QED BY <1>1, <3>1 DEF IsNextId
  <2>4. xfer \in [Node -> Table]
    BY DEF Inv, TypeOK, Table
  <2> HIDE DEF k
  <2> QED BY <2>1, <2>2, <2>3, <2>4 DEF Sound
<1>5. /\ New \in Copy /\ New.verdict = "PENDING" /\ ~New.prepared
  BY <1>2 DEF NoCopy, Copy, State
<1>6. n \in Copy /\ n.verdict = "PENDING" /\ ~n.prepared /\ n.state = "ACTIVE_RESOLVE_SRC_IP"
  BY <1>5 DEF Copy, State
<1>7. CASE SendSuggest(e, k, [xfer[e] EXCEPT ![k] = New])
  <2> DEFINE T == [xfer[e] EXCEPT ![k] = New]
  <2>1. T \in Table
    BY <1>4, <1>5 DEF Table
  <2> HIDE DEF k, New
  <2>2. /\ Step(e)
        /\ ctl' \in [Node -> {"ESTABLISHED", "CLOSED"}] /\ faults' \in Nat
        /\ chan'[e] = chan[e] /\ Len(chan'[Other(e)]) >= Len(chan[Other(e)])
    BY <1>2, <1>4, <1>5, <1>7, <2>1, SuggestStep DEF Ended, Past, Agreed
  <2>3. due' \in [Node -> Nat] /\ \A f \in Node : due'[f] <= Len(chan'[f])
    <3>1. due = [due EXCEPT ![e] = due[e]] /\ due[e] \in Nat /\ due[e] <= Len(chan[e])
      BY DEF Inv, TypeOK
    <3> QED BY <1>2, <2>2, <3>1, DueKept DEF Step
  <2> QED BY <1>2, <1>3, <2>2, <2>3 DEF OthersOK, Inv, TypeOK
<1>8. CASE xfer' = [xfer EXCEPT ![e][k] = n] /\ UNCHANGED <<ctl, chan, faults>>
  <2>1. xfer' = [xfer EXCEPT ![e] = [xfer[e] EXCEPT ![k] = n]]
    BY <1>8
  <2> HIDE DEF k, n
  <2>2. Progress(e, k, n)
    BY <1>4, <1>6 DEF Progress, Sound, Ended, Past, Agreed
  <2>3. Step(e)
    BY <1>4, <1>6, <1>8, <2>1, <2>2, CopyStep
  <2> QED BY <1>2, <1>3, <1>8, <2>3 DEF OthersOK, Inv, TypeOK
<1> QED BY <1>1, <1>7, <1>8

\* Every case of handle_data_transfer_state is a step.
LEMMA TransferSteps ==
    ASSUME Inv, NEW e \in Node, NEW k \in Key, Transfer(e, k)
    PROVE  Step(e) /\ OthersOK'
<1> DEFINE c == xfer[e][k]
<1>1. /\ c \in Copy /\ Sound(k[1], c) /\ xfer[e] \in Table /\ xfer \in [Node -> Table]
      /\ k[1] \in Dir
  BY OwnCopy, Mirrored DEF Inv, TypeOK, Table
<1>2. CASE SourceResolved(e, k)
  <2>1. Idle(e) /\ c.state = "ACTIVE_RESOLVE_SRC_IP" /\ UNCHANGED <<due, todo, dialled>>
    BY <1>2 DEF SourceResolved
  <2>2. CASE /\ k[1] = "IN"
             /\ Prepare(e, chan, k, xfer[e],
                        <<Verdict(k[2], "ACCEPTED"), Prepared("IN", k[2])>>)
    BY <2>1, <2>2, IdlePrepare
  <2>3. CASE k[1] = "OUT" /\ SendSuggest(e, k, xfer[e])
    <3>1. xfer[e] = [xfer[e] EXCEPT ![k] = c] /\ c.verdict = "PENDING"
      BY <1>1, <2>1 DEF Table, Sound
    <3>2. c.state \notin Ended \cup Past
      BY <2>1 DEF Ended, Past, Agreed
    <3>3. /\ Step(e)
          /\ ctl' \in [Node -> {"ESTABLISHED", "CLOSED"}] /\ faults' \in Nat
          /\ chan'[e] = chan[e] /\ Len(chan'[Other(e)]) >= Len(chan[Other(e)])
      BY <1>1, <2>1, <2>3, <3>1, <3>2, SuggestStep
    <3> QED BY <2>1, <3>3, SendOthers
  <2> QED BY <1>2, <2>2, <2>3 DEF SourceResolved
<1>3. CASE SourceFailed(e, k)
  <2>1. xfer' = [xfer EXCEPT ![e] = [xfer[e] EXCEPT ![k] = Abort(c)]]
    BY <1>3 DEF SourceFailed
  <2> QED BY <1>3, <2>1, OwnCopy, CopyStep, QuietOthers DEF SourceFailed, Inv, TypeOK
<1>4. CASE AcceptResolved(e, k)
  BY <1>4, IdlePrepare DEF AcceptResolved
<1>5. CASE AcceptFailed(e, k)
  <2> DEFINE n == [Abort(c) EXCEPT !.accept = "DELETE"]
  <2>1. xfer' = [xfer EXCEPT ![e] = [xfer[e] EXCEPT ![k] = n]]
    BY <1>5 DEF AcceptFailed
  <2>2. Abort(c) \in Copy /\ Progress(e, k, Abort(c))
    BY OwnCopy
  <2>3. /\ n \in Copy /\ n.state = Abort(c).state /\ n.verdict = Abort(c).verdict
        /\ n.prepared = Abort(c).prepared
    BY <2>2 DEF Copy
  <2> HIDE DEF n
  <2>4. Progress(e, k, n)
    BY <2>2, <2>3 DEF Progress, Sound
  <2> QED BY <1>5, <2>1, <2>3, <2>4, CopyStep, QuietOthers DEF AcceptFailed, Inv, TypeOK
<1>6. CASE StartTransfer(e, k)
  <2> DEFINE n == [c EXCEPT !.state = "TRANSFERING",
                            !.dcon = IF c.meth = "ACTIVE" THEN "CONNECTING" ELSE @]
  <2>1. xfer' = [xfer EXCEPT ![e] = [xfer[e] EXCEPT ![k] = n]]
    BY <1>1, <1>6 DEF StartTransfer, Table, Copy
  <2>2. /\ n \in Copy /\ n.state = "TRANSFERING" /\ n.verdict = c.verdict
        /\ n.prepared = c.prepared
    BY <1>1 DEF Copy, State
  <2>3. c.prepared /\ c.state = "PREPARATION_PENDING" /\ c.verdict = "ACCEPTED"
    BY <1>1, <1>6 DEF StartTransfer, Sound, Agreed
  <2> HIDE DEF n
  <2>4. Progress(e, k, n)
    BY <2>2, <2>3 DEF Progress, Sound, Ended, Past, Agreed
  <2> QED BY <1>6, <2>1, <2>2, <2>4, CopyStep, QuietOthers DEF StartTransfer, Inv, TypeOK
<1>7. CASE EndTransfer(e, k)
  <2>1. PICK s \in Ended, d \in {"CLOSED", "ESTABLISHED"} :
          xfer' = [xfer EXCEPT ![e][k].state = s, ![e][k].dcon = d]
    BY <1>7 DEF EndTransfer
  <2> DEFINE n == [c EXCEPT !.state = s, !.dcon = d]
  <2>2. xfer' = [xfer EXCEPT ![e] = [xfer[e] EXCEPT ![k] = n]]
    BY <1>1, <2>1 DEF Table, Copy
  <2>3. /\ n \in Copy /\ n.state = s /\ n.verdict = c.verdict
        /\ n.prepared = c.prepared
    BY <1>1 DEF Copy, State, Ended
  <2>4. c.prepared /\ c.state = "TRANSFERING" /\ c.verdict = "ACCEPTED"
    BY <1>1, <1>7 DEF EndTransfer, Sound, Agreed
  <2> HIDE DEF n
  <2>5. Progress(e, k, n)
    BY <2>3, <2>4 DEF Progress, Sound, Ended, Past, Agreed
  <2> QED BY <1>7, <2>2, <2>3, <2>5, CopyStep, QuietOthers DEF EndTransfer, Inv, TypeOK
<1> QED BY <1>2, <1>3, <1>4, <1>5, <1>6, <1>7 DEF Transfer

\* Connections and accept entries do not touch what a copy says.
LEMMA ConnectionSteps ==
    ASSUME Inv, NEW e \in Node, NEW k \in Key, Connection(e, k)
    PROVE  Step(e) /\ OthersOK'
<1> DEFINE c == xfer[e][k]
<1>1. /\ c \in Copy /\ Progress(e, k, c) /\ xfer[e] \in Table /\ xfer \in [Node -> Table]
      /\ dialled \subseteq Node \X Id /\ Tid(e, k) \in Node \X Id
  <2>1. Tid(e, k) \in Node \X Id
    BY Mirrored, Endpoints DEF Tid
  <2> QED BY <2>1, OwnCopy DEF Inv, TypeOK, Table
<1>2. /\ UNCHANGED <<ctl, chan, due, todo>>
      /\ faults' = faults \/ (faults < MaxFaults /\ faults' = faults + 1)
      /\ dialled' \subseteq Node \X Id
  BY <1>1 DEF Connection, ConResolveSource, ConConnect, AcceptResolve, ServerHandleCon
<1>3. faults' \in Nat
  <2>1. faults \in Nat
    BY DEF Inv, TypeOK
  <2> QED BY <1>2, <2>1
<1> SUFFICES Step(e)
  BY <1>2, <1>3, QuietOthers
<1>4. ASSUME NEW d \in {"CLOSED", "RESOLVED_SRC_IP", "ESTABLISHED"},
             NEW a \in {"NONE", "RESOLVE_IP", "RESOLVED", "ERROR", "DELETE"},
             xfer' = [xfer EXCEPT ![e] = [xfer[e] EXCEPT ![k] =
                                            [c EXCEPT !.dcon = d, !.accept = a]]]
      PROVE  Step(e)
  <2> DEFINE n == [c EXCEPT !.dcon = d, !.accept = a]
  <2>1. /\ n \in Copy /\ n.state = c.state /\ n.verdict = c.verdict /\ n.prepared = c.prepared
    BY <1>1 DEF Copy
  <2>2. xfer' = [xfer EXCEPT ![e] = [xfer[e] EXCEPT ![k] = n]]
    BY <1>4
  <2> HIDE DEF n
  <2>3. Progress(e, k, n)
    BY <1>1, <2>1 DEF Progress, Sound
  <2> QED BY <1>2, <2>1, <2>2, <2>3, CopyStep
<1>5. ASSUME NEW d \in {"CLOSED", "RESOLVED_SRC_IP", "ESTABLISHED"},
             xfer' = [xfer EXCEPT ![e][k].dcon = d]
      PROVE  Step(e)
  <2>1. [c EXCEPT !.dcon = d] = [c EXCEPT !.dcon = d, !.accept = c.accept]
    BY <1>1 DEF Copy
  <2>2. xfer' = [xfer EXCEPT ![e] = [xfer[e] EXCEPT ![k] = [c EXCEPT !.dcon = d]]]
    BY <1>5
  <2>3. c.accept \in {"NONE", "RESOLVE_IP", "RESOLVED", "ERROR", "DELETE"}
    BY <1>1 DEF Copy
  <2> QED BY <1>4, <2>1, <2>2, <2>3
<1>6. ASSUME NEW a \in {"RESOLVED", "ERROR"}, xfer' = [xfer EXCEPT ![e][k].accept = a]
      PROVE  Step(e)
  <2> DEFINE n == [c EXCEPT !.accept = a]
  <2>1. /\ n \in Copy /\ n.state = c.state /\ n.verdict = c.verdict /\ n.prepared = c.prepared
    BY <1>1 DEF Copy
  <2>2. xfer' = [xfer EXCEPT ![e] = [xfer[e] EXCEPT ![k] = n]]
    BY <1>6
  <2> HIDE DEF n
  <2>3. Progress(e, k, n)
    BY <1>1, <2>1 DEF Progress, Sound
  <2> QED BY <1>2, <2>1, <2>2, <2>3, CopyStep
<1>7. CASE ConResolveSource(e, k)
  BY <1>5, <1>7 DEF ConResolveSource
<1>8. CASE ConConnect(e, k)
  BY <1>5, <1>8 DEF ConConnect
<1>9. CASE AcceptResolve(e, k)
  BY <1>6, <1>9 DEF AcceptResolve
<1>10. CASE ServerHandleCon(e, k)
  <2>1. CASE xfer' = [xfer EXCEPT ![e][k].accept = "DELETE", ![e][k].dcon = "ESTABLISHED"]
    <3>1. xfer' = [xfer EXCEPT ![e] = [xfer[e] EXCEPT ![k] =
                     [c EXCEPT !.dcon = "ESTABLISHED", !.accept = "DELETE"]]]
      BY <1>1, <2>1 DEF Table, Copy
    <3> QED BY <1>4, <3>1
  <2>2. CASE xfer' = xfer
    BY <1>1, <1>2, <2>2, CopyStep
  <2> QED BY <1>10, <2>1, <2>2 DEF ServerHandleCon
<1> QED BY <1>7, <1>8, <1>9, <1>10 DEF Connection

\* Reading or closing the control connection is a step.
LEMMA CtlSteps ==
    ASSUME Inv, NEW e \in Node, CtlRecv(e) \/ CtlRecvClosed(e)
    PROVE  Step(e) /\ OthersOK'
<1>1. CASE CtlRecv(e)
  <2>1. PICK n \in 1 .. Len(chan[e]) : due' = [due EXCEPT ![e] = n]
    BY <1>1 DEF CtlRecv
  <2>2. /\ UNCHANGED <<ctl, xfer, chan, todo, dialled, faults>>
        /\ chan \in [Node -> Seq(Message)] /\ due \in [Node -> Nat]
    BY <1>1 DEF CtlRecv, Inv, TypeOK
  <2>3. Len(chan[e]) \in Nat /\ Len(chan[Other(e)]) \in Nat
    BY <2>2, Endpoints, LenProperties
  <2>4. due'[e] = n /\ n \in Nat /\ n <= Len(chan[e])
    BY <2>1, <2>2, <2>3
  <2>5. due' \in [Node -> Nat] /\ \A f \in Node : due'[f] <= Len(chan'[f])
    <3>1. chan' \in [Node -> Seq(Message)] /\ chan' = chan
      BY <2>2
    <3>2. due' = [due EXCEPT ![e] = due'[e]]
      BY <2>1, <2>4
    <3>3. due'[e] \in Nat /\ due'[e] <= Len(chan'[e])
      BY <2>4, <3>1
    <3>4. Len(chan'[Other(e)]) >= Len(chan[Other(e)])
      BY <2>3, <3>1
    <3> QED BY <3>1, <3>2, <3>3, <3>4, DueKept
  <2>6. Step(e)
    <3>1. xfer = [xfer EXCEPT ![e] = xfer[e]]
      BY DEF Inv, TypeOK
    <3>2. Advance(e, xfer[e])
      BY OwnCopy DEF Advance, Inv, TypeOK, Table
    <3> QED BY <2>2, <3>1, <3>2, QuietStep
  <2> QED BY <2>2, <2>5, <2>6 DEF OthersOK, Inv, TypeOK
<1>2. CASE CtlRecvClosed(e)
  <2>1. faults' \in Nat
    BY <1>2 DEF CtlRecvClosed, Charge, Inv, TypeOK
  <2> QED BY <1>2, <2>1, CloseStep DEF CtlRecvClosed
<1> QED BY <1>1, <1>2

\* Processing a command is a step, and it learns only what the command says.
LEMMA CommandSteps ==
    ASSUME Inv, NEW e \in Node, Command(e)
    PROVE  Step(e) /\ OthersOK'
<1> DEFINE m == Head(chan[e])
<1>1. /\ due[e] > 0 /\ due' = [due EXCEPT ![e] = due[e] - 1]
      /\ UNCHANGED <<todo, dialled>>
  BY DEF Command, ProcessSuggest, ProcessVerdict, ProcessPrepared, Take
<1>2. /\ m \in Message /\ InFlight(m, e)
      /\ Rest(e) \in [Node -> Seq(Message)]
      /\ Rest(e)[Other(e)] = chan[Other(e)]
      /\ Len(Rest(e)[e]) = Len(chan[e]) - 1
      /\ \A j \in 1 .. Len(Rest(e)[e]) : InFlight(Rest(e)[e][j], e)
  BY <1>1, Channels
<1>3. /\ xfer \in [Node -> Table] /\ xfer[e] \in Table
      /\ due[e] \in Nat /\ due[e] <= Len(chan[e]) /\ due' \in [Node -> Nat]
      /\ due'[e] = due[e] - 1
      /\ Len(chan[e]) \in Nat /\ Len(chan[Other(e)]) \in Nat
  BY <1>1, Endpoints, LenProperties DEF Inv, TypeOK, Table
<1>4. ASSUME Step(e), ctl' \in [Node -> {"ESTABLISHED", "CLOSED"}], faults' \in Nat,
             chan'[e] = Rest(e)[e], Len(chan'[Other(e)]) >= Len(chan[Other(e)])
      PROVE  Step(e) /\ OthersOK'
  <2>1. due' = [due EXCEPT ![e] = due'[e]] /\ due'[e] \in Nat /\ due'[e] <= Len(chan'[e])
    BY <1>1, <1>2, <1>3, <1>4
  <2>2. due' \in [Node -> Nat] /\ \A f \in Node : due'[f] <= Len(chan'[f])
    BY <1>4, <2>1, DueKept DEF Step
  <2> QED BY <1>1, <1>4, <2>2 DEF OthersOK, Inv, TypeOK
<1>5. ASSUME NEW k \in Key, NEW n \in Copy, Progress(e, k, n),
             xfer' = xfer \/ xfer' = [xfer EXCEPT ![e] = [xfer[e] EXCEPT ![k] = n]],
             chan' = Rest(e), UNCHANGED <<ctl, faults>>
      PROVE  Step(e) /\ OthersOK'
  <2>1. Step(e)
    BY <1>1, <1>5, CopyStep
  <2>2. chan'[e] = Rest(e)[e] /\ Len(chan'[Other(e)]) >= Len(chan[Other(e)])
    BY <1>2, <1>3, <1>5
  <2> QED BY <1>4, <1>5, <2>1, <2>2 DEF Inv, TypeOK
<1>6. CASE ProcessSuggest(e)
  <2> DEFINE k == <<"IN", m.id>>
             c == xfer[e][k]
             n == [NoCopy EXCEPT !.state = "SETUP_PENDING", !.meth = Opposite(m.meth)]
  <2>1. /\ k \in Key /\ c \in Copy /\ Progress(e, k, c) /\ Sound(k[1], c)
    BY <1>2, Fields, OwnCopy DEF Key, Dir
  <2>2. n \in Copy /\ n.state = "SETUP_PENDING" /\ n.verdict = "PENDING" /\ ~n.prepared
    BY DEF NoCopy, Copy, State, Opposite, Method
  <2>3. chan' = Rest(e) /\ UNCHANGED <<ctl, faults>>
    BY <1>6 DEF ProcessSuggest
  <2>4. CASE c.state # "NONE"
    <3>1. xfer' = xfer
      BY <1>6, <2>4 DEF ProcessSuggest
    <3> QED BY <1>5, <2>1, <2>3, <3>1
  <2>5. CASE c.state = "NONE"
    <3>1. xfer' = [xfer EXCEPT ![e] = [xfer[e] EXCEPT ![k] = n]]
      BY <1>6, <2>5 DEF ProcessSuggest
    <3>2. c.verdict = "PENDING"
      BY <2>1, <2>5 DEF Sound
    <3> HIDE DEF n, k
    <3>3. Progress(e, k, n)
      BY <2>2, <2>5, <3>2 DEF Progress, Sound, Ended, Past, Agreed
    <3> QED BY <1>5, <2>1, <2>2, <2>3, <3>1, <3>3
  <2> QED BY <2>4, <2>5
<1>7. CASE ProcessVerdict(e)
  <2> DEFINE k == <<"OUT", m.id>>
             c == xfer[e][k]
  <2>1. /\ k \in Key /\ k[1] = "OUT" /\ k[2] = m.id
        /\ c \in Copy /\ Progress(e, k, c) /\ Sound(k[1], c)
        /\ m.cmd = "VERDICT" /\ m = Verdict(m.id, m.ver)
    BY <1>2, <1>7, Fields, OwnCopy DEF Key, Dir, ProcessVerdict, Take
  <2> HIDE DEF m
  <2>2. CASE c.state # "VERDICT_PENDING"
    <3>1. xfer' = xfer /\ chan' = Rest(e) /\ UNCHANGED <<ctl, faults>>
      BY <1>7, <2>2 DEF ProcessVerdict, m
    <3> QED BY <1>5, <2>1, <3>1
  <2>3. CASE c.state = "VERDICT_PENDING"
    <3>1. c.verdict = "PENDING"
      BY <2>1, <2>3 DEF Sound
    <3> DEFINE n == [Abort(c) EXCEPT !.verdict = "DECLINED"]
               r == [c EXCEPT !.state = "PASSIVE_RESOLVE_ACCEPT_IP",
                              !.verdict = "ACCEPTED", !.accept = "RESOLVE_IP"]
    <3>2. CASE /\ xfer' = [xfer EXCEPT ![e][k] = n]
               /\ chan' = Rest(e) /\ UNCHANGED <<ctl, faults>>
      <4>1. Abort(c) = [c EXCEPT !.state = "ABORTED"]
        BY <2>3 DEF Abort, Ended
      <4>2. n \in Copy /\ n.state = "ABORTED" /\ n.verdict = "DECLINED" /\ n.prepared = c.prepared
        BY <2>1, <4>1 DEF Copy, State
      <4>3. xfer' = [xfer EXCEPT ![e] = [xfer[e] EXCEPT ![k] = n]]
        BY <3>2
      <4> HIDE DEF n, k
      <4>4. Progress(e, k, n)
        BY <2>3, <3>1, <4>2 DEF Progress, Sound, Ended, Past, Agreed
      <4> QED BY <1>5, <2>1, <3>2, <4>2, <4>3, <4>4
    <3>3. CASE /\ m.ver = "ACCEPTED"
               /\ xfer' = [xfer EXCEPT ![e][k].state = "PASSIVE_RESOLVE_ACCEPT_IP",
                                       ![e][k].verdict = "ACCEPTED",
                                       ![e][k].accept = "RESOLVE_IP"]
               /\ chan' = Rest(e) /\ UNCHANGED <<ctl, faults>>
      <4>1. r \in Copy /\ r.state = "PASSIVE_RESOLVE_ACCEPT_IP" /\ r.verdict = "ACCEPTED"
            /\ r.prepared = c.prepared
        BY <2>1 DEF Copy, State
      <4>2. xfer' = [xfer EXCEPT ![e] = [xfer[e] EXCEPT ![k] = r]]
        BY <1>3, <2>1, <3>3 DEF Table, Copy
      <4>3. InFlight(Verdict(k[2], "ACCEPTED"), e)
        BY <1>2, <2>1, <3>3
      <4> HIDE DEF r, k
      <4>4. Progress(e, k, r)
        BY <2>1, <2>3, <3>1, <4>1, <4>3 DEF Progress, Sound, Ended, Past, Agreed
      <4> QED BY <1>5, <2>1, <3>3, <4>1, <4>2, <4>4
    <3>4. CASE m.ver = "ACCEPTED" /\ Prepare(e, Rest(e), k, xfer[e], <<Prepared("OUT", m.id)>>)
      <4> DEFINE msgs == <<Prepared("OUT", m.id)>>
      <4>1. Prepared("OUT", m.id) \in Message /\ Prepared("OUT", m.id) = Prepared(k[1], k[2])
        BY <1>2, <2>1, Fields, Messages DEF Dir, Method, m
      <4>2. /\ msgs \in Seq(Message)
            /\ \A j \in 1 .. Len(msgs) : msgs[j] = Prepared(k[1], k[2])
        BY <4>1
      <4>3. InFlight(Verdict(k[2], "ACCEPTED"), e)
        BY <1>2, <2>1, <3>4
      <4>4. Prepare(e, Rest(e), k, xfer[e], msgs)
        BY <3>4
      <4> HIDE DEF msgs, k
      <4>5. c.state \notin Ended /\ c.verdict # "DECLINED"
        BY <2>3, <3>1 DEF Ended
      <4>6. /\ Step(e)
            /\ ctl' \in [Node -> {"ESTABLISHED", "CLOSED"}] /\ faults' \in Nat
            /\ chan'[e] = Rest(e)[e] /\ Len(chan'[Other(e)]) >= Len(chan[Other(e)])
        BY <1>2, <2>1, <4>2, <4>3, <4>4, <4>5, PrepareStep
      <4> QED BY <1>4, <4>6
    <3> QED BY <1>7, <2>3, <3>2, <3>3, <3>4 DEF ProcessVerdict, m
  <2> QED BY <2>2, <2>3
<1>8. CASE ProcessPrepared(e)
  <2> DEFINE k == <<Flip(m.dir), m.id>>
             c == xfer[e][k]
             n == [c EXCEPT !.prepared = TRUE]
  <2>1. /\ m.cmd = "PREPARED" /\ m = Prepared(m.dir, m.id)
        /\ k \in Key /\ k[2] = m.id /\ Flip(k[1]) = m.dir
    BY <1>2, <1>8, Fields DEF ProcessPrepared, Take, Key, Dir, Flip
  <2>2. c \in Copy /\ Progress(e, k, c) /\ Sound(k[1], c)
    BY <2>1, OwnCopy
  <2>3. n \in Copy /\ n.state = c.state /\ n.verdict = c.verdict /\ n.prepared
    BY <2>2 DEF Copy
  <2>4. chan' = Rest(e) /\ UNCHANGED <<ctl, faults>>
    BY <1>8 DEF ProcessPrepared
  <2>5. xfer' = xfer \/ xfer' = [xfer EXCEPT ![e] = [xfer[e] EXCEPT ![k] = n]]
    BY <1>8 DEF ProcessPrepared
  <2>6. InFlight(Prepared(Flip(k[1]), k[2]), e)
    BY <1>2, <2>1
  <2> HIDE DEF n, k
  <2>7. Progress(e, k, n)
    BY <2>2, <2>3, <2>6 DEF Progress, Sound
  <2> QED BY <1>5, <2>1, <2>3, <2>4, <2>5, <2>7
<1> QED BY <1>6, <1>7, <1>8 DEF Command

-----------------------------------------------------------------------------
(* The theorems.                                                           *)

\* The invariant is inductive, part one: nothing is believed or on its way
\* when the connection has just been made.
LEMMA InitInv == Init => Inv
<1> SUFFICES ASSUME Init PROVE Inv
  OBVIOUS
<1>1. NoCopy \in Copy /\ \A d \in Dir : Sound(d, NoCopy)
  BY DEF NoCopy, Copy, State, Method, Sound, Agreed
<1>2. /\ \A e \in Node, k \in Key : xfer[e][k] = NoCopy
      /\ \A e \in Node : chan[e] = <<>> /\ Len(chan[e]) = 0
  BY DEF Init
<1>3. TypeOK
  <2>1. NoLoop \in [n : Nat, meth : Method, local : BOOLEAN]
    BY DEF NoLoop, Method
  <2>2. todo \in [Node -> [n : Nat, meth : Method, local : BOOLEAN]]
    BY <2>1 DEF Init
  <2>3. xfer \in [Node -> [Key -> Copy]]
    BY <1>1 DEF Init
  <2>4. chan \in [Node -> Seq(Message)] /\ due \in [Node -> Nat]
    BY DEF Init
  <2>5. \A e \in Node : due[e] <= Len(chan[e])
    BY <1>2 DEF Init
  <2> QED BY <2>2, <2>3, <2>4, <2>5 DEF TypeOK, Init
<1>4. AllSound
  BY <1>1, <1>2, Mirrored DEF AllSound
<1>5. CommandsBacked
  BY <1>2 DEF CommandsBacked, InFlight
<1>6. BeliefsBacked
  BY <1>2 DEF BeliefsBacked, Copies, NoCopy
<1> QED BY <1>3, <1>4, <1>5, <1>6 DEF Inv

\* Part two: whatever happens is the step of one endpoint, and keeps it.
LEMMA NextStep ==
    ASSUME Inv, Next
    PROVE  Inv' /\ \E e \in Node : Step(e)
<1>1. PICK e \in Node : \/ User(e) \/ SuggestFile(e)
                        \/ \E k \in Key : Transfer(e, k) \/ Connection(e, k)
                        \/ CtlRecv(e) \/ CtlRecvClosed(e)
                        \/ Command(e)
  BY DEF Next
<1>2. Step(e) /\ OthersOK'
  BY <1>1, UserSteps, SuggestFileSteps, TransferSteps, ConnectionSteps, CtlSteps,
     CommandSteps
<1>3. TypeOK'
  BY <1>2 DEF Step, OthersOK, TypeOK, Table
<1> QED BY <1>2, <1>3, StepKeeps DEF Inv

\* The invariant holds of every behaviour.
THEOREM Invariance == Spec => []Inv
<1>1. Inv /\ [Next]_vars => Inv'
  <2>1. CASE Next
    BY <2>1, NextStep
  <2>2. CASE UNCHANGED vars
    BY <2>2 DEF vars, Inv, TypeOK, AllSound, CommandsBacked, BeliefsBacked, Copies,
                InFlight
  <2> QED BY <2>1, <2>2
<1> QED BY InitInv, <1>1, PTL DEF Spec

\* Variables keep their types; in particular no more commands are ever due
\* than have arrived (ctl_cmd_backlog is processed to its end).
THEOREM TypeCorrect == Spec => []TypeOK
BY Invariance, PTL DEF Inv

\* No transfer is prepared, moved or completed at the sending end without the
\* receiving user's acceptance, whatever is sent, lost, aborted or closed.
THEOREM ConsentHolds == Spec => []Consent
<1>1. Inv => Consent
  <2> SUFFICES ASSUME Inv, NEW e \in Node, NEW i \in Id,
                      xfer[e][<<"OUT", i>>].state \in Agreed
               PROVE  xfer[Other(e)][<<"IN", i>>].verdict = "ACCEPTED"
    BY DEF Consent
  <2> DEFINE k == <<"OUT", i>>
  <2>1. k \in Key /\ k[1] = "OUT" /\ Mirror(k) = <<"IN", i>>
    BY DEF Key, Dir, Mirror, Flip
  <2>2. xfer[e][k].verdict = "ACCEPTED"
    BY <2>1, OwnCopy DEF Sound
  <2> HIDE DEF k
  <2> QED BY <2>1, <2>2 DEF Inv, BeliefsBacked, Copies
<1> QED BY Invariance, <1>1, PTL

\* Data is moved only between ends that have both prepared the transfer.
THEOREM BothPreparedHolds == Spec => []BothPrepared
<1>1. Inv => BothPrepared
  <2> SUFFICES ASSUME Inv, NEW e \in Node, NEW k \in Key,
                      xfer[e][k].state \in {"TRANSFERING", "COMPLETED"}
               PROVE  xfer[Other(e)][Mirror(k)].state \in Past
    BY DEF BothPrepared, Copies, Past
  <2>1. xfer[e][k].prepared
    BY OwnCopy DEF Sound
  <2> QED BY <2>1 DEF Inv, BeliefsBacked, Copies
<1> QED BY Invariance, <1>1, PTL

\* Verdicts and ends are never revised, by whichever handler.
THEOREM FinalHolds == Spec => Final
<1> DEFINE Keep == \A e \in Node, k \in Key :
                     /\ xfer[e][k].verdict # "PENDING" =>
                           xfer'[e][k].verdict = xfer[e][k].verdict
                     /\ xfer[e][k].state \in Ended =>
                           xfer'[e][k].state = xfer[e][k].state
<1>1. Inv /\ [Next]_vars => [Keep]_vars
  <2> SUFFICES ASSUME Inv, Next PROVE Keep
    OBVIOUS
  <2>1. PICK e \in Node : Step(e)
    BY NextStep
  <2>2. ASSUME NEW f \in Node, NEW k \in Key
        PROVE  /\ xfer[f][k].verdict # "PENDING" =>
                     xfer'[f][k].verdict = xfer[f][k].verdict
               /\ xfer[f][k].state \in Ended => xfer'[f][k].state = xfer[f][k].state
    <3>1. CASE f = e
      BY <2>1, <3>1 DEF Step, Advance, Progress
    <3>2. CASE f # e
      BY <2>1, <3>2, Endpoints DEF Step
    <3> QED BY <3>1, <3>2
  <2> QED BY <2>2
<1> QED BY Invariance, <1>1, PTL DEF Spec, Final
=============================================================================
