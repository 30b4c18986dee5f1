-------------------------- MODULE ConMachineProofs --------------------------
(***************************************************************************)
(* What holds of a connection whatever its threads do, and what holds of   *)
(* it only because each thread begins before the main loop looks again.    *)
(***************************************************************************)
EXTENDS ConMachine, TLAPS

-----------------------------------------------------------------------------
(* The inductive invariants.                                               *)

\* The handler stops between its two reads only while it waits for a thread,
\* and nothing happens to a connection before it is opened.
LookedInStage == looked => state \in Stage

Unopened ==
    ~opened =>
        /\ state = "CLOSED" /\ ~offered /\ ~looked
        /\ version = 0
        /\ \A w \in Stage : worker[w].at = "NONE"

\* These hold however late a thread begins.
Inv == TypeOK /\ LookedInStage /\ Unopened /\ OfferedIsUsable

\* A thread at work has withdrawn the report of the stage before, and once the
\* handler has looked no thread is at work.
Reports ==
    /\ \A w \in Stage : worker[w].at \in {"BEGUN", "BUSY"} => proc = "INCOMPLETE"
    /\ looked => \A w \in Stage : worker[w].at \notin Alive

\* The thread of the stage found that stage to work on, and what proc_state
\* says after its end is its own report.
Working(s) ==
    /\ worker[s].at # "NONE"
    /\ worker[s].at \in {"BUSY", "DONE", "FAILED"} => worker[s].job = s
    /\ worker[s].at = "DONE" => proc = "COMPLETE"
    /\ worker[s].at = "FAILED" => proc = "ERROR"

StageIsWorked == \A s \in Stage : state = s => Working(s)

\* What the stages leave behind: a connected socket, then a secure session.
Results ==
    /\ worker["SSL_VERIFY"] = [at |-> "DONE", job |-> "SSL_VERIFY"] => secure
    /\ state = "CONNECTING" /\ worker["CONNECTING"].at = "DONE" => sock = "CONNECTED"
    /\ state = "SSL_VERIFY" /\ worker["SSL_VERIFY"].at # "FAILED" => sock = "CONNECTED"

\* VERSION is sent on the way to ESTABLISHED and not before.
NotYetSent == state \notin {"ESTABLISHED", "CLOSED"} => version = 0

\* These need every thread to begin in time.
Paced == ThreadIsAwaited /\ Reports /\ StageIsWorked /\ Results /\ VersionOnce /\ NotYetSent

-----------------------------------------------------------------------------
(* One thread moves on.                                                    *)

Place == Alive \cup {"NONE", "DONE", "FAILED"}

\* Only the thread named is touched, and it keeps its job.
LEMMA Moved ==
    ASSUME TypeOK, NEW w \in Stage, NEW place \in Place,
           worker' = [worker EXCEPT ![w].at = place]
    PROVE  /\ worker' \in [Stage -> [at : Place, job : ConState]]
           /\ worker'[w].at = place /\ worker'[w].job = worker[w].job
           /\ \A v \in Stage \ {w} : worker'[v] = worker[v]
<1> USE DEF TypeOK, Place
<1>1. worker \in [Stage -> [at : Place, job : ConState]]
  OBVIOUS
<1>2. worker' = [worker EXCEPT ![w] = [worker[w] EXCEPT !.at = place]]
  OBVIOUS
<1>3. [worker[w] EXCEPT !.at = place] \in [at : Place, job : ConState]
  BY <1>1
<1>4. worker'[w] = [worker[w] EXCEPT !.at = place]
  BY <1>1, <1>2
<1> QED BY <1>1, <1>2, <1>3, <1>4

-----------------------------------------------------------------------------
(* What holds at any pace.                                                 *)

LEMMA InitInv == Init => Inv
<1> SUFFICES ASSUME Init PROVE Inv
  OBVIOUS
<1>1. Idle \in [at : Place, job : ConState] /\ Idle.at = "NONE"
  BY DEF Idle, Place, ConState
<1>2. /\ worker \in [Stage -> [at : Place, job : ConState]]
      /\ \A w \in Stage : worker[w].at = "NONE"
  BY <1>1 DEF Init
<1>3. state \in ConState /\ state \notin Stage
  BY DEF Init, ConState, Stage
<1>4. TypeOK
  BY <1>2, <1>3 DEF Init, TypeOK, Place, ConState, Stage
<1> QED BY <1>2, <1>4 DEF Init, Inv, LookedInStage, Unopened, OfferedIsUsable

\* Every step keeps the types.
LEMMA TypeStep ==
    ASSUME Inv, [Next]_vars
    PROVE  TypeOK'
<1> USE DEF Inv, TypeOK
<1>1. CASE Open
  BY <1>1, Moved DEF Open, Start, conf, Stage, ConState, Place, Alive
<1>2. CASE Accept
  BY <1>2, Moved DEF Accept, Start, Establish, conf, Stage, ConState, Place, Alive
<1>3. CASE DataConnect
  BY <1>3, Moved DEF DataConnect, Start, conf, Stage, ConState, Place, Alive
<1>4. CASE Look
  BY <1>4 DEF Look, conf
<1>5. CASE Advance
  <2>1. /\ state' \in ConState \ (IF type = "CONTROL" THEN {"RESOLVE_SRC_IP", "RESOLVED_SRC_IP"}
                                  ELSE {"DELETE", "FREED"})
        /\ version' \in Nat
        /\ sock' \in {"NONE", "BOUND", "CONNECTED", "SHUT"}
    BY <1>5 DEF Advance, Bind, Start, Establish, Stage, ConState
  <2>2. \/ worker' = worker
        \/ worker' = [worker EXCEPT !["CONNECTING"].at = "CREATED"]
        \/ worker' = [worker EXCEPT !["SSL_VERIFY"].at = "CREATED"]
    BY <1>5 DEF Advance, Bind, Start, Establish
  <2>3. worker' \in [Stage -> [at : Place, job : ConState]]
    <3>1. "CONNECTING" \in Stage /\ "SSL_VERIFY" \in Stage /\ "CREATED" \in Place
      BY DEF Stage, Place, Alive
    <3>2. worker \in [Stage -> [at : Place, job : ConState]]
      BY DEF Place
    <3> QED BY <2>2, <3>1, <3>2, Moved
  <2> QED BY <1>5, <2>1, <2>3 DEF Advance, conf, Place
<1>6. CASE CleanUp
  <2>1. state \in Stage
    BY <1>6 DEF CleanUp, LookedInStage
  <2>2. state' = Failure[state]
    BY <1>6 DEF CleanUp
  <2> QED BY <1>6, <2>1, <2>2 DEF CleanUp, Failure, conf, Stage, ConState
<1>7. CASE Reap
  BY <1>7 DEF Reap, conf, ConState
<1>8. CASE Close
  BY <1>8 DEF Close, conf, ConState
<1>9. CASE Abort
  BY <1>9 DEF Abort, conf
<1>10. CASE RefreshPeers
  BY <1>10 DEF RefreshPeers, conf
<1>11. ASSUME NEW w \in Stage, Begin(w) PROVE TypeOK'
  BY <1>11, Moved DEF Begin, conf, Place, Alive
<1>12. ASSUME NEW w \in Stage, Enter(w) PROVE TypeOK'
  BY <1>12 DEF Enter, conf, Alive
<1>13. ASSUME NEW w \in Stage, Finish(w) PROVE TypeOK'
  BY <1>13, Moved DEF Finish, Succeed, Fail, Connect, Handshake, Lookup, conf, Place
<1>14. CASE UNCHANGED vars
  BY <1>14 DEF vars, conf
<1> QED BY <1>1, <1>2, <1>3, <1>4, <1>5, <1>6, <1>7, <1>8, <1>9, <1>10, <1>11,
           <1>12, <1>13, <1>14 DEF Next, Handler, Thread

\* Every step keeps what the handler and the dialog rely on.
LEMMA NextInv == Inv /\ [Next]_vars => Inv'
<1> SUFFICES ASSUME Inv, [Next]_vars PROVE Inv'
  OBVIOUS
<1> USE DEF Inv, LookedInStage, Unopened, OfferedIsUsable
<1>0. TypeOK'
  BY TypeStep
<1>1. CASE Open
  BY <1>0, <1>1 DEF Open, Start
<1>2. CASE Accept
  BY <1>0, <1>2 DEF Accept, Start
<1>3. CASE DataConnect
  BY <1>0, <1>3 DEF DataConnect, Start, Stage
<1>4. CASE Look
  BY <1>0, <1>4 DEF Look, Stage
<1>5. CASE Advance
  BY <1>0, <1>5 DEF Advance, Stage
<1>6. CASE CleanUp
  BY <1>0, <1>6 DEF CleanUp, Stage
<1>7. CASE Reap
  BY <1>0, <1>7 DEF Reap
<1>8. CASE Close
  BY <1>0, <1>8 DEF Close
<1>9. CASE Abort
  BY <1>0, <1>9 DEF Abort
<1>10. CASE RefreshPeers
  BY <1>0, <1>10 DEF RefreshPeers
<1>11. ASSUME NEW w \in Stage, Thread(w) PROVE Inv'
  BY <1>0, <1>11 DEF Thread, Begin, Enter, Finish, Alive
<1>12. CASE UNCHANGED vars
  BY <1>0, <1>12 DEF vars
<1> QED BY <1>1, <1>2, <1>3, <1>4, <1>5, <1>6, <1>7, <1>8, <1>9, <1>10, <1>11,
           <1>12 DEF Next, Handler

\* The invariant that does not depend on when a thread begins.
THEOREM Invariance == Spec => []Inv
<1> QED BY InitInv, NextInv, PTL DEF Spec

\* The states of a connection are those of its type, in every interleaving of
\* the handler, the threads and the user: a control connection is never seen
\* waiting for a source address, a data connection never removed as a peer.
THEOREM TypeCorrect == Spec => []TypeOK
<1>1. Inv => TypeOK
  BY DEF Inv
<1> QED BY <1>1, Invariance, PTL

\* A peer in the list of the suggest dialog is usable or refused, however old
\* the list is and however late the threads begin.
THEOREM OfferedIsUsableHolds == Spec => []OfferedIsUsable
<1>1. Inv => OfferedIsUsable
  BY DEF Inv
<1> QED BY <1>1, Invariance, PTL

-----------------------------------------------------------------------------
(* What holds when every thread begins before the handler looks again.     *)

AtRest == \A w \in Stage : worker[w].at \notin Alive

\* A stage that starts when no thread is at work gets a thread of its own.
LEMMA StageStarts ==
    ASSUME Inv, Paced, AtRest, NEW s \in Stage, Start(s), ~looked', version = 0,
           UNCHANGED <<conf, proc, secure, version>>,
           s = "SSL_VERIFY" => sock' = "CONNECTED"
    PROVE  Paced'
<1> USE DEF Start
<1>1. /\ worker'[s].at = "CREATED" /\ state' = s
      /\ \A v \in Stage \ {s} : worker'[v] = worker[v]
  BY Moved DEF Inv, Place, Alive
<1>2. ThreadIsAwaited'
  BY <1>1 DEF AtRest, ThreadIsAwaited
<1>3. Reports'
  BY <1>1 DEF Paced, Reports
<1>4. StageIsWorked'
  BY <1>1 DEF StageIsWorked, Working
<1>5. Results'
  <2>1. worker'["SSL_VERIFY"] = [at |-> "DONE", job |-> "SSL_VERIFY"] => secure'
    BY <1>1 DEF Paced, Results, Stage
  <2>2. state' = "CONNECTING" => worker'["CONNECTING"].at # "DONE"
    BY <1>1
  <2>3. state' = "SSL_VERIFY" => sock' = "CONNECTED"
    BY <1>1
  <2> QED BY <2>1, <2>2, <2>3 DEF Results
<1>6. VersionOnce' /\ NotYetSent'
  BY <1>1 DEF VersionOnce, NotYetSent, Stage
<1> QED BY <1>2, <1>3, <1>4, <1>5, <1>6 DEF Paced

\* Outside the stages nothing is expected of the threads.
LEMMA StageLeft ==
    ASSUME Paced, AtRest \/ state' = "CLOSED", state' \notin Stage, ~looked',
           UNCHANGED <<conf, worker, proc, secure>>,
           VersionOnce', NotYetSent'
    PROVE  Paced'
<1>1. ThreadIsAwaited'
  BY DEF Paced, ThreadIsAwaited, AtRest
<1>2. Reports'
  BY DEF Paced, Reports
<1>3. StageIsWorked'
  BY DEF StageIsWorked
<1>4. Results'
  BY DEF Paced, Results, Stage
<1> QED BY <1>1, <1>2, <1>3, <1>4 DEF Paced

\* A connection that is established has sent nothing before and, with SSL, has
\* a secure session.
LEMMA Establishes ==
    ASSUME Paced, AtRest, NEW fd, Establish(fd), ~looked', version = 0,
           ssl => secure, UNCHANGED <<conf, proc, secure>>
    PROVE  Paced'
<1>1. state' = "ESTABLISHED" /\ worker' = worker
  BY DEF Establish
<1>2. VersionOnce' /\ NotYetSent'
  BY <1>1 DEF Establish, conf, VersionOnce, NotYetSent
<1> QED BY <1>1, <1>2, StageLeft DEF Stage

\* When the handler has looked, the stage is over and its report is at hand.
LEMMA StageIsOver ==
    ASSUME Inv, Paced, looked, proc = "COMPLETE"
    PROVE  /\ AtRest /\ version = 0
           /\ state = "CONNECTING" => sock = "CONNECTED"
           /\ state = "SSL_VERIFY" => sock = "CONNECTED" /\ secure
<1>1. AtRest /\ version = 0 /\ state \in Stage /\ Working(state)
  BY DEF Inv, LookedInStage, Paced, Reports, AtRest, NotYetSent, StageIsWorked, Stage
<1>2. /\ worker[state] \in [at : Place, job : ConState]
      /\ worker[state].at \notin Alive
  BY <1>1 DEF Inv, TypeOK, AtRest, Place
<1>3. worker[state].at = "DONE" /\ worker[state].job = state
  BY <1>1, <1>2 DEF Working, Place
<1>4. worker[state] = [at |-> "DONE", job |-> state]
  BY <1>2, <1>3
<1> QED BY <1>1, <1>3, <1>4 DEF Paced, Results

\* A thread at work is the thread of the stage, or the user has closed the
\* connection; either way the handler has not looked.
LEMMA AtWork ==
    ASSUME Paced, NEW w \in Stage, worker[w].at \in Alive
    PROVE  /\ state \in {w, "CLOSED"} /\ ~looked
           /\ \A v \in Stage \ {w} : worker[v].at \notin Alive
  BY DEF Paced, ThreadIsAwaited, Reports

\* The steps of a thread keep what is expected of threads.
LEMMA ThreadSteps ==
    ASSUME Inv, Paced, NEW w \in Stage, Thread(w)
    PROVE  Paced'
<1>0. /\ worker[w].at \in Alive
      /\ worker \in [Stage -> [at : Place, job : ConState]]
      /\ UNCHANGED <<conf, offered, opened, state, looked, version, aborted>>
  BY DEF Thread, Begin, Enter, Finish, Alive, Inv, TypeOK, Place
<1>1. /\ state \in {w, "CLOSED"} /\ ~looked
      /\ \A v \in Stage \ {w} : worker[v].at \notin Alive
  BY <1>0, AtWork
<1>2. \A v \in Stage \ {w} : worker'[v] = worker[v]
  BY <1>0 DEF Thread, Begin, Enter, Finish
<1>3. ThreadIsAwaited'
  BY <1>0, <1>1, <1>2 DEF ThreadIsAwaited
<1>4. NotYetSent'
  BY <1>0 DEF Paced, NotYetSent
<1>5. CASE Begin(w)
  <2>1. worker'[w].at = "BEGUN" /\ proc' = "INCOMPLETE" /\ UNCHANGED <<sock, secure>>
    BY <1>5, Moved DEF Begin, Inv, Place, Alive
  <2>2. Reports'
    BY <1>0, <1>1, <2>1 DEF Reports
  <2>3. StageIsWorked'
    BY <1>0, <1>1, <2>1 DEF StageIsWorked, Working, Stage
  <2>4. Results'
    BY <1>0, <1>1, <1>2, <1>5, <2>1 DEF Begin, Paced, Results, Stage
  <2>5. VersionOnce'
    BY <1>0, <2>1 DEF Paced, VersionOnce, conf
  <2> QED BY <1>3, <1>4, <2>2, <2>3, <2>4, <2>5 DEF Paced
<1>6. CASE Enter(w)
  <2>1. /\ worker'[w] = [at |-> "BUSY", job |-> state]
        /\ UNCHANGED <<proc, sock, secure>>
    BY <1>0, <1>6 DEF Enter
  <2>2. Reports'
    BY <1>0, <1>1, <1>2, <1>6, <2>1 DEF Enter, Paced, Reports
  <2>3. StageIsWorked'
    BY <1>0, <1>1, <2>1 DEF StageIsWorked, Working, Stage
  <2>4. Results'
    BY <1>0, <1>1, <1>2, <1>6, <2>1 DEF Enter, Paced, Results, Stage
  <2>5. VersionOnce'
    BY <1>0, <2>1 DEF Paced, VersionOnce, conf
  <2> QED BY <1>3, <1>4, <2>2, <2>3, <2>4, <2>5 DEF Paced
<1>7. CASE Finish(w)
  <2>0. worker[w].at = "BUSY"
    BY <1>7 DEF Finish
  <2>1. secure => secure'
    BY <1>7 DEF Finish, Succeed, Fail, Lookup, Connect, Handshake
  <2>2. VersionOnce'
    BY <1>0, <1>1, <2>1 DEF Paced, VersionOnce, conf, Stage
  <2>3. state = w => worker[w].job = w
    BY <2>0 DEF Paced, StageIsWorked, Working
  <2>4. CASE Succeed(worker[w].job) /\ worker' = [worker EXCEPT ![w].at = "DONE"] /\ proc' = "COMPLETE"
    <3>1. worker'[w].at = "DONE" /\ worker'[w].job = worker[w].job
      BY <2>4, Moved DEF Inv, Place
    <3>2. Reports'
      BY <1>0, <1>1, <1>2, <3>1 DEF Reports, Alive
    <3>3. StageIsWorked'
      BY <1>0, <1>1, <2>3, <2>4, <3>1 DEF StageIsWorked, Working, Stage
    <3>4. worker'["SSL_VERIFY"] = [at |-> "DONE", job |-> "SSL_VERIFY"] => secure'
      <4>1. CASE w = "SSL_VERIFY"
        BY <2>4, <3>1, <4>1 DEF Succeed, Handshake
      <4>2. CASE w # "SSL_VERIFY"
        BY <1>2, <2>1, <4>2 DEF Paced, Results, Stage
      <4> QED BY <4>1, <4>2
    <3>5. state' = "CONNECTING" => sock' = "CONNECTED"
      BY <1>0, <1>1, <2>3, <2>4 DEF Succeed, Connect, Stage
    <3>6. state' = "SSL_VERIFY" => sock' = "CONNECTED"
      BY <1>0, <1>1, <2>3, <2>4 DEF Succeed, Handshake, Stage
    <3>7. Results'
      BY <3>4, <3>5, <3>6 DEF Results
    <3> QED BY <1>3, <1>4, <2>2, <3>2, <3>3, <3>7 DEF Paced
  <2>5. CASE Fail(worker[w].job) /\ worker' = [worker EXCEPT ![w].at = "FAILED"] /\ proc' = "ERROR"
    <3>1. worker'[w].at = "FAILED" /\ worker'[w].job = worker[w].job
      BY <2>5, Moved DEF Inv, Place
    <3>2. Reports'
      BY <1>0, <1>1, <1>2, <3>1 DEF Reports, Alive
    <3>3. StageIsWorked'
      BY <1>0, <1>1, <2>3, <2>5, <3>1 DEF StageIsWorked, Working, Stage
    <3>4. Results'
      BY <1>0, <1>1, <1>2, <2>1, <3>1 DEF Paced, Results, Stage
    <3> QED BY <1>3, <1>4, <2>2, <3>2, <3>3, <3>4 DEF Paced
  <2> QED BY <1>7, <2>4, <2>5 DEF Finish
<1> QED BY <1>5, <1>6, <1>7 DEF Thread

\* Steps that leave the threads and the state of the connection alone.
Quiet ==
    /\ UNCHANGED <<conf, state, proc, worker, secure, version>>
    /\ looked' => AtRest
    /\ sock' = sock \/ (state \notin Stage /\ sock' = "SHUT")

LEMMA QuietSteps == ASSUME Paced, Quiet PROVE Paced'
<1> USE DEF Quiet
<1>1. Reports'
  BY DEF Paced, Reports, AtRest
<1>2. ThreadIsAwaited' /\ StageIsWorked' /\ NotYetSent'
  BY DEF Paced, ThreadIsAwaited, StageIsWorked, Working, NotYetSent
<1>3. Results'
  BY DEF Paced, Results, Stage
<1>4. VersionOnce'
  BY DEF Paced, VersionOnce, conf
<1> QED BY <1>1, <1>2, <1>3, <1>4 DEF Paced

LEMMA InitPaced == Init => Paced
<1> SUFFICES ASSUME Init PROVE Paced
  OBVIOUS
<1>1. \A w \in Stage : worker[w].at = "NONE"
  BY DEF Init, Idle
<1>2. state = "CLOSED" /\ version = 0 /\ ~looked
  BY DEF Init
<1>3. ThreadIsAwaited /\ Reports
  BY <1>1, <1>2 DEF ThreadIsAwaited, Reports, Alive
<1>4. StageIsWorked /\ Results
  BY <1>1, <1>2 DEF StageIsWorked, Results, Stage
<1>5. VersionOnce /\ NotYetSent
  BY <1>2 DEF VersionOnce, NotYetSent
<1> QED BY <1>3, <1>4, <1>5 DEF Paced

\* Where the handler goes on after a stage, the threads are as it expects.
LEMMA AdvanceStep ==
    ASSUME Inv, Paced, Advance
    PROVE  Paced'
<1>1. looked /\ proc = "COMPLETE" /\ ~looked' /\ UNCHANGED <<conf, proc, secure>>
  BY DEF Advance
<1>2. /\ AtRest /\ version = 0
      /\ state = "CONNECTING" => sock = "CONNECTED"
      /\ state = "SSL_VERIFY" => sock = "CONNECTED" /\ secure
  BY <1>1, StageIsOver
<1>3. CASE state = "RESOLVE_SRC_IP" /\ Bind
  <2>1. state' \in {"RESOLVED_SRC_IP", "CLOSED"} /\ UNCHANGED <<worker, version>>
    BY <1>3 DEF Bind
  <2>2. VersionOnce' /\ NotYetSent'
    BY <1>2, <2>1 DEF VersionOnce, NotYetSent
  <2>3. state' \notin Stage
    BY <2>1 DEF Stage
  <2> QED BY <1>1, <1>2, <2>1, <2>2, <2>3, StageLeft
<1>4. CASE Start("CONNECTING") /\ UNCHANGED <<sock, version>>
  <2>1. "CONNECTING" \in Stage
    BY DEF Stage
  <2> QED BY <1>1, <1>2, <1>4, <2>1, StageStarts
<1>5. CASE state = "CONNECTING" /\ Start("SSL_VERIFY") /\ UNCHANGED <<sock, version>>
  <2>1. "SSL_VERIFY" \in Stage
    BY DEF Stage
  <2> QED BY <1>1, <1>2, <1>5, <2>1, StageStarts
<1>6. CASE state = "CONNECTING" /\ ~ssl /\ Establish(sock)
  BY <1>1, <1>2, <1>6, Establishes
<1>7. CASE state = "SSL_VERIFY" /\ Establish(sock)
  BY <1>1, <1>2, <1>7, Establishes
<1> QED BY <1>3, <1>4, <1>5, <1>6, <1>7 DEF Advance

\* A failed stage is left for a state without a thread, or for itself.
LEMMA CleanUpStep ==
    ASSUME Inv, Paced, CleanUp
    PROVE  Paced'
<1>1. /\ looked /\ ~looked' /\ state' = Failure[state]
      /\ UNCHANGED <<conf, proc, worker, sock, secure, version>>
  BY DEF CleanUp
<1>2. AtRest /\ state \in Stage /\ version = 0
  BY <1>1 DEF Inv, LookedInStage, Paced, Reports, AtRest, NotYetSent, Stage
<1>3. state' \in {state, "DELETE", "CLOSED"}
  BY <1>1, <1>2 DEF Failure
<1>4. CASE state' = state
  BY <1>1, <1>4, QuietSteps DEF Quiet
<1>5. CASE state' \in {"DELETE", "CLOSED"}
  <2>1. VersionOnce' /\ NotYetSent'
    BY <1>1, <1>2, <1>5 DEF VersionOnce, NotYetSent
  <2>2. state' \notin Stage
    BY <1>5 DEF Stage
  <2> QED BY <1>1, <1>2, <2>1, <2>2, StageLeft
<1> QED BY <1>3, <1>4, <1>5

\* If threads begin in time, every step keeps what is expected of them.
LEMMA NextPaced ==
    ASSUME Prompt, Inv, Paced, [Next]_vars
    PROVE  Paced'
<1>0. ~opened => AtRest /\ version = 0 /\ ~looked
  BY DEF Inv, Unopened, AtRest, Alive
<1>1. CASE Open
  <2>1. PICK s \in {"RESOLVE_SRC_IP", "RESOLVE_DST_IP"} : Start(s)
    BY <1>1 DEF Open
  <2> QED BY <1>0, <1>1, <2>1, StageStarts DEF Open, Stage
<1>2. CASE Accept
  <2>1. CASE ssl /\ Start("SSL_VERIFY") /\ sock' = "CONNECTED" /\ UNCHANGED version
    BY <1>0, <1>2, <2>1, StageStarts DEF Accept, Stage
  <2>2. CASE ~ssl /\ Establish("CONNECTED")
    BY <1>0, <1>2, <2>2, Establishes DEF Accept
  <2> QED BY <1>2, <2>1, <2>2 DEF Accept
<1>3. CASE DataConnect
  <2>1. /\ state = "RESOLVED_SRC_IP" /\ Start("RESOLVE_DST_IP")
        /\ UNCHANGED <<conf, proc, looked, secure, version>>
    BY <1>3 DEF DataConnect
  <2>2. AtRest /\ version = 0 /\ ~looked
    BY <2>1 DEF Inv, LookedInStage, Paced, ThreadIsAwaited, NotYetSent, AtRest, Stage
  <2> QED BY <2>1, <2>2, StageStarts DEF Stage
<1>4. CASE Look
  <2>1. AtRest
    <3> SUFFICES ASSUME NEW w \in Stage, worker[w].at \in Alive PROVE FALSE
      BY DEF AtRest
    <3> QED BY <1>4 DEF Look, Paced, Reports, Alive
  <2> QED BY <1>4, <2>1, QuietSteps DEF Quiet, Look
<1>5. CASE Advance
  BY <1>5, AdvanceStep
<1>6. CASE CleanUp
  BY <1>6, CleanUpStep
<1>7. CASE Reap
  <2>1. /\ state = "DELETE" /\ state' = "FREED" /\ ~looked'
        /\ UNCHANGED <<conf, proc, worker, sock, secure, version>>
    BY <1>7 DEF Reap
  <2>2. AtRest
    BY <2>1 DEF Paced, ThreadIsAwaited, AtRest, Stage
  <2>3. VersionOnce' /\ NotYetSent'
    BY <2>1 DEF Paced, VersionOnce, NotYetSent
  <2> QED BY <2>1, <2>2, <2>3, StageLeft DEF Stage
<1>8. CASE Close
  <2>1. /\ state' = "CLOSED" /\ ~looked'
        /\ UNCHANGED <<conf, proc, worker, secure, version>>
    BY <1>8 DEF Close
  <2>2. VersionOnce' /\ NotYetSent'
    BY <2>1 DEF Paced, VersionOnce, NotYetSent, conf
  <2> QED BY <2>1, <2>2, StageLeft DEF Stage
<1>9. CASE Abort
  BY <1>9, QuietSteps DEF Quiet, Abort, Stage
<1>10. CASE RefreshPeers
  BY <1>10, QuietSteps DEF Quiet, RefreshPeers
<1>11. ASSUME NEW w \in Stage, Thread(w) PROVE Paced'
  BY <1>11, ThreadSteps
<1>12. CASE UNCHANGED vars
  <2>1. looked' => AtRest
    BY <1>12 DEF vars, Paced, Reports, AtRest
  <2> QED BY <1>12, <2>1, QuietSteps DEF Quiet, vars, conf
<1> QED BY <1>1, <1>2, <1>3, <1>4, <1>5, <1>6, <1>7, <1>8, <1>9, <1>10, <1>11,
           <1>12 DEF Next, Handler

\* The invariant of a connection whose threads begin in time.
THEOREM PacedInvariance == ASSUME Prompt PROVE Spec => []Paced
<1>1. Inv /\ Paced /\ [Next]_vars => Paced'
  BY NextPaced
<1> QED BY <1>1, InitPaced, Invariance, PTL DEF Spec

\* If threads begin in time, no two of them share a connection and none is
\* left on a connection that was freed: the handler starts a thread only
\* after the one before has reported.
THEOREM ThreadIsAwaitedHolds == ASSUME Prompt PROVE Spec => []ThreadIsAwaited
<1>1. Paced => ThreadIsAwaited
  BY DEF Paced
<1> QED BY <1>1, PacedInvariance, PTL

\* If threads begin in time, VERSION goes out once, on control connections
\* only, and with SSL not before the session is secure.
THEOREM VersionOnceHolds == ASSUME Prompt PROVE Spec => []VersionOnce
<1>1. Paced => VersionOnce
  BY DEF Paced
<1> QED BY <1>1, PacedInvariance, PTL

\* If threads begin in time, no connection skips a stage on the report of an
\* earlier one: ESTABLISHED means connected and, with SSL, secure.
THEOREM EstablishedIsConnectedHolds == ASSUME Prompt PROVE Spec => EstablishedIsConnected
<1>1. ASSUME Inv, Paced, [Next]_vars, state # "ESTABLISHED", state' = "ESTABLISHED"
      PROVE  /\ sock' = "CONNECTED" \/ (type = "CONTROL" /\ version' = 0 /\ sock' = "SHUT")
             /\ ssl => secure'
  <2>1. CASE Accept
    BY <1>1, <2>1 DEF Accept, Start, Establish, Inv, Unopened
  <2>2. CASE Advance
    <3>1. /\ version = 0
          /\ state = "CONNECTING" => sock = "CONNECTED"
          /\ state = "SSL_VERIFY" => sock = "CONNECTED" /\ secure
      BY <1>1, <2>2, StageIsOver DEF Advance
    <3> QED BY <1>1, <2>2, <3>1 DEF Advance, Bind, Start, Establish
  <2>3. CASE CleanUp
    <3>1. state \in Stage /\ state' = Failure[state]
      BY <1>1, <2>3 DEF CleanUp, Inv, LookedInStage
    <3> QED BY <1>1, <3>1 DEF Failure, Stage
  <2> QED BY <1>1, <2>1, <2>2, <2>3 DEF Next, Handler, Thread, Open, DataConnect,
             Start, Look, Reap, Close, Abort, RefreshPeers, Begin, Enter, Finish, vars
<1>2. Inv /\ Paced /\ [Next]_vars =>
        [state # "ESTABLISHED" /\ state' = "ESTABLISHED" =>
           /\ sock' = "CONNECTED" \/ (type = "CONTROL" /\ version' = 0 /\ sock' = "SHUT")
           /\ ssl => secure']_vars
  BY <1>1
<1> QED BY <1>2, Invariance, PacedInvariance, PTL DEF Spec, EstablishedIsConnected

=============================================================================
