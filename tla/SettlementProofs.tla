-------------------------- MODULE SettlementProofs --------------------------
(***************************************************************************)
(* Module Proxy implements module Settlement: the initial states are       *)
(* Settlement's, and each step is a Settlement step or none.  Two facts    *)
(* that IInv does not hold are needed: no transaction is prepared before   *)
(* its simulation, and what a ledger includes has used its sequence number *)
(* up, so that it is never included again.                                 *)
(***************************************************************************)
EXTENDS ProxyProofs

\* Nothing is prepared before the simulation; on the wire means in doubt.
StageFacts(r) ==
  /\ pc[r] \in {"idle", "sequence", "simulate"} => tx[r] = Absent
  /\ r \in wire => answer[r] \in {"upstream", "gone"}

\* An included transaction's sequence number is used up.
Spent == \A e \in ledger : e.tx.seq <= acctSeq[e.tx.source]

\* The inductive invariant of the refinement.
PInv == IInv /\ (\A r \in Requests : StageFacts(r)) /\ Spent

-----------------------------------------------------------------------------
(* What the mapping does.                                                  *)

\* An answer closes its own request and no other.
LEMMA OutcomesFinish ==
  ASSUME ReqTypeOK, NEW r \in Requests, NEW a, Finish(r, a)
  PROVE  outcomes' = [outcomes EXCEPT ![r] = Outcome(a)]
<1>1. \A q \in Requests : answer'[q] = IF q = r THEN a ELSE answer[q]
  BY DEF ReqTypeOK, Finish
<1>2. outcomes' = [q \in Requests |-> Outcome(answer'[q])]
  BY DEF outcomes, Outcome
<1> QED
  BY <1>1, <1>2 DEF outcomes

\* Without a new answer nothing is closed.
LEMMA OutcomesKept ==
  ASSUME UNCHANGED answer PROVE outcomes' = outcomes
BY DEF outcomes, Outcome

\* The classes of answers do not overlap.
LEMMA OutcomeCases ==
  /\ Outcome("open") = "none"
  /\ \A a \in Refusals : Outcome(a) = "refused"
  /\ Outcome("simulated") = "unsigned"
  /\ \A a \in TxStatus : Outcome(a) = a
  /\ \A a \in {"upstream", "timed_out", "gone"} : Outcome(a) = "unsure"
BY DEF Outcome, Refusals, TxStatus

\* A request is open in both senses or in none.
LEMMA OpenOutcome ==
  ASSUME NEW r \in Requests, answer[r] = "open"
  PROVE  outcomes[r] = "none"
BY OutcomeCases DEF outcomes

-----------------------------------------------------------------------------
(* The steps.                                                              *)

\* Being told to stop: a request that was given up is in doubt.
LEMMA DoubtOne ==
  ASSUME ReqTypeOK, NEW r \in Requests, answer[r] = "open",
         NEW a \in {"upstream", "timed_out", "gone"}, Finish(r, a),
         UNCHANGED <<tx, accepted, ledger>>
  PROVE  Promise!Next
<1>1. outcomes' = [outcomes EXCEPT ![r] = "unsure"]
  BY OutcomesFinish, OutcomeCases
<1>2. outcomes[r] = "none"
  BY OpenOutcome
<1>3. outcomes = [q \in Requests |-> outcomes[q]]
  BY DEF outcomes
<1>4. outcomes' = [q \in Requests |-> IF q \in {r} THEN "unsure" ELSE outcomes[q]]
  BY <1>1, <1>3
<1>5. Promise!Doubt({r})
  BY <1>2, <1>4 DEF Promise!Doubt
<1>6. {r} \in SUBSET Requests
  OBVIOUS
<1> QED
  BY <1>5, <1>6 DEF Promise!Next

\* A refusal before the network took anything.
LEMMA RefuseOne ==
  ASSUME ReqTypeOK, NEW r \in Requests, answer[r] = "open", r \notin accepted,
         NEW a \in Refusals, Finish(r, a), UNCHANGED <<tx, accepted, ledger>>
  PROVE  Promise!Next
<1>1. outcomes' = [outcomes EXCEPT ![r] = "refused"]
  BY OutcomesFinish, OutcomeCases
<1>2. outcomes[r] = "none"
  BY OpenOutcome
<1>3. Promise!Refuse(r)
  BY <1>1, <1>2 DEF Promise!Refuse, Promise!Close
<1> QED
  BY <1>3 DEF Promise!Next

\* The node's handling of a prepared transaction: taken, or nothing.
LEMMA TakeOne ==
  ASSUME NEW r \in Requests, NEW st \in SendStatuses, Prepared(r), Handled(r, st),
         outcomes[r] \in {"none", "unsure"},
         UNCHANGED <<answer, tx, ledger>>
  PROVE  [Promise!Next]_(Promise!promises)
<1>1. outcomes' = outcomes
  BY OutcomesKept
<1>2. CASE st = "PENDING"
  <2>1. Promise!Take(r)
    BY <1>1, <1>2 DEF Handled, Prepared, Promise!Take
  <2> QED
    BY <2>1 DEF Promise!Next
<1>3. CASE st # "PENDING"
  BY <1>1, <1>3 DEF Handled, Promise!promises
<1> QED
  BY <1>2, <1>3

\* A step that changes none of the four is a stutter of Settlement.
LEMMA Stutter ==
  ASSUME UNCHANGED <<answer, tx, accepted, ledger>>
  PROVE  [Promise!Next]_(Promise!promises)
BY OutcomesKept DEF Promise!promises

\* One step of a handler is a step of its request's settlement.
LEMMA AdvanceSettles ==
  ASSUME PInv, NEW r \in Requests, Advance(r)
  PROVE  [Promise!Next]_(Promise!promises)
<1> DEFINE Goal == [Promise!Next]_(Promise!promises)
<1>1. ReqTypeOK /\ HandlerOK(r) /\ StageFacts(r)
  BY DEF PInv, IInv, TypeOK, HandlersOK
<1>2. InFlight(r) /\ answer[r] = "open" /\ outcomes[r] = "none"
  <2>1. InFlight(r)
    BY DEF Advance, FetchSequence, Simulate, Send, Poll, InFlight
  <2> QED
    BY <1>1, <2>1, OpenOutcome DEF HandlerOK, InFlight
<1>3. pc[r] \in {"sequence", "simulate", "send"} => r \notin accepted
  BY <1>1 DEF HandlerOK
<1>4. ASSUME NEW a \in {"upstream", "timed_out", "gone"}, Finish(r, a),
             UNCHANGED <<tx, accepted, ledger>>
      PROVE  Goal
  BY <1>1, <1>2, <1>4, DoubtOne
<1>5. ASSUME NEW a \in Refusals, Finish(r, a), r \notin accepted,
             UNCHANGED <<tx, accepted, ledger>>
      PROVE  Goal
  BY <1>1, <1>2, <1>5, RefuseOne
<1>6. {"bad_request", "internal"} \subseteq Refusals
  BY DEF Refusals
<1>7. ASSUME UNCHANGED <<answer, tx, accepted, ledger>> PROVE Goal
  BY <1>7, Stutter
<1> SUFFICES Goal
  OBVIOUS
<1> HIDE DEF Goal
<1>8. CASE FetchSequence(r)
  BY <1>3, <1>4, <1>5, <1>6, <1>7, <1>8 DEF FetchSequence, netVars
<1>9. CASE Simulate(r)
  <2>1. r \notin accepted /\ UNCHANGED <<accepted, ledger>>
    BY <1>3, <1>9 DEF Simulate, netVars
  <2>2. CASE SimulationFails(r) /\ UNCHANGED tx
    BY <1>4, <1>5, <1>6, <2>1, <2>2 DEF SimulationFails, CallFails
  <2>3. CASE Finish(r, "bad_request") /\ UNCHANGED tx
    BY <1>5, <1>6, <2>1, <2>3
  <2>4. CASE /\ FeeFits(call[r].fn) /\ tx' = [tx EXCEPT ![r] = AssembledTx(r)]
             /\ Finish(r, "simulated") \/ UNCHANGED answer
    <3>1. AssembledTx(r) \in Tx
      BY <1>1, <1>2, <2>4, AssembledSound DEF PInv, IInv, HandlerOK
    <3>2. tx'[r] = AssembledTx(r) /\ tx[r] = Absent
      BY <1>1, <1>9, <2>4 DEF ReqTypeOK, StageFacts, Simulate
    <3>3. UNCHANGED outcomes \/ outcomes' = [outcomes EXCEPT ![r] = "unsigned"]
      BY <1>1, <2>4, OutcomesFinish, OutcomesKept, OutcomeCases
    <3>4. Promise!Prepare(r)
      BY <1>2, <2>1, <2>4, <3>1, <3>2, <3>3 DEF Promise!Prepare, Promise!Close
    <3> QED
      BY <3>4 DEF Goal, Promise!Next
  <2> QED
    BY <1>9, <2>2, <2>3, <2>4 DEF Simulate, Handover, Sign
<1>10. CASE Send(r)
  <2>1. UNCHANGED <<tx, ledger>> /\ r \notin accepted /\ Prepared(r)
    BY <1>1, <1>3, <1>10 DEF Send, HandlerOK
  <2>2. CASE SendFailure(r) /\ UNCHANGED <<pool, accepted>>
    BY <1>4, <2>1, <2>2 DEF SendFailure, CallFails
  <2>3. ASSUME NEW st \in SendStatuses, Handled(r, st), Replied(r, st) PROVE Goal
    <3>1. CASE st = "ERROR"
      BY <1>5, <1>6, <2>1, <2>3, <3>1 DEF Handled, Replied
    <3>2. CASE st # "ERROR"
      BY <1>2, <2>1, <2>3, <3>2, TakeOne DEF Replied, Goal
    <3> QED
      BY <3>1, <3>2
  <2> QED
    BY <1>10, <2>2, <2>3 DEF Send
<1>11. CASE Poll(r)
  <2>1. UNCHANGED <<tx, accepted, ledger>>
    BY <1>11 DEF Poll, netVars
  <2>2. ASSUME NEW status \in TxStatus, Found(r, status), Finish(r, status) PROVE Goal
    <3>1. outcomes' = [outcomes EXCEPT ![r] = status]
      BY <1>1, <2>2, OutcomesFinish, OutcomeCases
    <3>2. Promise!Report(r)
      BY <1>2, <2>1, <2>2, <3>1 DEF Found, Promise!Report, Promise!Close
    <3> QED
      BY <3>2 DEF Goal, Promise!Next
  <2> QED
    BY <1>4, <1>7, <1>11, <2>1, <2>2 DEF Poll, CallFails
<1> QED
  BY <1>8, <1>9, <1>10, <1>11 DEF Advance, Goal

\* A ledger's step is an inclusion that was promised, for the first time.
LEMMA NetworkSettles ==
  ASSUME PInv, NetNext, UNCHANGED reqVars
  PROVE  [Promise!Next]_(Promise!promises)
<1>1. outcomes' = outcomes /\ UNCHANGED <<answer, tx, accepted>>
  BY OutcomesKept DEF reqVars
<1>2. CASE UNCHANGED ledger
  BY <1>1, <1>2, Stutter
<1>3. ASSUME NEW t \in pool, ApplyTx(t) PROVE Promise!Next
  <2>1. PICK r \in accepted : tx[r] = t
    BY DEF PInv, IInv, EveryTxWasAsked
  <2>2. r \in Requests /\ t \in Tx /\ acctSeq[t.source] \in Int
    BY <2>1 DEF PInv, IInv, TypeOK, NetTypeOK, ReqTypeOK, Tx
  <2>3. \A e \in ledger : e.tx # t
    BY <1>3, <2>2 DEF PInv, Spent, ApplyTx
  <2>4. \E s \in TxStatus : ledger' = ledger \cup {[tx |-> tx[r], status |-> s]}
    BY <1>3, <2>1 DEF ApplyTx
  <2>5. Promise!Include(r)
    BY <1>1, <2>1, <2>3, <2>4 DEF Promise!Include
  <2> QED
    BY <2>2, <2>5 DEF Promise!Next
<1> QED
  BY <1>2, <1>3 DEF NetNext, EvictTx, OwnerTx, OutsideWrite

\* So are the other steps of the environment.
LEMMA EnvironmentSettles ==
  ASSUME PInv, Environment
  PROVE  [Promise!Next]_(Promise!promises)
<1> DEFINE Goal == [Promise!Next]_(Promise!promises)
<1>1. ReqTypeOK
  BY DEF PInv, IInv, TypeOK
<1>2. \A r \in Requests : HandlerOK(r) /\ StageFacts(r)
  BY DEF PInv, IInv, HandlersOK
<1>3. ASSUME UNCHANGED <<answer, tx, accepted, ledger>> PROVE Goal
  BY <1>3, Stutter
<1>4. CASE NetNext /\ UNCHANGED <<bootVars, reqVars>>
  BY <1>4, NetworkSettles
<1> SUFFICES Goal
  OBVIOUS
<1> HIDE DEF Goal
<1>5. CASE Restart /\ UNCHANGED <<netVars, reqVars>>
  BY <1>3, <1>5 DEF netVars, reqVars
<1>6. ASSUME NEW r \in Requests, NEW c \in Calls, Arrive(r, c) PROVE Goal
  <2>1. UNCHANGED <<tx, accepted, ledger>>
    BY <1>6 DEF Arrive, netVars
  <2>2. CASE Verdict(c) = "open"
    BY <1>3, <1>6, <2>1, <2>2 DEF Arrive
  <2>3. CASE Verdict(c) # "open"
    <3>1. r \notin accepted /\ answer[r] = "open"
      BY <1>2, <1>6 DEF Arrive, HandlerOK
    <3>2. Verdict(c) \in Refusals /\ Finish(r, Verdict(c))
      BY <1>6, <2>3, VerdictSound DEF Arrive, Refusals
    <3> QED
      BY <1>1, <2>1, <3>1, <3>2, RefuseOne DEF Goal
  <2> QED
    BY <2>2, <2>3
<1>7. ASSUME NEW r \in Requests, Disconnect(r) PROVE Goal
  <2>1. answer[r] = "open" /\ UNCHANGED <<tx, accepted, ledger>>
    BY <1>2, <1>7 DEF Disconnect, InFlight, HandlerOK, netVars
  <2> QED
    BY <1>1, <1>7, <2>1, DoubtOne DEF Disconnect, Goal
<1>8. ASSUME NEW r \in Requests, DeliverLate(r) PROVE Goal
  <2>1. PICK st \in SendStatuses : Handled(r, st)
    BY <1>8 DEF DeliverLate
  <2>2. Prepared(r) /\ answer[r] \in {"upstream", "gone"}
    BY <1>2, <1>8 DEF DeliverLate, HandlerOK, StageFacts
  <2>3. outcomes[r] = "unsure"
    BY <2>2, OutcomeCases DEF outcomes
  <2> QED
    BY <1>8, <2>1, <2>2, <2>3, TakeOne DEF DeliverLate, Goal
<1>9. CASE Crash
  <2> DEFINE R == {r \in Requests : InFlight(r)}
  <2>1. outcomes' = [r \in Requests |-> IF r \in R THEN "unsure" ELSE outcomes[r]]
    <3>1. outcomes' = [r \in Requests |-> Outcome(answer'[r])]
      BY DEF outcomes, Outcome
    <3>2. \A r \in Requests : answer'[r] = IF r \in R THEN "gone" ELSE answer[r]
      BY <1>9 DEF Crash
    <3> QED
      BY <3>1, <3>2, OutcomeCases DEF outcomes
  <2>2. \A r \in R : outcomes[r] = "none"
    BY <1>2, OpenOutcome DEF HandlerOK, InFlight
  <2>3. Promise!Doubt(R)
    BY <1>9, <2>1, <2>2 DEF Crash, netVars, Promise!Doubt
  <2> QED
    BY <2>3 DEF Promise!Next, Goal
<1> QED
  BY <1>4, <1>5, <1>6, <1>7, <1>8, <1>9 DEF Environment, Goal

-----------------------------------------------------------------------------
(* The invariant.                                                          *)

\* Only the steps of r's own handler, and a crash, touch what StageFacts says.
LEMMA StageFrame ==
  ASSUME NEW r, StageFacts(r), tx'[r] = tx[r], answer'[r] = answer[r],
         pc'[r] \in {"idle", "sequence", "simulate"} =>
           pc[r] \in {"idle", "sequence", "simulate"},
         r \in wire' => r \in wire
  PROVE  StageFacts(r)'
BY DEF StageFacts

\* The stages keep their facts.
LEMMA StageStep ==
  ASSUME PInv, [Next]_vars, NEW q \in Requests
  PROVE  StageFacts(q)'
<1>1. ReqTypeOK /\ HandlerOK(q) /\ StageFacts(q)
  BY DEF PInv, IInv, TypeOK, HandlersOK
<1> USE DEF ReqTypeOK, CallFails, SimulationFails, Finish, Goto
<1>2. CASE UNCHANGED reqVars
  BY <1>1, <1>2, StageFrame DEF reqVars
<1>3. ASSUME NEW r \in Requests, Advance(r) PROVE StageFacts(q)'
  <2>1. CASE r # q
    <3>1. /\ pc'[q] = pc[q] /\ tx'[q] = tx[q] /\ answer'[q] = answer[q]
          /\ q \in wire' => q \in wire
      BY <1>1, <1>3, <2>1
         DEF Advance, FetchSequence, Simulate, Handover, Sign, Send, SendFailure,
             Replied, Poll
    <3> QED
      BY <1>1, <3>1, StageFrame
  <2>2. CASE r = q
    <3>1. CASE FetchSequence(q)
      <4>1. tx'[q] = Absent /\ q \notin wire'
        BY <1>1, <3>1 DEF FetchSequence, StageFacts, HandlerOK
      <4> QED
        BY <4>1 DEF StageFacts
    <3>2. CASE Simulate(q)
      <4>1. q \notin wire' /\ pc'[q] \in {"done", "send"}
        BY <1>1, <3>2 DEF Simulate, Handover, Sign, HandlerOK
      <4> QED
        BY <4>1 DEF StageFacts
    <3>3. CASE Send(q)
      <4>1. q \notin wire
        BY <1>1, <3>3 DEF Send, HandlerOK
      <4>2. CASE SendFailure(q)
        BY <1>1, <4>2 DEF SendFailure, StageFacts
      <4>3. ASSUME NEW st \in SendStatuses, Replied(q, st), UNCHANGED wire
            PROVE  StageFacts(q)'
        BY <1>1, <4>1, <4>3 DEF Replied, StageFacts
      <4> QED
        BY <3>3, <4>2, <4>3 DEF Send
    <3>4. CASE Poll(q)
      <4>1. q \notin wire'
        BY <1>1, <3>4 DEF Poll, StageFacts, HandlerOK
      <4>2. pc'[q] \in {"poll", "done"}
        BY <1>1, <3>4 DEF Poll
      <4> QED
        BY <4>1, <4>2 DEF StageFacts
    <3> QED
      BY <1>3, <2>2, <3>1, <3>2, <3>3, <3>4 DEF Advance
  <2> QED
    BY <2>1, <2>2
<1>4. ASSUME NEW r \in Requests, NEW c \in Calls, Arrive(r, c) PROVE StageFacts(q)'
  <2>1. pc[r] = "idle" /\ UNCHANGED <<tx, wire>>
    BY <1>4 DEF Arrive
  <2>2. CASE r # q
    <3>1. pc'[q] = pc[q] /\ answer'[q] = answer[q]
      <4>1. CASE Verdict(c) = "open"
        BY <1>1, <1>4, <2>2, <4>1 DEF Arrive
      <4>2. CASE Verdict(c) # "open"
        BY <1>1, <1>4, <2>2, <4>2 DEF Arrive
      <4> QED
        BY <4>1, <4>2
    <3> QED
      BY <1>1, <2>1, <3>1, StageFrame
  <2>3. CASE r = q
    BY <1>1, <2>1, <2>3 DEF StageFacts, HandlerOK
  <2> QED
    BY <2>2, <2>3
<1>5. ASSUME NEW r \in Requests, Disconnect(r) PROVE StageFacts(q)'
  <2>1. CASE r # q
    <3>1. /\ pc'[q] = pc[q] /\ answer'[q] = answer[q] /\ tx' = tx
          /\ q \in wire' => q \in wire
      BY <1>5, <2>1 DEF Disconnect, Sending
    <3> QED
      BY <1>1, <3>1, StageFrame
  <2>2. CASE r = q
    <3>1. pc'[q] = "done" /\ answer'[q] = "gone"
      BY <1>1, <1>5, <2>2 DEF Disconnect
    <3> QED
      BY <3>1 DEF StageFacts
  <2> QED
    BY <2>1, <2>2
<1>6. ASSUME NEW r \in Requests, DeliverLate(r) PROVE StageFacts(q)'
  BY <1>1, <1>6, StageFrame DEF DeliverLate
<1>7. CASE Crash
  <2>1. CASE InFlight(q)
    <3>1. pc'[q] = "done" /\ answer'[q] = "gone"
      BY <1>7, <2>1 DEF Crash
    <3> QED
      BY <3>1 DEF StageFacts
  <2>2. CASE ~InFlight(q)
    <3>1. /\ pc'[q] = pc[q] /\ answer'[q] = answer[q] /\ tx' = tx
          /\ q \in wire' => q \in wire
      BY <1>7, <2>2 DEF Crash, Sending, InFlight
    <3> QED
      BY <1>1, <3>1, StageFrame
  <2> QED
    BY <2>1, <2>2
<1> QED
  BY <1>2, <1>3, <1>4, <1>5, <1>6, <1>7 DEF Next, Boot, Environment, vars

\* Sequence numbers only grow, and a ledger uses one up.
LEMMA SpentStep ==
  ASSUME TypeOK, Spent, [Next]_vars
  PROVE  Spent'
<1>1. NetTypeOK
  BY DEF TypeOK
<1>2. CASE UNCHANGED <<acctSeq, ledger>>
  BY <1>2 DEF Spent
<1>3. ASSUME NEW t \in pool, ApplyTx(t) PROVE Spent'
  <2> SUFFICES ASSUME NEW e \in ledger' PROVE e.tx.seq <= acctSeq'[e.tx.source]
    BY DEF Spent
  <2>1. t.source \in Accounts /\ acctSeq[t.source] \in Int
    BY <1>1 DEF NetTypeOK, Tx
  <2>2. acctSeq'[t.source] = acctSeq[t.source] + 1
    BY <1>1, <1>3, <2>1 DEF ApplyTx, NetTypeOK
  <2>3. CASE e \in ledger
    <3>1. e.tx \in Tx
      BY <1>1, <2>3 DEF NetTypeOK
    <3>2. e.tx.seq \in Int /\ e.tx.source \in Accounts
          /\ acctSeq[e.tx.source] \in Int /\ e.tx.seq <= acctSeq[e.tx.source]
      BY <1>1, <2>3, <3>1 DEF NetTypeOK, Tx, SeqNums, Spent
    <3>3. CASE e.tx.source = t.source
      BY <2>1, <2>2, <3>2, <3>3
    <3>4. CASE e.tx.source # t.source
      BY <1>1, <1>3, <3>2, <3>4 DEF ApplyTx, NetTypeOK
    <3> QED
      BY <3>3, <3>4
  <2>4. CASE e \notin ledger
    <3>1. e.tx = t
      BY <1>3, <2>4 DEF ApplyTx
    <3> QED
      BY <1>3, <2>1, <2>2, <3>1 DEF ApplyTx
  <2> QED
    BY <2>3, <2>4
<1>4. ASSUME NEW a \in Accounts, OwnerTx(a) PROVE Spent'
  <2> SUFFICES ASSUME NEW e \in ledger PROVE e.tx.seq <= acctSeq'[e.tx.source]
    BY <1>4 DEF Spent, OwnerTx
  <2>1. e.tx.seq \in Int /\ e.tx.source \in Accounts
        /\ acctSeq[e.tx.source] \in Int /\ e.tx.seq <= acctSeq[e.tx.source]
    BY <1>1 DEF NetTypeOK, Tx, SeqNums, Spent
  <2>2. acctSeq'[e.tx.source] \in {acctSeq[e.tx.source], acctSeq[e.tx.source] + 1}
    BY <1>1, <1>4, <2>1 DEF OwnerTx, NetTypeOK
  <2> QED
    BY <2>1, <2>2
<1> QED
  BY <1>2, <1>3, <1>4
     DEF Next, Boot, Advance, FetchSequence, Simulate, Send, Poll, Environment, NetNext,
         EvictTx, OutsideWrite, Arrive, Disconnect, DeliverLate, Crash, netVars, vars

\* The invariant of the refinement holds in every reachable state.
LEMMA PInvariance == Spec => []PInv
<1>1. Init => PInv
  <2> SUFFICES ASSUME Init PROVE PInv
    OBVIOUS
  <2>1. \A r \in Requests : StageFacts(r)
    BY DEF Init, ReqInit, StageFacts
  <2>2. Spent
    BY DEF Init, NetInit, Spent
  <2> QED
    BY <2>1, <2>2, InitInv DEF PInv
<1>2. PInv /\ [Next]_vars => PInv'
  BY StepInv, StageStep, SpentStep DEF PInv, IInv
<1> QED
  BY <1>1, <1>2, PTL DEF Spec

-----------------------------------------------------------------------------
(* The refinement.                                                         *)

\* Every behaviour of the proxy is a settlement: a refused or unsigned request
\* is never taken by the network, a reported status is a ledger's, and no
\* transaction is included twice, whoever sent it how often.
THEOREM ProxySettles == Spec => KeepsItsPromise
<1>1. Init => Promise!Init
  BY OutcomeCases DEF Init, NetInit, ReqInit, outcomes, Promise!Init
<1>2. PInv /\ [Next]_vars => [Promise!Next]_(Promise!promises)
  <2> SUFFICES ASSUME PInv, [Next]_vars PROVE [Promise!Next]_(Promise!promises)
    OBVIOUS
  <2>1. CASE UNCHANGED vars \/ Boot
    BY <2>1, Stutter DEF vars, Boot, netVars, reqVars
  <2>2. ASSUME NEW r \in Requests, Advance(r)
        PROVE  [Promise!Next]_(Promise!promises)
    BY <2>2, AdvanceSettles
  <2>3. CASE Environment
    BY <2>3, EnvironmentSettles
  <2> QED
    BY <2>1, <2>2, <2>3 DEF Next
<1> QED
  BY <1>1, <1>2, PInvariance, PTL DEF Spec, KeepsItsPromise, Promise!Spec
=============================================================================
