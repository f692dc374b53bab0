---------------------------- MODULE ProxyProofs ----------------------------
(***************************************************************************)
(* Theorems about module Proxy, for every contract, network and set of     *)
(* requests.  Neither TypeOK nor the safety properties are inductive: a    *)
(* reply is filed under what an earlier step of the same handler left in   *)
(* call and tx, so what each stage may rely on has to be an invariant too. *)
(***************************************************************************)
EXTENDS Proxy, SequenceTheorems, TLAPS

\* A request that came through the local checks.
Admitted(r) ==
  /\ call[r] \in Calls
  /\ call[r].source \in Accounts
  /\ call[r].fn \in DeclaredNames
  /\ ~BadArgs(call[r])

\* tx[r] is a transaction that call[r], a signed call, asked for.
Prepared(r) ==
  /\ tx[r] \in Tx
  /\ call[r].sign
  /\ call[r].source = tx[r].source
  /\ call[r].fn = tx[r].fn
  /\ tx[r].arg = SentArg(call[r])
  /\ tx[r].fee \in InclusionFee..U32Max

\* What each stage of a handler, and the network on its behalf, relies on.
HandlerOK(r) ==
  /\ pc[r] = "idle" => r \notin accepted \cup wire
  /\ pc[r] = "done" <=> answer[r] # "open"
  /\ InFlight(r) => Admitted(r)
  /\ pc[r] \in {"send", "poll"} \/ r \in accepted \cup wire => Prepared(r)
  /\ r \in accepted \cup wire =>
       /\ pc[r] \in {"poll", "done"}
       /\ answer[r] \notin Refusals \cup {"simulated"}
  /\ r \in accepted => call[r].key = tx[r].source

HandlersOK == \A r \in Requests : HandlerOK(r)

\* The inductive invariant: the types, the stages, and what the network holds.
IInv == TypeOK /\ HandlersOK /\ EveryTxWasAsked

-----------------------------------------------------------------------------
(* The constants.                                                          *)

\* Every declared entry is a record of the declared shape.
LEMMA DeclaredShape ==
  ASSUME NEW i \in 1..Len(Declared)
  PROVE  /\ Declared[i] \in [name : Names, takesArgs : BOOLEAN]
         /\ Declared[i].name \in Names
<1> DEFINE Entries == [name : Names, takesArgs : BOOLEAN]
<1>1. Declared \in Seq(Entries)
  BY DeclaredAssumption
<1> HIDE DEF Entries
<1>2. Declared[i] \in Entries
  BY <1>1, ElementOfSeq
<1> QED
  BY <1>2 DEF Entries

\* Len(Declared) is a number.
LEMMA DeclaredLength == Len(Declared) \in Nat /\ 1 \in 1..Len(Declared) + 1
<1> DEFINE Entries == [name : Names, takesArgs : BOOLEAN]
<1>1. Declared \in Seq(Entries)
  BY DeclaredAssumption
<1> HIDE DEF Entries
<1>2. Len(Declared) \in Nat
  BY <1>1, LenProperties
<1> QED
  BY <1>2

\* A call's fields are in their ranges.
LEMMA CallShape ==
  ASSUME NEW c \in Calls
  PROVE  /\ c.fn \in Names
         /\ c.arg \in Args \cup {Invalid}
         /\ c.source \in Accounts \cup {Absent, Invalid}
         /\ c.key \in Keys \cup {Absent, Invalid}
         /\ c.sign \in BOOLEAN
BY InvokeAssumption DEF CallRecord

-----------------------------------------------------------------------------
(* The handler's operators.                                                *)

\* What the local checks let through is admitted; the rest is refused.
LEMMA VerdictSound ==
  ASSUME NEW c \in Calls
  PROVE  /\ Verdict(c) \in {"open", "bad_request", "not_found", "method_not_allowed"}
         /\ Verdict(c) = "open" =>
              c.source \in Accounts /\ c.fn \in DeclaredNames /\ ~BadArgs(c)
BY CallShape DEF Verdict, BadHeaders

\* The assembled transaction is what an admitted call asks for.
LEMMA AssembledSound ==
  ASSUME TypeOK, NEW r \in Requests, Admitted(r), FeeFits(call[r].fn)
  PROVE  /\ AssembledTx(r) \in Tx
         /\ AssembledTx(r).source = call[r].source
         /\ AssembledTx(r).fn = call[r].fn
         /\ AssembledTx(r).arg = SentArg(call[r])
         /\ AssembledTx(r).fee \in InclusionFee..U32Max
<1> DEFINE c == call[r]
           arg == SentArg(c)
<1>1. c.fn \in Names /\ c.arg \in Args \cup {Invalid}
  BY CallShape DEF Admitted
<1>2. arg \in Args \cup {Absent}
  BY <1>1 DEF Admitted, BadArgs, SentArg
<1>3. seqOf[r] \in SeqNums
  BY DEF TypeOK, ReqTypeOK
<1>4. Writes(c.fn) \in BOOLEAN
  BY DEF Writes
<1>5. ResourceFee[c.fn] + InclusionFee \in InclusionFee..U32Max
  BY <1>1, InvokeAssumption DEF FeeFits
<1>6. ResourceFee[c.fn] + InclusionFee \in Int
  BY <1>1, InvokeAssumption
<1>7. c.source \in Accounts
  BY DEF Admitted
<1>8. AssembledTx(r) = [source |-> c.source, seq |-> seqOf[r], fn |-> c.fn,
                         arg |-> arg, rw |-> Writes(c.fn),
                         fee |-> ResourceFee[c.fn] + InclusionFee]
  BY DEF AssembledTx, InvokeTx
<1>9. AssembledTx(r) \in Tx
  <2> HIDE DEF c, arg
  <2> QED
    BY <1>1, <1>2, <1>3, <1>4, <1>6, <1>7, <1>8 DEF Tx
<1> QED
  BY <1>5, <1>8, <1>9

\* The next sequence number is an i64, wrapped or not.
LEMMA NextSeqRange ==
  ASSUME NEW n \in 0..MaxSeq
  PROVE  NextSeq(n) \in SeqNums
BY NetworkAssumption DEF NextSeq, SeqNums

-----------------------------------------------------------------------------
(* Frames.                                                                 *)

\* A handler that nothing happened to is as it was.
LEMMA HandlerFrame ==
  ASSUME NEW q, HandlerOK(q),
         pc'[q] = pc[q], call'[q] = call[q], tx'[q] = tx[q],
         answer'[q] = answer[q],
         q \in accepted' <=> q \in accepted,
         q \in wire' <=> q \in wire
  PROVE  HandlerOK(q)'
BY DEF HandlerOK, InFlight, Admitted, Prepared, BadArgs

\* What is queued or included stays asked for when no request is forgotten,
\* none of the accepted ones changes, and nothing else enters the queue.
LEMMA AskedFrame ==
  ASSUME EveryTxWasAsked,
         accepted \subseteq accepted',
         \A r \in accepted : tx'[r] = tx[r] /\ call'[r] = call[r],
         \A t \in pool' \cup {e.tx : e \in ledger'} :
           t \in pool \cup {e.tx : e \in ledger}
  PROVE  EveryTxWasAsked'
BY DEF EveryTxWasAsked, AskedBy
-----------------------------------------------------------------------------
(* Type correctness.                                                       *)

\* The empty map is a map.
LEMMA UnclassifiedTyped == Unclassified \in [Names -> Methods]
BY DEF Unclassified, Methods

\* Leaving the process resets the boot variables.
LEMMA LeaveTyped == LeaveProcess => BootTypeOK'
<1> SUFFICES ASSUME LeaveProcess PROVE BootTypeOK'
  OBVIOUS
<1> QED
  BY DeclaredLength, UnclassifiedTyped DEF LeaveProcess, BootTypeOK, Phases

\* A step of main keeps the boot variables typed.
LEMMA BootTyped == BootTypeOK /\ BootStep => BootTypeOK'
<1> SUFFICES ASSUME BootTypeOK, BootStep PROVE BootTypeOK'
  OBVIOUS
<1>2. CASE FetchSpec
  <2>1. CASE LeaveProcess
    BY <2>1, LeaveTyped
  <2>2. CASE ~LeaveProcess
    BY <1>2, <2>2 DEF FetchSpec, BootTypeOK, Phases
  <2> QED
    BY <2>1, <2>2
<1>3. CASE Probe
  <2>1. PICK m \in {"GET", "POST"} :
          probed' = [probed EXCEPT ![Declared[cursor].name] = m]
    BY <1>3 DEF Probe
  <2>2. probed' \in [Names -> Methods]
    BY <2>1 DEF BootTypeOK, Methods
  <2>3. cursor' \in 1..Len(Declared) + 1
    BY DeclaredLength, <1>3 DEF Probe, BootTypeOK
  <2> QED
    BY <1>3, <2>2, <2>3 DEF Probe, BootTypeOK
<1>4. CASE Publish
  BY <1>4 DEF Publish, BootTypeOK, Phases
<1>5. CASE Bind
  <2>1. CASE LeaveProcess
    BY <2>1, LeaveTyped
  <2>2. CASE ~LeaveProcess
    BY <1>5, <2>2 DEF Bind, BootTypeOK, Phases
  <2> QED
    BY <2>1, <2>2
<1> QED
  BY <1>2, <1>3, <1>4, <1>5 DEF BootStep

\* The network's own steps keep its variables typed.
LEMMA NetTyped == NetTypeOK /\ NetNext => NetTypeOK'
<1> SUFFICES ASSUME NetTypeOK, NetNext PROVE NetTypeOK'
  OBVIOUS
<1>1. ASSUME NEW t \in pool, ApplyTx(t) PROVE NetTypeOK'
  <2>1. t \in Tx /\ t.source \in Accounts /\ t.seq \in SeqNums
    BY DEF NetTypeOK, Tx
  <2>2. acctSeq[t.source] \in 0..MaxSeq /\ acctSeq[t.source] + 1 \in 0..MaxSeq
    BY <1>1, <2>1, NetworkAssumption DEF ApplyTx, NetTypeOK, SeqNums
  <2>3. acctSeq' \in [Accounts -> 0..MaxSeq]
    BY <1>1, <2>1, <2>2 DEF ApplyTx, NetTypeOK
  <2>4. PICK status \in TxStatus :
          /\ ledger' = ledger \cup {[tx |-> t, status |-> status]}
          /\ store' \in IF status = "SUCCESS" /\ Writes(t.fn) THEN States ELSE {store}
    BY <1>1 DEF ApplyTx
  <2>5. store' \in States
    BY <2>4 DEF NetTypeOK
  <2>6. ledger' \subseteq [tx : Tx, status : TxStatus]
    BY <2>1, <2>4 DEF NetTypeOK
  <2> QED
    BY <1>1, <2>3, <2>5, <2>6 DEF ApplyTx, NetTypeOK
<1>2. ASSUME NEW t \in pool, EvictTx(t) PROVE NetTypeOK'
  BY <1>2 DEF EvictTx, NetTypeOK
<1>3. ASSUME NEW a \in Accounts, OwnerTx(a) PROVE NetTypeOK'
  <2>1. acctSeq[a] + 1 \in 0..MaxSeq
    BY <1>3, NetworkAssumption DEF OwnerTx, NetTypeOK
  <2> QED
    BY <1>3, <2>1 DEF OwnerTx, NetTypeOK
<1>4. CASE OutsideWrite
  BY <1>4 DEF OutsideWrite, NetTypeOK
<1> QED
  BY <1>1, <1>2, <1>3, <1>4 DEF NetNext

\* What the node does with a prepared transaction keeps the queue typed.
LEMMA HandledTyped ==
  ASSUME NetTypeOK, ReqTypeOK, NEW r \in Requests, NEW st \in SendStatuses,
         Prepared(r), Handled(r, st),
         UNCHANGED <<acctSeq, store, ledger>>
  PROVE  NetTypeOK' /\ accepted' \subseteq Requests
BY DEF Handled, Prepared, NetTypeOK, ReqTypeOK

\* An answer that ends a handler is typed when it is one of Answers.
LEMMA FinishTyped ==
  ASSUME ReqTypeOK, NEW r \in Requests, NEW a \in Answers, Finish(r, a)
  PROVE  pc' \in [Requests -> Stages] /\ answer' \in [Requests -> Answers]
BY DEF ReqTypeOK, Finish, Goto, Stages

\* So is a handler that goes on to another stage.
LEMMA GotoTyped ==
  ASSUME ReqTypeOK, NEW r \in Requests, NEW s \in Stages, Goto(r, s)
  PROVE  pc' \in [Requests -> Stages]
BY DEF ReqTypeOK, Goto

\* The initial state is typed.
LEMMA InitTyped == Init => TypeOK
<1> SUFFICES ASSUME Init PROVE TypeOK
  OBVIOUS
<1>2. NetTypeOK
  BY NetworkAssumption DEF Init, NetInit, NetTypeOK
<1>3. BootTypeOK
  BY DeclaredLength, UnclassifiedTyped DEF Init, BootInit, BootTypeOK, Phases
<1>4. ReqTypeOK
  BY NetworkAssumption, InvokeAssumption
     DEF Init, ReqInit, ReqTypeOK, Stages, Answers, SeqNums
<1> QED
  BY <1>2, <1>3, <1>4 DEF TypeOK
\* A step of one handler, at any stage, keeps its variables typed.
LEMMA AdvanceTyped ==
  ASSUME TypeOK, HandlersOK, NEW r \in Requests, Advance(r)
  PROVE  TypeOK'
<1> USE DEF TypeOK, CallFails, SimulationFails
<1>1. ASSUME UNCHANGED bootVars PROVE BootTypeOK'
  BY <1>1 DEF bootVars, BootTypeOK
<1>2. ASSUME UNCHANGED netVars PROVE NetTypeOK'
  BY <1>2 DEF netVars, NetTypeOK
<1>3. {"open", "simulated", "upstream", "timed_out", "gone", "bad_request",
       "not_found", "method_not_allowed", "internal"} \cup TxStatus \subseteq Answers
  BY DEF Answers, Refusals
<1>4. InFlight(r) => Admitted(r)
  BY DEF HandlersOK, HandlerOK
<1>5. CASE FetchSequence(r)
  <2>1. InFlight(r) /\ call[r].source \in Accounts
    BY <1>4, <1>5 DEF FetchSequence, InFlight, Admitted
  <2>2. acctSeq[call[r].source] \in 0..MaxSeq
    BY <2>1 DEF NetTypeOK
  <2>3. CASE Finish(r, "bad_request") /\ UNCHANGED seqOf
    BY <1>1, <1>2, <1>3, <1>5, <2>3, FinishTyped DEF FetchSequence, ReqTypeOK
  <2>4. CASE Finish(r, "gone") /\ UNCHANGED seqOf
    BY <1>1, <1>2, <1>3, <1>5, <2>4, FinishTyped DEF FetchSequence, ReqTypeOK
  <2>5. CASE /\ seqOf' = [seqOf EXCEPT ![r] = NextSeq(acctSeq[call[r].source])]
             /\ Goto(r, "simulate")
             /\ UNCHANGED answer
    <3>1. seqOf' \in [Requests -> SeqNums]
      BY <2>2, <2>5, NextSeqRange DEF ReqTypeOK
    <3>2. pc' \in [Requests -> Stages]
      BY <2>5, GotoTyped DEF Stages
    <3> QED
      BY <1>1, <1>2, <1>5, <2>5, <3>1, <3>2 DEF FetchSequence, ReqTypeOK
  <2> QED
    BY <1>5, <2>3, <2>4, <2>5 DEF FetchSequence
<1>6. CASE Simulate(r)
  <2>1. ASSUME NEW a \in {"upstream", "bad_request", "internal", "simulated"},
               Finish(r, a), tx' \in [Requests -> Tx \cup {Absent}]
        PROVE  TypeOK'
    BY <1>1, <1>2, <1>3, <1>6, <2>1, FinishTyped DEF Simulate, ReqTypeOK
  <2>2. tx \in [Requests -> Tx \cup {Absent}]
    BY DEF ReqTypeOK
  <2>3. CASE \E a \in {"upstream", "bad_request", "internal"} : Finish(r, a) /\ UNCHANGED tx
    BY <2>1, <2>2, <2>3
  <2>4. CASE FeeFits(call[r].fn) /\ tx' = [tx EXCEPT ![r] = AssembledTx(r)]
    <3>1. AssembledTx(r) \in Tx
      BY <1>4, <1>6, <2>4, AssembledSound DEF Simulate, InFlight
    <3>2. tx' \in [Requests -> Tx \cup {Absent}]
      BY <2>2, <2>4, <3>1
    <3>3. CASE Handover(r)
      BY <2>1, <3>2, <3>3 DEF Handover
    <3>4. CASE Goto(r, "send") /\ UNCHANGED answer
      <4>1. pc' \in [Requests -> Stages]
        BY <3>4, GotoTyped DEF Stages
      <4> QED
        BY <1>1, <1>2, <1>6, <3>2, <3>4, <4>1 DEF Simulate, ReqTypeOK
    <3>5. CASE Finish(r, "bad_request") /\ UNCHANGED tx
      BY <2>1, <2>2, <3>5
    <3> QED
      BY <1>6, <2>3, <2>4, <3>3, <3>4, <3>5 DEF Simulate, Sign
  <2>5. CASE Finish(r, "bad_request") /\ UNCHANGED tx
    BY <2>1, <2>2, <2>5
  <2> QED
    BY <1>6, <2>3, <2>4, <2>5 DEF Simulate, Handover, Sign
<1>7. CASE Send(r)
  <2>1. Prepared(r)
    BY <1>7 DEF Send, HandlersOK, HandlerOK
  <2>2. CASE SendFailure(r) /\ UNCHANGED <<pool, accepted>>
    <3>1. pc' \in [Requests -> Stages] /\ answer' \in [Requests -> Answers]
      BY <1>3, <2>2, FinishTyped DEF SendFailure
    <3> QED
      BY <1>1, <1>7, <2>2, <3>1 DEF Send, SendFailure, ReqTypeOK, NetTypeOK
  <2>3. ASSUME NEW st \in SendStatuses, Handled(r, st), Replied(r, st), UNCHANGED wire
        PROVE  TypeOK'
    <3>1. NetTypeOK' /\ accepted' \subseteq Requests
      BY <1>7, <2>1, <2>3, HandledTyped DEF Send
    <3>2. pc' \in [Requests -> Stages] /\ answer' \in [Requests -> Answers]
      <4>1. CASE Finish(r, "bad_request")
        BY <1>3, <4>1, FinishTyped
      <4>2. CASE Goto(r, "poll") /\ UNCHANGED answer
        BY <4>2, GotoTyped DEF Stages, ReqTypeOK
      <4> QED
        BY <2>3, <4>1, <4>2 DEF Replied
    <3> QED
      BY <1>1, <1>7, <2>3, <3>1, <3>2 DEF Send, ReqTypeOK
  <2> QED
    BY <1>7, <2>2, <2>3 DEF Send
<1>8. CASE Poll(r)
  <2>1. ASSUME NEW a \in {"upstream", "timed_out"} \cup TxStatus,
               Finish(r, a), UNCHANGED polls
        PROVE  TypeOK'
    BY <1>1, <1>2, <1>3, <1>8, <2>1, FinishTyped DEF Poll, ReqTypeOK
  <2>2. CASE /\ ~LastPoll(r)
             /\ polls' = [polls EXCEPT ![r] = @ + 1]
             /\ UNCHANGED <<pc, answer>>
    <3>1. polls[r] + 1 \in 0..MaxPolls - 1
      BY <2>2, InvokeAssumption DEF LastPoll, ReqTypeOK
    <3>2. polls' \in [Requests -> 0..MaxPolls - 1]
      BY <2>2, <3>1 DEF ReqTypeOK
    <3> QED
      BY <1>1, <1>2, <1>8, <2>2, <3>2 DEF Poll, ReqTypeOK
  <2> QED
    BY <1>8, <2>1, <2>2 DEF Poll
<1> QED
  BY <1>5, <1>6, <1>7, <1>8 DEF Advance

\* So do the steps of the clients, of the network and of a dying process.
LEMMA EnvironmentTyped ==
  ASSUME TypeOK, HandlersOK, Environment
  PROVE  TypeOK'
<1> USE DEF TypeOK
<1>1. ASSUME UNCHANGED bootVars PROVE BootTypeOK'
  BY <1>1 DEF bootVars, BootTypeOK
<1>2. ASSUME UNCHANGED netVars PROVE NetTypeOK'
  BY <1>2 DEF netVars, NetTypeOK
<1>3. ASSUME UNCHANGED reqVars PROVE ReqTypeOK'
  BY <1>3 DEF reqVars, ReqTypeOK
<1>4. CASE NetNext /\ UNCHANGED <<bootVars, reqVars>>
  BY <1>1, <1>3, <1>4, NetTyped
<1>5. CASE Restart /\ UNCHANGED <<netVars, reqVars>>
  <2>1. BootTypeOK'
    BY <1>5 DEF Restart, BootTypeOK, Phases
  <2> QED
    BY <1>2, <1>3, <1>5, <2>1
<1>6. ASSUME NEW r \in Requests, NEW c \in Calls, Arrive(r, c) PROVE TypeOK'
  <2>1. call' \in [Requests -> Calls \cup {Absent}]
    BY <1>6 DEF Arrive, ReqTypeOK
  <2>2. CASE Verdict(c) = "open"
    <3>1. pc' \in [Requests -> Stages] /\ UNCHANGED answer
      BY <1>6, <2>2, GotoTyped DEF Arrive, Stages
    <3> QED
      BY <1>1, <1>2, <1>6, <2>1, <3>1 DEF Arrive, ReqTypeOK
  <2>3. CASE Verdict(c) # "open"
    <3>1. Verdict(c) \in Answers
      BY VerdictSound DEF Answers, Refusals
    <3>2. pc' \in [Requests -> Stages] /\ answer' \in [Requests -> Answers]
      BY <1>6, <2>3, <3>1, FinishTyped DEF Arrive
    <3> QED
      BY <1>1, <1>2, <1>6, <2>1, <3>2 DEF Arrive, ReqTypeOK
  <2> QED
    BY <2>2, <2>3
<1>7. ASSUME NEW r \in Requests, Disconnect(r) PROVE TypeOK'
  <2>1. pc' \in [Requests -> Stages] /\ answer' \in [Requests -> Answers]
    BY <1>7, FinishTyped DEF Disconnect, Answers
  <2> QED
    BY <1>1, <1>2, <1>7, <2>1 DEF Disconnect, Sending, ReqTypeOK
<1>8. ASSUME NEW r \in Requests, DeliverLate(r) PROVE TypeOK'
  <2>1. PICK st \in SendStatuses : Handled(r, st)
    BY <1>8 DEF DeliverLate
  <2>2. Prepared(r)
    BY <1>8 DEF DeliverLate, HandlersOK, HandlerOK
  <2>3. NetTypeOK' /\ accepted' \subseteq Requests
    BY <1>8, <2>1, <2>2, HandledTyped DEF DeliverLate
  <2> QED
    BY <1>1, <1>8, <2>3 DEF DeliverLate, ReqTypeOK
<1>9. CASE Crash
  <2>1. pc' \in [Requests -> Stages] /\ answer' \in [Requests -> Answers]
    BY <1>9 DEF Crash, ReqTypeOK, Stages, Answers
  <2> QED
    BY <1>2, <1>9, <2>1, LeaveTyped DEF Crash, Sending, ReqTypeOK
<1> QED
  BY <1>4, <1>5, <1>6, <1>7, <1>8, <1>9 DEF Environment
-----------------------------------------------------------------------------
(* What the stages rely on.                                                *)

\* Initially no handler has begun.
LEMMA InitHandlers == Init => HandlersOK
BY DEF Init, ReqInit, HandlersOK, HandlerOK, InFlight

\* A step that only r's handler takes leaves the others as they were.
LEMMA OthersFrame ==
  ASSUME HandlersOK, NEW r \in Requests, HandlerOK(r)',
         \A q \in Requests \ {r} :
           /\ pc'[q] = pc[q] /\ call'[q] = call[q] /\ tx'[q] = tx[q]
           /\ answer'[q] = answer[q]
           /\ q \in accepted' <=> q \in accepted
           /\ q \in wire' <=> q \in wire
  PROVE  HandlersOK'
<1> SUFFICES ASSUME NEW q \in Requests PROVE HandlerOK(q)'
  BY DEF HandlersOK
<1>1. CASE q = r
  BY <1>1
<1>2. CASE q # r
  BY <1>2, HandlerFrame DEF HandlersOK
<1> QED
  BY <1>1, <1>2

\* A handler that ends before it sent anything.
LEMMA EndedEarly ==
  ASSUME TypeOK, HandlersOK, NEW r \in Requests, NEW a \in Answers \ {"open"},
         pc[r] \notin {"poll", "done"}, Finish(r, a),
         UNCHANGED <<wire, accepted>>
  PROVE  HandlerOK(r)'
BY DEF TypeOK, ReqTypeOK, HandlersOK, HandlerOK, Finish, Goto, InFlight, Prepared

\* A handler's steps keep what the stages rely on.
LEMMA AdvanceHandlers ==
  ASSUME TypeOK, HandlersOK, NEW r \in Requests, Advance(r)
  PROVE  HandlersOK'
<1> USE DEF ReqTypeOK, TypeOK, CallFails, SimulationFails
<1>1. HandlerOK(r) /\ pc[r] \in Stages
  BY DEF HandlersOK
<1>2. InFlight(r) => Admitted(r) /\ answer[r] = "open"
  BY <1>1 DEF HandlerOK, InFlight
<1>3. {"upstream", "timed_out", "gone", "bad_request", "internal", "simulated"}
        \cup TxStatus \subseteq Answers \ {"open"}
  BY DEF Answers, Refusals, TxStatus
<1>4. CASE FetchSequence(r)
  <2>1. HandlerOK(r)'
    <3>1. ASSUME NEW a \in {"bad_request", "gone"}, Finish(r, a) PROVE HandlerOK(r)'
      BY <1>3, <1>4, <3>1, EndedEarly DEF FetchSequence
    <3>2. CASE Goto(r, "simulate") /\ UNCHANGED answer
      BY <1>1, <1>2, <1>4, <3>2
         DEF FetchSequence, Goto, HandlerOK, InFlight, Admitted, BadArgs, Prepared
    <3> QED
      BY <1>4, <3>1, <3>2 DEF FetchSequence
  <2> QED
    BY <1>4, <2>1, OthersFrame DEF FetchSequence, Finish, Goto
<1>5. CASE Simulate(r)
  <2>1. pc[r] = "simulate" /\ Admitted(r)
    BY <1>2, <1>5 DEF Simulate, InFlight
  <2>2. HandlerOK(r)'
    <3>1. ASSUME NEW a \in {"upstream", "bad_request", "internal", "simulated"},
                 Finish(r, a)
          PROVE  HandlerOK(r)'
      BY <1>3, <1>5, <2>1, <3>1, EndedEarly DEF Simulate
    <3>2. CASE /\ FeeFits(call[r].fn) /\ call[r].sign /\ call[r].key \in Keys
               /\ tx' = [tx EXCEPT ![r] = AssembledTx(r)]
               /\ Goto(r, "send") /\ UNCHANGED answer
      <4>1. tx'[r] = AssembledTx(r) /\ call' = call
        BY <1>5, <3>2 DEF Simulate
      <4>2. Prepared(r)'
        BY <2>1, <3>2, <4>1, AssembledSound DEF Prepared
      <4>3. r \notin accepted' \cup wire'
        BY <1>1, <1>5, <2>1 DEF HandlerOK, Simulate
      <4> QED
        BY <1>2, <1>5, <2>1, <3>2, <4>1, <4>2, <4>3
           DEF HandlerOK, Goto, InFlight, Admitted, BadArgs
    <3> QED
      BY <1>5, <3>1, <3>2 DEF Simulate, Handover, Sign
  <2> QED
    BY <1>5, <2>2, OthersFrame DEF Simulate, Handover, Sign, Finish, Goto
<1>6. CASE Send(r)
  <2>1. pc[r] = "send" /\ Prepared(r) /\ Admitted(r) /\ answer[r] = "open"
    BY <1>1, <1>2, <1>6 DEF Send, HandlerOK, InFlight
  <2>2. r \notin accepted \cup wire
    BY <1>1, <2>1 DEF HandlerOK
  <2>3. Prepared(r)' /\ Admitted(r)' /\ call' = call /\ tx' = tx
    BY <1>6, <2>1 DEF Send, Prepared, Admitted, BadArgs
  <2>4. CASE SendFailure(r) /\ UNCHANGED <<pool, accepted>>
    <3>1. HandlerOK(r)'
      BY <2>2, <2>3, <2>4 DEF SendFailure, Finish, Goto, HandlerOK, InFlight, Refusals
    <3> QED
      BY <1>6, <2>4, <3>1, OthersFrame DEF Send, SendFailure, Finish, Goto
  <2>5. ASSUME NEW st \in SendStatuses, Handled(r, st), Replied(r, st), UNCHANGED wire
        PROVE  HandlersOK'
    <3>1. CASE st = "ERROR"
      <4>1. HandlerOK(r)'
        BY <1>3, <2>1, <2>5, <3>1, EndedEarly DEF Handled, Replied
      <4> QED
        BY <1>6, <2>5, <3>1, <4>1, OthersFrame DEF Send, Handled, Replied, Finish, Goto
    <3>2. CASE st # "ERROR"
      <4>1. st = "PENDING" => call[r].key = tx[r].source
        BY <2>5 DEF Handled, SendStatus, ValidTx
      <4>2. HandlerOK(r)'
        BY <2>1, <2>2, <2>3, <2>5, <3>2, <4>1
           DEF Handled, Replied, Goto, HandlerOK, InFlight, Refusals
      <4> QED
        BY <1>6, <2>5, <3>2, <4>2, OthersFrame DEF Send, Handled, Replied, Goto
    <3> QED
      BY <3>1, <3>2
  <2> QED
    BY <1>6, <2>4, <2>5 DEF Send
<1>7. CASE Poll(r)
  <2>1. pc[r] = "poll" /\ Prepared(r) /\ Admitted(r)
    BY <1>1, <1>2, <1>7 DEF Poll, HandlerOK, InFlight
  <2>2. Prepared(r)' /\ Admitted(r)'
    BY <1>7, <2>1 DEF Poll, Prepared, Admitted, BadArgs
  <2>3. HandlerOK(r)'
    <3>1. ASSUME NEW a \in {"upstream", "timed_out"} \cup TxStatus, Finish(r, a)
          PROVE  HandlerOK(r)'
      BY <1>1, <1>7, <2>2, <3>1
         DEF Poll, Finish, Goto, HandlerOK, InFlight, Refusals, TxStatus
    <3>2. CASE UNCHANGED <<pc, answer>>
      BY <1>1, <1>7, <3>2, HandlerFrame DEF Poll
    <3> QED
      BY <1>7, <3>1, <3>2 DEF Poll
  <2> QED
    BY <1>7, <2>3, OthersFrame DEF Poll, Finish, Goto
<1> QED
  BY <1>4, <1>5, <1>6, <1>7 DEF Advance

\* So do the environment's.
LEMMA EnvironmentHandlers ==
  ASSUME TypeOK, HandlersOK, Environment
  PROVE  HandlersOK'
<1> USE DEF ReqTypeOK, TypeOK
<1>1. ASSUME UNCHANGED reqVars PROVE HandlersOK'
  BY <1>1, HandlerFrame DEF HandlersOK, reqVars
<1>2. ASSUME NEW r \in Requests, NEW c \in Calls, Arrive(r, c) PROVE HandlersOK'
  <2>1. HandlerOK(r) /\ pc[r] = "idle" /\ r \notin accepted \cup wire
        /\ call'[r] = c /\ c \in CallRecord
    BY <1>2, InvokeAssumption DEF Arrive, HandlersOK, HandlerOK
  <2>2. answer[r] = "open"
    BY <2>1 DEF HandlerOK
  <2>3. HandlerOK(r)'
    <3>1. CASE Verdict(c) = "open"
      <4>1. Admitted(r)'
        BY <2>1, <3>1, VerdictSound DEF Admitted, BadArgs
      <4> QED
        BY <1>2, <2>1, <2>2, <3>1, <4>1 DEF Arrive, Goto, HandlerOK, InFlight
    <3>2. CASE Verdict(c) # "open"
      BY <1>2, <2>1, <3>2 DEF Arrive, Finish, Goto, HandlerOK, InFlight
    <3> QED
      BY <3>1, <3>2
  <2> QED
    BY <1>2, <2>3, OthersFrame DEF Arrive, Finish, Goto
<1>3. ASSUME NEW r \in Requests, Disconnect(r) PROVE HandlersOK'
  <2>1. HandlerOK(r)
    BY DEF HandlersOK
  <2>2. Prepared(r) => Prepared(r)'
    BY <1>3 DEF Disconnect, Prepared
  <2>3. HandlerOK(r)'
    BY <1>3, <2>1, <2>2
       DEF Disconnect, Sending, Finish, Goto, HandlerOK, InFlight, Refusals
  <2> QED
    BY <1>3, <2>3, OthersFrame DEF Disconnect, Sending, Finish, Goto
<1>4. ASSUME NEW r \in Requests, DeliverLate(r) PROVE HandlersOK'
  <2>1. PICK st \in SendStatuses : Handled(r, st)
    BY <1>4 DEF DeliverLate
  <2>2. HandlerOK(r) /\ Prepared(r)
    BY <1>4 DEF DeliverLate, HandlersOK, HandlerOK
  <2>3. Prepared(r)' /\ (Admitted(r) => Admitted(r)')
    BY <1>4, <2>2 DEF DeliverLate, Prepared, Admitted, BadArgs
  <2>4. HandlerOK(r)'
    BY <1>4, <2>1, <2>2, <2>3
       DEF DeliverLate, Handled, SendStatus, ValidTx, HandlerOK, InFlight
  <2> QED
    BY <1>4, <2>1, <2>4, OthersFrame DEF DeliverLate, Handled
<1>5. ASSUME Crash PROVE HandlersOK'
  <2> SUFFICES ASSUME NEW q \in Requests PROVE HandlerOK(q)'
    BY DEF HandlersOK
  <2>1. HandlerOK(q)
    BY DEF HandlersOK
  <2>2. Prepared(q) => Prepared(q)'
    BY <1>5 DEF Crash, Prepared
  <2>3. CASE InFlight(q)
    BY <1>5, <2>1, <2>2, <2>3 DEF Crash, Sending, HandlerOK, InFlight, Refusals
  <2>4. CASE ~InFlight(q)
    <3>1. q \in wire' <=> q \in wire
      BY <1>5, <2>4 DEF Crash, Sending, InFlight
    <3> QED
      BY <1>5, <2>1, <2>4, <3>1, HandlerFrame DEF Crash
  <2> QED
    BY <2>3, <2>4
<1> QED
  BY <1>1, <1>2, <1>3, <1>4, <1>5 DEF Environment
-----------------------------------------------------------------------------
(* What the network holds was asked for.                                   *)

\* The node's handling of a prepared transaction adds only that one.
LEMMA HandledAsked ==
  ASSUME EveryTxWasAsked, NEW r \in Requests, NEW st \in SendStatuses,
         Prepared(r), Handled(r, st), UNCHANGED <<call, tx, ledger>>
  PROVE  EveryTxWasAsked'
<1>1. CASE st = "PENDING"
  <2>1. /\ pool' = pool \cup {tx[r]} /\ accepted' = accepted \cup {r}
        /\ call[r].key = tx[r].source
    BY <1>1 DEF Handled, SendStatus, ValidTx
  <2>2. AskedBy(tx[r], r)'
    BY <2>1 DEF AskedBy, Prepared
  <2> SUFFICES ASSUME NEW t \in pool' \cup {e.tx : e \in ledger'}
               PROVE  \E q \in accepted' : tx'[q] = t /\ AskedBy(t, q)'
    BY DEF EveryTxWasAsked, AskedBy
  <2>3. CASE t = tx[r]
    BY <2>1, <2>2, <2>3
  <2>4. CASE t # tx[r]
    <3>1. PICK q \in accepted : tx[q] = t /\ AskedBy(t, q)
      BY <2>1, <2>4 DEF EveryTxWasAsked
    <3> QED
      BY <2>1, <3>1 DEF AskedBy
  <2> QED
    BY <2>3, <2>4
<1>2. CASE st # "PENDING"
  BY <1>2, AskedFrame DEF Handled
<1> QED
  BY <1>1, <1>2

\* No step brings the network a transaction nobody asked for.
LEMMA AskedStep == IInv /\ [Next]_vars => EveryTxWasAsked'
<1> SUFFICES ASSUME IInv, [Next]_vars PROVE EveryTxWasAsked'
  OBVIOUS
<1> USE DEF IInv
<1>1. \A r \in Requests : HandlerOK(r)
  BY DEF HandlersOK
<1>2. CASE UNCHANGED vars
  BY <1>2, AskedFrame DEF vars, netVars, reqVars
<1>3. CASE Boot
  BY <1>3, AskedFrame DEF Boot, netVars, reqVars
<1>4. ASSUME NEW r \in Requests, Advance(r) PROVE EveryTxWasAsked'
  <2>1. CASE FetchSequence(r) \/ Poll(r)
    BY <2>1, AskedFrame DEF FetchSequence, Poll, netVars
  <2>2. CASE Simulate(r)
    <3>1. r \notin accepted
      BY <1>1, <2>2 DEF Simulate, HandlerOK
    <3>2. \A q \in accepted : tx'[q] = tx[q]
      BY <2>2, <3>1 DEF Simulate, Handover, Sign, TypeOK, ReqTypeOK
    <3> QED
      BY <2>2, <3>2, AskedFrame DEF Simulate, netVars
  <2>3. CASE Send(r)
    <3>1. Prepared(r) /\ UNCHANGED <<call, tx, ledger>>
      BY <1>1, <2>3 DEF Send, HandlerOK
    <3> QED
      BY <2>3, <3>1, HandledAsked, AskedFrame DEF Send
  <2> QED
    BY <1>4, <2>1, <2>2, <2>3 DEF Advance
<1>5. CASE Environment
  <2>1. CASE NetNext /\ UNCHANGED <<bootVars, reqVars>>
    <3>1. \A t \in pool' \cup {e.tx : e \in ledger'} :
            t \in pool \cup {e.tx : e \in ledger}
      BY <2>1 DEF NetNext, ApplyTx, EvictTx, OwnerTx, OutsideWrite
    <3> QED
      BY <2>1, <3>1, AskedFrame DEF reqVars
  <2>2. CASE Restart /\ UNCHANGED <<netVars, reqVars>>
    BY <2>2, AskedFrame DEF netVars, reqVars
  <2>3. ASSUME NEW r \in Requests, NEW c \in Calls, Arrive(r, c) PROVE EveryTxWasAsked'
    <3>1. r \notin accepted
      BY <1>1, <2>3 DEF Arrive, HandlerOK
    <3>2. \A q \in accepted : call'[q] = call[q]
      BY <2>3, <3>1 DEF Arrive, TypeOK, ReqTypeOK
    <3> QED
      BY <2>3, <3>2, AskedFrame DEF Arrive, netVars
  <2>4. ASSUME NEW r \in Requests, Disconnect(r) PROVE EveryTxWasAsked'
    BY <2>4, AskedFrame DEF Disconnect, netVars
  <2>5. ASSUME NEW r \in Requests, DeliverLate(r) PROVE EveryTxWasAsked'
    BY <1>1, <2>5, HandledAsked DEF DeliverLate, HandlerOK
  <2>6. CASE Crash
    BY <2>6, AskedFrame DEF Crash, netVars
  <2> QED
    BY <1>5, <2>1, <2>2, <2>3, <2>4, <2>5, <2>6 DEF Environment
<1> QED
  BY <1>2, <1>3, <1>4, <1>5 DEF Next

-----------------------------------------------------------------------------
(* The inductive invariant, and what follows from it.                      *)

\* The inductive invariant holds initially.
LEMMA InitInv == Init => IInv
<1> SUFFICES ASSUME Init PROVE IInv
  OBVIOUS
<1>1. EveryTxWasAsked
  BY DEF Init, NetInit, EveryTxWasAsked
<1> QED
  BY <1>1, InitTyped, InitHandlers DEF IInv

\* Every step keeps it.
LEMMA StepInv == IInv /\ [Next]_vars => IInv'
<1> SUFFICES ASSUME IInv, [Next]_vars PROVE TypeOK' /\ HandlersOK'
  BY AskedStep DEF IInv
<1> USE DEF IInv
<1>1. CASE UNCHANGED vars
  <2>1. TypeOK'
    BY <1>1 DEF vars, netVars, bootVars, reqVars, TypeOK, NetTypeOK, BootTypeOK, ReqTypeOK
  <2>2. HandlersOK'
    BY <1>1, HandlerFrame DEF HandlersOK, vars, reqVars
  <2> QED
    BY <2>1, <2>2
<1>2. CASE Boot
  <2>1. TypeOK'
    BY <1>2, BootTyped DEF Boot, netVars, reqVars, TypeOK, NetTypeOK, ReqTypeOK
  <2>2. HandlersOK'
    BY <1>2, HandlerFrame DEF HandlersOK, Boot, reqVars
  <2> QED
    BY <2>1, <2>2
<1>3. ASSUME NEW r \in Requests, Advance(r) PROVE TypeOK' /\ HandlersOK'
  BY <1>3, AdvanceTyped, AdvanceHandlers
<1>4. CASE Environment
  BY <1>4, EnvironmentTyped, EnvironmentHandlers
<1> QED
  BY <1>1, <1>2, <1>3, <1>4 DEF Next

\* The inductive invariant holds in every reachable state.
THEOREM Invariance == Spec => []IInv
<1> QED
  BY InitInv, StepInv, PTL DEF Spec

\* Every variable keeps its range: no account or transaction has a sequence
\* number that is not an i64, no poll count reaches the bound.
THEOREM TypeCorrect == Spec => []TypeOK
<1>1. IInv => TypeOK
  BY DEF IInv
<1> QED
  BY <1>1, Invariance, PTL

\* Whoever is answered with a refusal, or with an unsigned envelope, has
\* nothing in the network and nothing on the way to it.
THEOREM RefusalsLeaveNoTrace == Spec => []RefusedLeftNoTrace
<1>1. IInv => RefusedLeftNoTrace
  BY DEF IInv, HandlersOK, HandlerOK, RefusedLeftNoTrace
<1> QED
  BY <1>1, Invariance, PTL

\* Every transaction in the network is one that a signed request asked for.
THEOREM TransactionsWereAsked == Spec => []EveryTxWasAsked
<1>1. IInv => EveryTxWasAsked
  BY DEF IInv
<1> QED
  BY <1>1, Invariance, PTL
-----------------------------------------------------------------------------
(* Answers.                                                                *)

\* Another handler's step, or none at all, does not touch an answered request.
LEMMA AnswerStep == IInv /\ [Next]_vars => [AnswersAreFinal]_vars
<1> DEFINE Kept(q) == /\ answer'[q] = answer[q]
                      /\ q \in accepted' \cup wire' => q \in accepted \cup wire
<1> SUFFICES ASSUME IInv, [Next]_vars, NEW r \in Requests, answer[r] # "open"
             PROVE  Kept(r)
  BY DEF AnswersAreFinal
<1> USE DEF IInv, TypeOK, ReqTypeOK, CallFails, SimulationFails
<1>1. pc[r] = "done"
  BY DEF HandlersOK, HandlerOK
<1>2. CASE UNCHANGED vars
  BY <1>2 DEF vars, reqVars
<1>3. CASE Boot
  BY <1>3 DEF Boot, reqVars
<1>4. ASSUME NEW q \in Requests, Advance(q)
      PROVE  Kept(r)
  <2>1. q # r
    BY <1>1, <1>4 DEF Advance, FetchSequence, Simulate, Send, Poll
  <2>2. CASE FetchSequence(q)
    BY <2>1, <2>2 DEF FetchSequence, Finish, Goto
  <2>3. CASE Simulate(q)
    BY <2>1, <2>3 DEF Simulate, Handover, Sign, Finish, Goto
  <2>4. CASE Send(q)
    BY <2>1, <2>4 DEF Send, SendFailure, Handled, Replied, Finish, Goto
  <2>5. CASE Poll(q)
    BY <2>1, <2>5 DEF Poll, Finish, Goto
  <2> QED
    BY <1>4, <2>2, <2>3, <2>4, <2>5 DEF Advance
<1>5. CASE Environment
  <2>1. ASSUME UNCHANGED reqVars PROVE Kept(r)
    BY <2>1 DEF reqVars
  <2>2. ASSUME NEW q \in Requests, NEW c \in Calls, Arrive(q, c)
        PROVE  Kept(r)
    <3>1. q # r
      BY <1>1, <2>2 DEF Arrive
    <3>2. answer'[r] = answer[r]
      <4>1. CASE Verdict(c) = "open"
        BY <2>2, <4>1 DEF Arrive
      <4>2. CASE Verdict(c) # "open"
        BY <2>2, <3>1, <4>2 DEF Arrive, Finish
      <4> QED
        BY <4>1, <4>2
    <3> QED
      BY <2>2, <3>2 DEF Arrive
  <2>3. ASSUME NEW q \in Requests, Disconnect(q)
        PROVE  Kept(r)
    <3>1. q # r
      BY <1>1, <2>3 DEF Disconnect, InFlight
    <3>2. answer'[r] = answer[r]
      BY <2>3, <3>1 DEF Disconnect, Finish
    <3> QED
      BY <2>3, <3>1, <3>2 DEF Disconnect, Sending
  <2>4. ASSUME NEW q \in Requests, DeliverLate(q)
        PROVE  Kept(r)
    BY <2>4 DEF DeliverLate, Handled
  <2>5. CASE Crash
    <3>1. ~InFlight(r) /\ r \notin Sending(Requests)
      BY <1>1 DEF InFlight, Sending
    <3>2. answer'[r] = answer[r]
      BY <2>5, <3>1 DEF Crash
    <3> QED
      BY <2>5, <3>1, <3>2 DEF Crash
  <2> HIDE DEF Kept
  <2> QED
    BY <1>5, <2>1, <2>2, <2>3, <2>4, <2>5 DEF Environment
<1> HIDE DEF Kept
<1> QED
  BY <1>2, <1>3, <1>4, <1>5 DEF Next

\* No handler goes on after its request has an answer, or nobody to answer.
THEOREM SilenceAfterAnswer == Spec => NothingAfterTheAnswer
<1> QED
  BY Invariance, AnswerStep, PTL DEF Spec, NothingAfterTheAnswer

\* With the prepared transaction of a request, its final status stays true.
LEMMA FinalStep == IInv /\ FinalAnswerIsTrue /\ [Next]_vars => FinalAnswerIsTrue'
<1> SUFFICES ASSUME IInv, FinalAnswerIsTrue, [Next]_vars,
                    NEW r \in Requests, answer'[r] \in TxStatus
             PROVE  \E e \in ledger' :
                      /\ e.tx = tx'[r] /\ e.status = answer'[r]
                      /\ e.tx.source = call'[r].source /\ e.tx.fn = call'[r].fn
                      /\ e.tx.arg = SentArg(call'[r])
  BY DEF FinalAnswerIsTrue
<1> USE DEF IInv, TypeOK, ReqTypeOK, CallFails, SimulationFails
<1>1. ledger \subseteq ledger'
  BY DEF Next, Boot, Advance, FetchSequence, Simulate, Send, Poll, Environment,
         NetNext, ApplyTx, EvictTx, OwnerTx, OutsideWrite, Arrive, Disconnect,
         DeliverLate, Crash, vars, netVars
<1>2. CASE answer[r] \in TxStatus
  <2>1. pc[r] = "done"
    BY <1>2 DEF HandlersOK, HandlerOK, TxStatus
  <2>2. tx'[r] = tx[r] /\ call'[r] = call[r]
    BY <2>1 DEF Next, Boot, Advance, FetchSequence, Simulate, Handover, Sign, Send, Poll,
                Environment, Arrive, Disconnect, DeliverLate, Crash, vars, reqVars
  <2>3. answer'[r] = answer[r]
    BY <1>2, AnswerStep DEF AnswersAreFinal, TxStatus, vars, reqVars
  <2> QED
    BY <1>1, <1>2, <2>2, <2>3 DEF FinalAnswerIsTrue
<1>3. CASE answer[r] \notin TxStatus
  <2>1. Poll(r)
    <3>1. CASE UNCHANGED vars \/ Boot
      BY <1>3, <3>1 DEF vars, Boot, reqVars
    <3>2. ASSUME NEW q \in Requests, FetchSequence(q) PROVE FALSE
      BY <1>3, <3>2 DEF FetchSequence, Finish, TxStatus
    <3>3. ASSUME NEW q \in Requests, Simulate(q) PROVE FALSE
      BY <1>3, <3>3 DEF Simulate, Handover, Sign, Finish, TxStatus
    <3>4. ASSUME NEW q \in Requests, Send(q) PROVE FALSE
      BY <1>3, <3>4 DEF Send, SendFailure, Replied, Finish, TxStatus
    <3>5. ASSUME NEW q \in Requests, Poll(q) PROVE q = r
      BY <1>3, <3>5 DEF Poll, Finish
    <3>6. ASSUME NEW q \in Requests, NEW c \in Calls, Arrive(q, c) PROVE FALSE
      BY <1>3, <3>6, VerdictSound DEF Arrive, Finish, TxStatus
    <3>7. ASSUME NEW q \in Requests, Disconnect(q) \/ DeliverLate(q) PROVE FALSE
      BY <1>3, <3>7 DEF Disconnect, DeliverLate, Finish, TxStatus
    <3>8. CASE Crash
      BY <1>3, <3>8 DEF Crash, TxStatus
    <3> QED
      BY <1>3, <3>1, <3>2, <3>3, <3>4, <3>5, <3>6, <3>7, <3>8
         DEF Next, Advance, Environment, reqVars
  <2>2. Found(r, answer'[r])
    BY <1>3, <2>1 DEF Poll, Finish, TxStatus
  <2>3. Prepared(r)
    BY <2>1 DEF Poll, HandlersOK, HandlerOK
  <2>4. UNCHANGED <<tx, call, ledger>>
    BY <2>1 DEF Poll, netVars
  <2> QED
    BY <2>2, <2>3, <2>4 DEF Found, Prepared
<1> QED
  BY <1>2, <1>3

\* A final status is the outcome of the transaction that was asked for.
THEOREM FinalAnswersAreTrue == Spec => []FinalAnswerIsTrue
<1>1. Init => FinalAnswerIsTrue
  BY DEF Init, ReqInit, FinalAnswerIsTrue, TxStatus
<1> QED
  BY <1>1, FinalStep, Invariance, PTL DEF Spec
=============================================================================
