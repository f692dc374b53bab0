------------------------------- MODULE Proxy -------------------------------
(***************************************************************************)
(* The whole system: the proxy's start, its requests, the network they     *)
(* talk to, and a process that may crash and be started again.             *)
(***************************************************************************)
EXTENDS Invoke

vars == <<netVars, bootVars, reqVars>>

\* Every variable of the network, of main and of the handlers has its range:
\* no sequence number leaves i64, no poll loop passes its bound.
TypeOK == NetTypeOK /\ BootTypeOK /\ ReqTypeOK

Init == NetInit /\ BootInit /\ ReqInit

\* The process dies; its in-flight requests are dropped with it.
Crash ==
  /\ phase # "exited"
  /\ LeaveProcess
  /\ pc' = [r \in Requests |-> IF InFlight(r) THEN "done" ELSE pc[r]]
  /\ answer' = [r \in Requests |-> IF InFlight(r) THEN "gone" ELSE answer[r]]
  /\ wire' = wire \cup Sending(Requests)
  /\ UNCHANGED <<call, seqOf, tx, polls, accepted, netVars>>

Boot == BootStep /\ UNCHANGED <<netVars, reqVars>>

Environment ==
  \/ NetNext /\ UNCHANGED <<bootVars, reqVars>>
  \/ Restart /\ UNCHANGED <<netVars, reqVars>>
  \/ \E r \in Requests, c \in Calls : Arrive(r, c)
  \/ \E r \in Requests : Disconnect(r) \/ DeliverLate(r)
  \/ Crash

Next ==
  \/ Boot
  \/ \E r \in Requests : Advance(r)
  \/ Environment

Spec == Init /\ [][Next]_vars

\* Every await of main and of a handler is an RPC call, which the client's
\* timeout ends, or a one-second sleep; tokio runs what is ready.
Fairness ==
  /\ WF_vars(Boot)
  /\ \A r \in Requests : WF_vars(Advance(r))

FairSpec == Spec /\ Fairness

-----------------------------------------------------------------------------
(* Safety.                                                                 *)

\* While requests are served, the spec cache is filled and every declared
\* function, no other name, is classified: no handler fetches the spec again
\* (get_or_fetch_spec) or falls back to should_use_get's default.
ServingIsReady ==
  phase = "serving" =>
    /\ specCached
    /\ \A n \in Names : methods[n] # "unset" <=> n \in DeclaredNames

\* A request answered with 4xx, 500 or an unsigned envelope put nothing into
\* the network's queue, and nothing of it is under way: whoever is refused may
\* safely call again.
RefusedLeftNoTrace ==
  \A r \in Requests :
    answer[r] \in Refusals \cup {"simulated"} => r \notin accepted \cup wire

\* t is what the signed request r asked for: its function and arguments, paid
\* by its source account, authorised by that account's own key.
AskedBy(t, r) ==
  /\ call[r].sign
  /\ call[r].key = t.source /\ call[r].source = t.source
  /\ call[r].fn = t.fn
  /\ t.arg = SentArg(call[r])
  /\ t.fee \in InclusionFee..U32Max

\* Every transaction queued or in a ledger is one that a signed request asked
\* for and that the network took from it: invoke_inner's steps from arguments
\* to envelope lose nothing, whatever ran between them.
EveryTxWasAsked ==
  \A t \in pool \cup {e.tx : e \in ledger} :
    \E r \in accepted : tx[r] = t /\ AskedBy(t, r)

\* A final status is the ledger's: the request's own function, arguments and
\* source account were included with exactly that outcome.
FinalAnswerIsTrue ==
  \A r \in Requests : answer[r] \in TxStatus =>
    \E e \in ledger :
      /\ e.tx = tx[r] /\ e.status = answer[r]
      /\ e.tx.source = call[r].source /\ e.tx.fn = call[r].fn
      /\ e.tx.arg = SentArg(call[r])

\* A function whose every call writes is never submitted through GET, over
\* restarts and whatever the contract did between its probe and the call; nor
\* is one that takes arguments.
GetIsForGetters ==
  \A r \in accepted : call[r].method = "GET" =>
    /\ ~FuncSpec(call[r].fn).takesArgs
    /\ WriteStates[call[r].fn] # States

\* A step keeps each answer, and sends nothing more for who has one.
AnswersAreFinal ==
  \A r \in Requests : answer[r] # "open" =>
    /\ answer'[r] = answer[r]
    /\ r \in accepted' \cup wire' => r \in accepted \cup wire

\* Once a request is answered, or its client or the process is gone, nothing
\* more is sent for it than was under way: no handler outlives its request.
NothingAfterTheAnswer == [][AnswersAreFinal]_vars

-----------------------------------------------------------------------------
(* What the proxy promises, as module Settlement has it.                   *)

\* How an answer closes a request, in Settlement's terms.  A 502 and a missing
\* answer are doubt: the transaction may have been taken, or be yet.
Outcome(a) ==
  CASE a = "open"      -> "none"
    [] a \in Refusals  -> "refused"
    [] a = "simulated" -> "unsigned"
    [] a \in TxStatus  -> a
    [] OTHER           -> "unsure"

outcomes == [r \in Requests |-> Outcome(answer[r])]

Promise == INSTANCE Settlement WITH
  Transactions <- Tx,
  Statuses     <- TxStatus,
  Nothing      <- Absent,
  outcome      <- outcomes,
  txOf         <- tx,
  taken        <- accepted,
  ledger       <- ledger

\* The proxy keeps its promise: every step of handlers, network, clients and
\* process is one of Settlement's, or none of its business.
KeepsItsPromise == Promise!Spec

-----------------------------------------------------------------------------
(* Liveness, under FairSpec.                                               *)

\* Every request that arrives ends: the poll loop of handlers.rs is bounded.
RequestsEnd == \A r \in Requests : InFlight(r) ~> pc[r] = "done"

\* A start never hangs: it ends serving or with the process gone.
StartupEnds == phase = "boot" ~> phase \in {"serving", "exited"}

-----------------------------------------------------------------------------
(* What documents and messages say, and the code does not keep.            *)

\* handlers.rs:283-284 answers a used-up poll loop with "it may still confirm
\* later": the network must have queued that transaction for somebody.
TimedOutMayStillConfirm ==
  \A r \in Requests : answer[r] = "timed_out" =>
    \E q \in accepted : tx[q] = tx[r]

\* README.md:51-52 says of a signed GET that "there's nothing to write": it
\* submits a no-op transaction.
SignedGetIsNoOp ==
  \A r \in accepted : call[r].method = "GET" => ~tx[r].rw

\* README.md:47-49 says of a signed call that the proxy "signs, submits, and
\* polls until the transaction lands, returning the result": two such calls
\* that both succeed were two transactions.
OneTransactionPerSuccess ==
  \A r, q \in Requests :
    r # q /\ answer[r] = "SUCCESS" /\ answer[q] = "SUCCESS" => tx[r] # tx[q]
=============================================================================
