------------------------------- MODULE Invoke -------------------------------
(***************************************************************************)
(* The /api/{function_name} handlers, invoke_get and invoke_post, one      *)
(* process per HTTP request.  A request is a chain of RPC calls; between   *)
(* two of them the other requests, the network and the process itself may  *)
(* take any step.  The proxy keeps nothing about a request once it is      *)
(* answered, and no lock spans two calls.                                  *)
(***************************************************************************)
EXTENDS Startup

CONSTANTS
  Requests,       \* the HTTP requests of a behaviour
  Calls,          \* the calls they may carry
  ResourceFee,    \* [Names -> Int]: minResourceFee of a simulated call
  InclusionFee,   \* INCLUSION_FEE_STROOPS
  U32Max,         \* u32::MAX
  MaxPolls,       \* rounds of the getTransaction loop
  OverflowChecks  \* the build panics on integer overflow (cargo's dev profile)

\* What a request asks for: method and path, the arguments of its query or
\* body, and the X-Source-Account, X-Sign and X-Secret-Key headers.
CallRecord ==
  [method : {"GET", "POST"}, fn : Names, arg : Args \cup {Invalid},
   source : Accounts \cup {Absent, Invalid}, sign : BOOLEAN,
   key : Keys \cup {Absent, Invalid}]

ASSUME InvokeAssumption ==
  /\ Calls \subseteq CallRecord
  /\ ResourceFee \in [Names -> Int]
  /\ InclusionFee \in Nat /\ U32Max \in Nat
  /\ MaxPolls \in Nat \ {0}
  /\ OverflowChecks \in BOOLEAN

VARIABLES
  pc,       \* where each request's handler is
  call,     \* what it was asked
  seqOf,    \* the sequence number it will use
  tx,       \* the transaction it assembled
  polls,    \* getTransaction calls that found nothing
  answer,   \* how the request ended
  wire,     \* requests gone while their sendTransaction may still reach the node
  accepted  \* history: requests whose transaction the network queued for them

reqVars == <<pc, call, seqOf, tx, polls, answer, wire, accepted>>

Stages == {"idle", "sequence", "simulate", "send", "poll", "done"}

\* Answers by HTTP status: 400, 404, 405 and 500; 502 in its two kinds, a
\* failed RPC call and a used-up poll loop; the three shapes of 200; and no
\* answer at all, the connection being gone.
Refusals == {"bad_request", "not_found", "method_not_allowed", "internal"}

Answers == Refusals \cup TxStatus
             \cup {"open", "simulated", "upstream", "timed_out", "gone"}

ReqTypeOK ==
  /\ pc \in [Requests -> Stages]
  /\ call \in [Requests -> Calls \cup {Absent}]
  /\ seqOf \in [Requests -> SeqNums]
  /\ tx \in [Requests -> Tx \cup {Absent}]
  /\ polls \in [Requests -> 0..MaxPolls - 1]
  /\ answer \in [Requests -> Answers]
  /\ wire \subseteq Requests
  /\ accepted \subseteq Requests

ReqInit ==
  /\ pc = [r \in Requests |-> "idle"]
  /\ call = [r \in Requests |-> Absent]
  /\ seqOf = [r \in Requests |-> 0]
  /\ tx = [r \in Requests |-> Absent]
  /\ polls = [r \in Requests |-> 0]
  /\ answer = [r \in Requests |-> "open"]
  /\ wire = {}
  /\ accepted = {}

InFlight(r) == pc[r] \notin {"idle", "done"}

Goto(r, stage) == pc' = [pc EXCEPT ![r] = stage]

Finish(r, a) ==
  /\ Goto(r, "done")
  /\ answer' = [answer EXCEPT ![r] = a]

-----------------------------------------------------------------------------
(* The checks made before any RPC call.                                    *)

\* ContractSpec::function: the first entry of that name.
FuncSpec(fn) ==
  Declared[CHOOSE i \in 1..Len(Declared) :
             /\ Declared[i].name = fn
             /\ \A j \in 1..i - 1 : Declared[j].name # fn]

\* A missing source account stands for every header that does not read.
BadHeaders(c) == c.source = Absent

\* A name the map does not hold counts as POST.
ShouldUseGet(fn) == methods[fn] = "GET"

WrongMethod(c) == (c.method = "GET") # ShouldUseGet(c.fn)

BadArgs(c) == FuncSpec(c.fn).takesArgs /\ c.arg = Invalid

\* The arguments the contract is called with: one for each parameter, so a
\* function without parameters ignores whatever came with the call.
SentArg(c) == IF FuncSpec(c.fn).takesArgs THEN c.arg ELSE Absent

\* read_common_headers and the local part of invoke_inner, in their order.
Verdict(c) ==
  IF BadHeaders(c) THEN "bad_request"
  ELSE IF c.fn \notin DeclaredNames THEN "not_found"
  ELSE IF WrongMethod(c) THEN "method_not_allowed"
  ELSE IF BadArgs(c) \/ c.source = Invalid THEN "bad_request"
  ELSE "open"

\* The handler runs to its first RPC call.  get_or_fetch_spec hits the cache
\* and function_methods is complete: ServingIsReady (module Proxy).
Arrive(r, c) ==
  /\ phase = "serving"
  /\ pc[r] = "idle"
  /\ call' = [call EXCEPT ![r] = c]
  /\ IF Verdict(c) = "open"
       THEN Goto(r, "sequence") /\ UNCHANGED answer
       ELSE Finish(r, Verdict(c))
  /\ UNCHANGED <<seqOf, tx, polls, wire, accepted, netVars, bootVars>>

-----------------------------------------------------------------------------
(* fetch_next_sequence_number.                                             *)

\* seq_num + 1 in i64, where it does not panic.
NextSeq(n) == IF n = MaxSeq THEN -MaxSeq - 1 ELSE n + 1

\* Every failure of this call is a 400, the RPC's own included.  In a build
\* with overflow checks i64::MAX + 1 panics: the connection closes unanswered.
FetchSequence(r) ==
  /\ pc[r] = "sequence"
  /\ LET n == acctSeq[call[r].source] IN
       \/ Finish(r, "bad_request") /\ UNCHANGED seqOf
       \/ /\ n = MaxSeq /\ OverflowChecks
          /\ Finish(r, "gone")
          /\ UNCHANGED seqOf
       \/ /\ ~(n = MaxSeq /\ OverflowChecks)
          /\ seqOf' = [seqOf EXCEPT ![r] = NextSeq(n)]
          /\ Goto(r, "simulate")
          /\ UNCHANGED answer
  /\ UNCHANGED <<call, tx, polls, wire, accepted, netVars, bootVars>>

-----------------------------------------------------------------------------
(* build_unsigned_invoke_tx, simulate_transaction, assemble_transaction.   *)

\* u32::try_from, then checked_add.
FeeFits(fn) ==
  /\ ResourceFee[fn] \in 0..U32Max
  /\ ResourceFee[fn] + InclusionFee <= U32Max

InvokeTx(c, seq, rw, fee) ==
  [source |-> c.source, seq |-> seq, fn |-> c.fn, arg |-> SentArg(c),
   rw |-> rw, fee |-> fee]

\* A plausible slip: the arguments are lost on the way.
AssembledTx_NoArgs(r) ==
  LET c == call[r] IN
  [InvokeTx(c, seqOf[r], Writes(c.fn), ResourceFee[c.fn] + InclusionFee)
     EXCEPT !.arg = Absent]

\* Footprint and fee are those of the contract's state at this moment.
AssembledTx(r) ==
  LET c == call[r] IN
  InvokeTx(c, seqOf[r], Writes(c.fn), ResourceFee[c.fn] + InclusionFee)

\* RpcClient::call fails: transport, HTTP status, undecodable reply, RPC error.
CallFails(r) == Finish(r, "upstream")

\* The call fails (502); parse_simulation refuses what it returns (400): a
\* contract error, archived state to restore, fields that do not decode; or
\* assemble_transaction does (500): auth entries that do not decode.
SimulationFails(r) ==
  CallFails(r) \/ Finish(r, "bad_request") \/ Finish(r, "internal")

\* Without X-Sign the assembled envelope is the answer.
Handover(r) ==
  /\ ~call[r].sign
  /\ tx' = [tx EXCEPT ![r] = AssembledTx(r)]
  /\ Finish(r, "simulated")

\* sign_transaction, which refuses a malformed secret key; a missing one is
\* refused before.
Sign(r) ==
  /\ call[r].sign
  /\ \/ /\ call[r].key \notin Keys
        /\ Finish(r, "bad_request")
        /\ UNCHANGED tx
     \/ /\ call[r].key \in Keys
        /\ tx' = [tx EXCEPT ![r] = AssembledTx(r)]
        /\ Goto(r, "send")
        /\ UNCHANGED answer

\* A fee out of range is a failure of assemble_transaction, too.
Simulate(r) ==
  /\ pc[r] = "simulate"
  /\ \/ SimulationFails(r) /\ UNCHANGED tx
     \/ FeeFits(call[r].fn) /\ (Handover(r) \/ Sign(r))
  /\ UNCHANGED <<call, seqOf, polls, wire, accepted, netVars, bootVars>>

-----------------------------------------------------------------------------
(* send_transaction.                                                       *)

\* The node handles the transaction of r and answers st.
Handled(r, st) ==
  /\ SendStatus(tx[r], call[r].key, st)
  /\ IF st = "PENDING"
       THEN pool' = pool \cup {tx[r]} /\ accepted' = accepted \cup {r}
       ELSE UNCHANGED <<pool, accepted>>

\* A plausible slip: a lost reply is reported like a rejected transaction.
SendFailure_AsRefusal(r) ==
  /\ Finish(r, "bad_request")
  /\ wire' = wire \cup {r}

\* No usable reply: a transport error, a timeout, an RPC error, or a reply
\* without a hash.  The node may have the transaction, or get it yet.
SendFailure(r) ==
  /\ CallFails(r)
  /\ wire' = wire \cup {r}

\* A plausible slip: a busy network makes the handler start over, for ever.
Replied_StartOver(r, st) ==
  \/ st = "ERROR" /\ Finish(r, "bad_request")
  \/ st = "TRY_AGAIN_LATER" /\ Goto(r, "sequence") /\ UNCHANGED answer
  \/ st \notin {"ERROR", "TRY_AGAIN_LATER"} /\ Goto(r, "poll") /\ UNCHANGED answer

\* Only ERROR is told apart; TRY_AGAIN_LATER and DUPLICATE go on to polling.
Replied(r, st) ==
  \/ st = "ERROR" /\ Finish(r, "bad_request")
  \/ st # "ERROR" /\ Goto(r, "poll") /\ UNCHANGED answer

Send(r) ==
  /\ pc[r] = "send"
  /\ \/ SendFailure(r) /\ UNCHANGED <<pool, accepted>>
     \/ \E st \in SendStatuses : Handled(r, st) /\ Replied(r, st) /\ UNCHANGED wire
  /\ UNCHANGED <<call, seqOf, tx, polls, acctSeq, store, ledger, bootVars>>

\* A call on the wire reaches the node after nobody waits for it any more.
DeliverLate(r) ==
  /\ r \in wire
  /\ wire' = wire \ {r}
  /\ \E st \in SendStatuses : Handled(r, st)
  /\ UNCHANGED <<pc, call, seqOf, tx, polls, answer, acctSeq, store, ledger, bootVars>>

-----------------------------------------------------------------------------
(* The getTransaction loop.                                                *)

\* A plausible slip: anything the node knows of counts as included.
Found_InPool(r, status) ==
  \/ tx[r] \in pool /\ status = "SUCCESS"
  \/ [tx |-> tx[r], status |-> status] \in ledger

\* The node reports the transaction as part of a ledger.
Found(r, status) == [tx |-> tx[r], status |-> status] \in ledger

\* A plausible slip: the loop runs one round too many.
LastPoll_OffByOne(r) == polls[r] = MaxPolls

LastPoll(r) == polls[r] + 1 = MaxPolls

\* One round: the call fails, it finds the transaction, or the node does not
\* know it, not yet or not any more.
Poll(r) ==
  /\ pc[r] = "poll"
  /\ \/ CallFails(r) /\ UNCHANGED polls
     \/ \E status \in TxStatus :
          Found(r, status) /\ Finish(r, status) /\ UNCHANGED polls
     \/ LastPoll(r) /\ Finish(r, "timed_out") /\ UNCHANGED polls
     \/ /\ ~LastPoll(r)
        /\ polls' = [polls EXCEPT ![r] = @ + 1]
        /\ UNCHANGED <<pc, answer>>
  /\ UNCHANGED <<call, seqOf, tx, wire, accepted, netVars, bootVars>>

-----------------------------------------------------------------------------
\* The requests of R whose sendTransaction is under way.
Sending(R) == {r \in R : pc[r] = "send"}

\* A plausible slip: the handler runs in a task of its own and goes on.
Disconnect_Detached(r) ==
  /\ InFlight(r)
  /\ answer' = [answer EXCEPT ![r] = "gone"]
  /\ UNCHANGED <<pc, call, seqOf, tx, polls, wire, accepted, netVars, bootVars>>

\* The client closes the connection: the handler is dropped where it waits.
Disconnect(r) ==
  /\ InFlight(r)
  /\ Finish(r, "gone")
  /\ wire' = wire \cup Sending({r})
  /\ UNCHANGED <<call, seqOf, tx, polls, accepted, netVars, bootVars>>

Advance(r) == FetchSequence(r) \/ Simulate(r) \/ Send(r) \/ Poll(r)
=============================================================================
