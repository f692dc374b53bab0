-------------------------- MODULE DiscoveryProofs --------------------------
(***************************************************************************)
(* What GET /functions tells stays true while the process lives: the       *)
(* method map is written by Publish alone, before the first list can be    *)
(* read, and a request that goes by the list passes the checks that        *)
(* invoke_inner makes of name and method.                                  *)
(***************************************************************************)
EXTENDS ProxyProofs, Discovery

\* A list of the running process is what the next one would be.
AdviceInv == fresh => phase = "serving" /\ advice = Listing

\* A serving process does nothing to the map but lose it.
LEMMA ServingKeepsMethods ==
  ASSUME [Next]_vars, phase = "serving", phase' # "exited"
  PROVE  phase' = "serving" /\ methods' = methods
<1>1. CASE UNCHANGED bootVars
  BY <1>1 DEF bootVars
<1>2. CASE BootStep
  BY <1>2 DEF BootStep, FetchSpec, Probe, Publish, Bind
<1>3. CASE Restart \/ Crash
  BY <1>3 DEF Restart, Crash, LeaveProcess
<1> QED
  BY <1>1, <1>2, <1>3
     DEF Next, Boot, Advance, FetchSequence, Simulate, Send, Poll, Environment,
         Arrive, Disconnect, DeliverLate, vars

\* A request begins by arriving.
LEMMA RequestsArrive ==
  ASSUME TypeOK, [Next]_vars, NEW r \in Requests, pc[r] = "idle", pc'[r] # "idle"
  PROVE  \E c \in Calls : Arrive(r, c)
<1>1. pc \in [Requests -> Stages]
  BY DEF TypeOK, ReqTypeOK
<1>2. CASE UNCHANGED pc
  BY <1>2
<1>3. ASSUME NEW q \in Requests, Advance(q) PROVE FALSE
  <2>1. pc[q] # "idle"
    BY <1>3 DEF Advance, FetchSequence, Simulate, Send, Poll
  <2>2. pc'[r] = pc[r]
    BY <1>1, <1>3, <2>1
       DEF Advance, FetchSequence, Simulate, SimulationFails, CallFails, Handover,
           Sign, Send, SendFailure, Replied, Poll, Finish, Goto
  <2> QED
    BY <2>2
<1>4. ASSUME NEW q \in Requests, Disconnect(q) PROVE FALSE
  BY <1>1, <1>4 DEF Disconnect, InFlight, Finish, Goto
<1>5. CASE Crash
  BY <1>1, <1>5 DEF Crash, InFlight
<1>6. ASSUME NEW q \in Requests, NEW c \in Calls, Arrive(q, c)
      PROVE  \E d \in Calls : Arrive(r, d)
  <2>1. CASE q = r
    BY <1>6, <2>1
  <2>2. CASE q # r
    BY <1>1, <1>6, <2>2 DEF Arrive, Finish, Goto
  <2> QED
    BY <2>1, <2>2
<1> QED
  BY <1>2, <1>3, <1>4, <1>5, <1>6
     DEF Next, Boot, Environment, DeliverLate, vars, reqVars

\* Name and method of a call that goes by the list are in order.
LEMMA GoodAdvice ==
  ASSUME NEW c \in Calls, c.method = Listing[c.fn]
  PROVE  Verdict(c) \notin {"method_not_allowed", "not_found"}
<1>1. c.fn \in Names /\ c.method \in {"GET", "POST"}
  BY InvokeAssumption, CallShape DEF CallRecord
<1>2. c.fn \in DeclaredNames /\ c.method = Listed(c.fn)
  BY <1>1 DEF Listing
<1>3. ~WrongMethod(c)
  BY <1>2 DEF Listed, WrongMethod, ShouldUseGet
<1> QED
  BY <1>2, <1>3 DEF Verdict

\* The list of the running process stays true.
LEMMA AdviceStep ==
  AdviceInv /\ [DiscoveryNext]_<<vars, discoveryVars>> => AdviceInv'
<1> SUFFICES ASSUME AdviceInv, [DiscoveryNext]_<<vars, discoveryVars>>, fresh'
             PROVE  phase' = "serving" /\ advice' = Listing'
  BY DEF AdviceInv
<1>1. CASE GetFunctions
  BY <1>1 DEF GetFunctions, Listing, Listed, vars, bootVars
<1>2. CASE Next /\ fresh' = (fresh /\ phase' # "exited") /\ UNCHANGED advice
  <2>1. phase = "serving" /\ phase' # "exited" /\ advice' = Listing
    BY <1>2 DEF AdviceInv
  <2>2. phase' = "serving" /\ methods' = methods
    BY <1>2, <2>1, ServingKeepsMethods
  <2> QED
    BY <2>1, <2>2 DEF Listing, Listed
<1>3. CASE UNCHANGED <<vars, discoveryVars>>
  BY <1>3 DEF AdviceInv, Listing, Listed, vars, bootVars, discoveryVars
<1> QED
  BY <1>1, <1>2, <1>3 DEF DiscoveryNext

\* The proxy goes its way, whatever a client reads.
LEMMA ProxyStep == [DiscoveryNext]_<<vars, discoveryVars>> => [Next]_vars
BY DEF DiscoveryNext, GetFunctions

\* A request that follows the list of the running process passes.
LEMMA AdvisedStep ==
  ASSUME IInv, AdviceInv, [DiscoveryNext]_<<vars, discoveryVars>>,
         NEW r \in Requests, FollowsAdvice(r), fresh
  PROVE  answer'[r] \notin {"method_not_allowed", "not_found"}
<1>1. PICK c \in Calls : Arrive(r, c)
  BY ProxyStep, RequestsArrive DEF FollowsAdvice, IInv
<1>2. ReqTypeOK /\ HandlerOK(r)
  BY DEF IInv, TypeOK, HandlersOK
<1>3. call'[r] = c
  BY <1>1, <1>2 DEF Arrive, ReqTypeOK
<1>4. c.method = Listing[c.fn]
  BY <1>3 DEF FollowsAdvice, AdviceInv
<1>5. Verdict(c) \notin {"method_not_allowed", "not_found"}
  BY <1>4, GoodAdvice
<1>6. CASE Verdict(c) = "open"
  <2>1. answer'[r] = answer[r] /\ pc'[r] = "sequence" /\ pc[r] = "idle"
    BY <1>1, <1>2, <1>6 DEF Arrive, Goto, ReqTypeOK
  <2> QED
    BY <1>2, <2>1 DEF HandlerOK, InFlight
<1>7. CASE Verdict(c) # "open"
  BY <1>1, <1>2, <1>5, <1>7 DEF Arrive, Finish, ReqTypeOK
<1> QED
  BY <1>6, <1>7

\* Whoever calls a function by the method that /functions gave is never told
\* that name or method is wrong, while that process runs.
THEOREM AdviceIsGood == DiscoverySpec => AdviceHolds
<1>1. DiscoveryInit => IInv /\ AdviceInv
  BY InitInv DEF DiscoveryInit, AdviceInv
<1>2. IInv /\ AdviceInv /\ [DiscoveryNext]_<<vars, discoveryVars>> => IInv' /\ AdviceInv'
  BY StepInv, ProxyStep, AdviceStep
<1>3. IInv /\ AdviceInv /\ [DiscoveryNext]_<<vars, discoveryVars>>
        => \A r \in Requests : FollowsAdvice(r) /\ fresh =>
             answer'[r] \notin {"method_not_allowed", "not_found"}
  BY AdvisedStep
<1> QED
  BY <1>1, <1>2, <1>3, PTL DEF DiscoverySpec, AdviceHolds
=============================================================================
