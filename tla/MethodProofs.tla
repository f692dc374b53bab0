---------------------------- MODULE MethodProofs ----------------------------
(***************************************************************************)
(* Theorems about the methods the functions are served by: what startup    *)
(* has made sure of before the first request, and what a GET may submit.   *)
(* The second needs the names of the spec's functions to be distinct, as a *)
(* contract's are: with two entries of one name classify_functions keeps   *)
(* the verdict on the last one, ContractSpec::function returns the first.  *)
(***************************************************************************)
EXTENDS ProxyProofs

\* probed holds the entries before the cursor, and no other name.
ProbedSoFar ==
  \A n \in Names :
    probed[n] # "unset" <=> \E i \in 1..cursor - 1 : Declared[i].name = n

\* methods holds the declared functions, and no other name.
Classified == \A n \in Names : methods[n] # "unset" <=> n \in DeclaredNames

\* What each phase of main relies on.
PhaseOK ==
  /\ phase \in {"boot", "exited"} =>
       cursor = 1 /\ probed = Unclassified /\ methods = Unclassified
  /\ phase \in {"probing", "binding", "serving"} => specCached
  /\ phase = "probing" => ProbedSoFar
  /\ phase \in {"binding", "serving"} => Classified

\* Nothing but main's own steps touches what the phases rely on.
LEMMA PhaseFrame == PhaseOK /\ UNCHANGED bootVars => PhaseOK'
BY DEF PhaseOK, ProbedSoFar, Classified, bootVars

\* An empty map holds the entries before the first.
LEMMA NothingProbed ==
  ASSUME cursor = 1, probed = Unclassified
  PROVE  ProbedSoFar
BY DEF ProbedSoFar, Unclassified

\* Every step keeps what the phases rely on.
LEMMA PhaseStep == TypeOK /\ PhaseOK /\ [Next]_vars => PhaseOK'
<1> SUFFICES ASSUME TypeOK, PhaseOK, [Next]_vars PROVE PhaseOK'
  OBVIOUS
<1>1. cursor \in 1..Len(Declared) + 1 /\ probed \in [Names -> Methods]
  BY DEF TypeOK, BootTypeOK
<1>2. ASSUME LeaveProcess PROVE PhaseOK'
  BY <1>2 DEF LeaveProcess, PhaseOK
<1>3. CASE UNCHANGED bootVars
  BY <1>3, PhaseFrame
<1>4. CASE FetchSpec
  <2>1. CASE LeaveProcess
    BY <1>2, <2>1
  <2>2. CASE ~LeaveProcess
    <3>1. phase = "boot" /\ phase' = "probing" /\ specCached'
          /\ UNCHANGED <<cursor, probed, methods>>
      BY <1>4, <2>2 DEF FetchSpec
    <3>2. ProbedSoFar
      BY <3>1, NothingProbed DEF PhaseOK
    <3>3. ProbedSoFar'
      BY <3>1, <3>2 DEF ProbedSoFar
    <3> QED
      BY <3>1, <3>3 DEF PhaseOK
  <2> QED
    BY <2>1, <2>2
<1>5. CASE Probe
  <2>1. /\ phase = "probing" /\ UNCHANGED <<phase, specCached, methods>>
        /\ cursor \in 1..Len(Declared) /\ cursor' = cursor + 1
    BY <1>1, <1>5, DeclaredLength DEF Probe
  <2>2. PICK m \in {"GET", "POST"} :
          probed' = [probed EXCEPT ![Declared[cursor].name] = m]
    BY <1>5 DEF Probe
  <2>3. ProbedSoFar
    BY <2>1 DEF PhaseOK
  <2>4. ASSUME NEW n \in Names
        PROVE  probed'[n] # "unset" <=> \E i \in 1..cursor' - 1 : Declared[i].name = n
    <3>1. CASE n = Declared[cursor].name
      BY <1>1, <2>1, <2>2, <3>1
    <3>2. CASE n # Declared[cursor].name
      <4>1. probed'[n] = probed[n]
        BY <1>1, <2>2, <3>2
      <4>2. ASSUME NEW i \in 1..cursor' - 1, Declared[i].name = n
            PROVE  i \in 1..cursor - 1
        BY <2>1, <3>2, <4>2
      <4>3. 1..cursor - 1 \subseteq 1..cursor' - 1
        BY <2>1
      <4> QED
        BY <2>3, <4>1, <4>2, <4>3 DEF ProbedSoFar
    <3> QED
      BY <3>1, <3>2
  <2>5. ProbedSoFar'
    BY <2>4 DEF ProbedSoFar
  <2> QED
    BY <2>1, <2>5 DEF PhaseOK
<1>6. CASE Publish
  <2>1. /\ phase = "probing" /\ phase' = "binding" /\ methods' = probed
        /\ UNCHANGED <<specCached, cursor, probed>>
    BY <1>6 DEF Publish
  <2>2. 1..cursor - 1 = 1..Len(Declared)
    BY <1>1, <1>6, DeclaredLength DEF Publish
  <2>3. Classified'
    BY <2>1, <2>2 DEF PhaseOK, ProbedSoFar, Classified, DeclaredNames
  <2> QED
    BY <2>1, <2>3 DEF PhaseOK
<1>7. CASE Bind
  <2>1. CASE LeaveProcess
    BY <1>2, <2>1
  <2>2. CASE ~LeaveProcess
    BY <1>7, <2>2 DEF Bind, PhaseOK, Classified
  <2> QED
    BY <2>1, <2>2
<1>8. CASE Restart
  BY <1>8 DEF Restart, PhaseOK
<1>9. CASE Crash
  BY <1>2, <1>9 DEF Crash
<1> QED
  BY <1>3, <1>4, <1>5, <1>6, <1>7, <1>8, <1>9
     DEF Next, Boot, BootStep, Advance, FetchSequence, Simulate, Send, Poll,
         Environment, Arrive, Disconnect, DeliverLate, vars

\* Initially nothing is classified.
LEMMA InitPhase == Init => PhaseOK
BY DEF Init, BootInit, PhaseOK

\* The phases' invariant holds in every reachable state.
THEOREM PhasesHold == Spec => []PhaseOK
<1>1. IInv => TypeOK
  BY DEF IInv
<1> QED
  BY <1>1, InitPhase, PhaseStep, Invariance, PTL DEF Spec

\* No request is served before the spec is cached and each declared function
\* has its method.
THEOREM ServesWhenReady == Spec => []ServingIsReady
<1>1. PhaseOK => ServingIsReady
  BY DEF PhaseOK, Classified, ServingIsReady
<1> QED
  BY <1>1, PhasesHold, PTL
-----------------------------------------------------------------------------
(* GET is for getters.                                                     *)

\* No two entries of the spec have the same name.
UniqueNames ==
  \A i, j \in 1..Len(Declared) : Declared[i].name = Declared[j].name => i = j

\* n takes no arguments, and there is a state in which it writes nothing.
IsGetter(n) == ~FuncSpec(n).takesArgs /\ WriteStates[n] # States

\* What the maps call GET is a getter.
GetsAreGetters ==
  \A n \in Names : probed[n] = "GET" \/ methods[n] = "GET" => IsGetter(n)

\* What came in by GET and was let through is a getter.
GetCallsAreGetters ==
  \A r \in Requests :
    /\ InFlight(r) \/ r \in accepted \cup wire
    /\ call[r].method = "GET"
    => IsGetter(call[r].fn)

\* With distinct names, the entry that was probed is the one that is called.
LEMMA FuncSpecOfEntry ==
  ASSUME UniqueNames, NEW i \in 1..Len(Declared)
  PROVE  FuncSpec(Declared[i].name) = Declared[i]
<1> DEFINE First(k) == /\ Declared[k].name = Declared[i].name
                       /\ \A j \in 1..k - 1 : Declared[j].name # Declared[i].name
<1>1. First(i)
  <2>1. ASSUME NEW j \in 1..i - 1 PROVE Declared[j].name # Declared[i].name
    <3>1. j \in 1..Len(Declared) /\ j # i
      BY <2>1, DeclaredLength
    <3> QED
      BY <3>1 DEF UniqueNames
  <2> QED
    BY <2>1
<1>2. \A k \in 1..Len(Declared) : First(k) => k = i
  BY DEF UniqueNames
<1>3. (CHOOSE k \in 1..Len(Declared) : First(k)) = i
  <2> HIDE DEF First
  <2> QED
    BY <1>1, <1>2
<1> QED
  BY <1>3 DEF FuncSpec

\* A simulation that wrote nothing found a state in which nothing is written.
LEMMA ProbeFindsGetters ==
  ASSUME UniqueNames, TypeOK, NEW i \in 1..Len(Declared),
         ProbeMethod(Declared[i], "GET")
  PROVE  IsGetter(Declared[i].name)
<1>1. ~Declared[i].takesArgs /\ ~Writes(Declared[i].name)
  BY DEF ProbeMethod
<1>2. store \in States /\ store \notin WriteStates[Declared[i].name]
  BY <1>1 DEF Writes, TypeOK, NetTypeOK
<1> QED
  BY <1>1, <1>2, FuncSpecOfEntry DEF IsGetter

\* Every step keeps the maps right: only a probe enters a GET.
LEMMA MapStep ==
  UniqueNames /\ TypeOK /\ GetsAreGetters /\ [Next]_vars => GetsAreGetters'
<1> SUFFICES ASSUME UniqueNames, TypeOK, GetsAreGetters, [Next]_vars
             PROVE  GetsAreGetters'
  OBVIOUS
<1>1. ASSUME probed' \in {probed, Unclassified},
             methods' \in {probed, methods, Unclassified}
      PROVE  GetsAreGetters'
  <2>1. \A n \in Names : Unclassified[n] # "GET"
    BY DEF Unclassified
  <2> QED
    BY <1>1, <2>1 DEF GetsAreGetters, IsGetter, FuncSpec
<1>2. CASE Probe
  <2>1. cursor \in 1..Len(Declared) /\ methods' = methods
    BY <1>2, DeclaredLength DEF Probe, TypeOK, BootTypeOK
  <2>2. PICK m \in {"GET", "POST"} :
          /\ ProbeMethod(Declared[cursor], m)
          /\ probed' = [probed EXCEPT ![Declared[cursor].name] = m]
    BY <1>2 DEF Probe
  <2> SUFFICES ASSUME NEW n \in Names, probed'[n] = "GET" \/ methods'[n] = "GET"
               PROVE  IsGetter(n)
    BY DEF GetsAreGetters, IsGetter, FuncSpec
  <2>3. CASE methods[n] = "GET" \/ probed[n] = "GET"
    BY <2>3 DEF GetsAreGetters
  <2>4. CASE methods[n] # "GET" /\ probed[n] # "GET"
    <3>1. n = Declared[cursor].name /\ m = "GET"
      BY <2>1, <2>2, <2>4 DEF TypeOK, BootTypeOK
    <3> QED
      BY <2>1, <2>2, <3>1, ProbeFindsGetters
  <2> QED
    BY <2>3, <2>4
<1>3. CASE UNCHANGED bootVars
  BY <1>1, <1>3 DEF bootVars
<1>4. CASE FetchSpec \/ Publish \/ Bind \/ Restart \/ Crash
  BY <1>1, <1>4 DEF FetchSpec, Publish, Bind, Restart, Crash, LeaveProcess
<1> QED
  BY <1>2, <1>3, <1>4
     DEF Next, Boot, BootStep, Advance, FetchSequence, Simulate, Send, Poll,
         Environment, Arrive, Disconnect, DeliverLate, vars

\* Every step keeps the calls right: only an arrival lets one through, by the
\* map of that moment; what the map says later is of no account.
LEMMA CallStep ==
  IInv /\ GetsAreGetters /\ GetCallsAreGetters /\ [Next]_vars => GetCallsAreGetters'
<1> SUFFICES ASSUME IInv, GetsAreGetters, GetCallsAreGetters, [Next]_vars,
                    NEW r \in Requests,
                    InFlight(r)' \/ r \in accepted' \cup wire',
                    call'[r].method = "GET"
             PROVE  IsGetter(call'[r].fn)
  BY DEF GetCallsAreGetters, IsGetter, FuncSpec
<1> USE DEF IInv, TypeOK, ReqTypeOK, CallFails, SimulationFails
<1>1. CASE call'[r] = call[r] /\ (InFlight(r) \/ r \in accepted \cup wire)
  BY <1>1 DEF GetCallsAreGetters
<1>2. ASSUME NEW c \in Calls, Arrive(r, c) PROVE IsGetter(call'[r].fn)
  <2>1. call'[r] = c
    BY <1>2 DEF Arrive
  <2>2. r \notin accepted' \cup wire'
    BY <1>2 DEF Arrive, HandlersOK, HandlerOK
  <2>3. Verdict(c) = "open"
    BY <1>2, <2>2 DEF Arrive, Finish, Goto, InFlight
  <2>4. methods[c.fn] = "GET"
    BY <2>1, <2>3 DEF Verdict, WrongMethod, ShouldUseGet
  <2>5. c.fn \in Names
    BY CallShape
  <2> QED
    BY <2>1, <2>4, <2>5 DEF GetsAreGetters
<1>3. ASSUME NEW q \in Requests, NEW c \in Calls, Arrive(q, c), q # r
      PROVE  call'[r] = call[r] /\ pc'[r] = pc[r] /\ UNCHANGED <<accepted, wire>>
  BY <1>3 DEF Arrive, Finish, Goto
<1>4. ASSUME NEW q \in Requests, Advance(q)
      PROVE  call'[r] = call[r] /\ (InFlight(r) \/ r \in accepted \cup wire)
  <2>1. CASE q = r
    BY <1>4, <2>1 DEF Advance, FetchSequence, Simulate, Send, Poll, InFlight
  <2>2. CASE q # r
    <3>1. pc'[r] = pc[r] /\ call' = call
      BY <1>4, <2>2 DEF Advance, FetchSequence, Simulate, Handover, Sign, Send,
                        SendFailure, Replied, Poll, Finish, Goto
    <3>2. r \in accepted' \cup wire' => r \in accepted \cup wire
      BY <1>4, <2>2 DEF Advance, FetchSequence, Simulate, Send, SendFailure, Handled, Poll
    <3> QED
      BY <3>1, <3>2 DEF InFlight
  <2> QED
    BY <2>1, <2>2
<1>5. ASSUME NEW q \in Requests, Disconnect(q) \/ DeliverLate(q)
      PROVE  call'[r] = call[r] /\ (InFlight(r) \/ r \in accepted \cup wire)
  <2>1. CASE Disconnect(q)
    BY <2>1 DEF Disconnect, Sending, Finish, Goto, InFlight
  <2>2. CASE DeliverLate(q)
    BY <2>2 DEF DeliverLate, Handled, InFlight
  <2> QED
    BY <1>5, <2>1, <2>2
<1>6. CASE Crash
  <2>1. call' = call /\ (InFlight(r) \/ r \in accepted \cup wire)
    BY <1>6 DEF Crash, Sending, InFlight
  <2> QED
    BY <1>1, <2>1
<1>7. CASE UNCHANGED reqVars
  BY <1>1, <1>7 DEF reqVars, InFlight
<1> QED
  BY <1>1, <1>2, <1>3, <1>4, <1>5, <1>6, <1>7
     DEF Next, Boot, Environment, vars, InFlight

\* Where the spec's names are distinct, whatever the proxy submits by GET
\* takes no arguments and has a state in which it writes nothing.
THEOREM GetsServeGetters ==
  ASSUME UniqueNames
  PROVE  Spec => []GetIsForGetters
<1>1. Init => GetsAreGetters /\ GetCallsAreGetters
  BY DEF Init, BootInit, ReqInit, GetsAreGetters, GetCallsAreGetters,
         Unclassified, InFlight
<1>2. IInv /\ GetsAreGetters /\ GetCallsAreGetters /\ [Next]_vars
        => (GetsAreGetters /\ GetCallsAreGetters)'
  BY MapStep, CallStep DEF IInv
<1>3. IInv /\ GetCallsAreGetters => GetIsForGetters
  BY DEF IInv, TypeOK, ReqTypeOK, GetCallsAreGetters, GetIsForGetters, IsGetter
<1> QED
  BY <1>1, <1>2, <1>3, Invariance, PTL DEF Spec
=============================================================================
