-------------------------- MODULE PollClockProofs --------------------------
(***************************************************************************)
(* The time bounds of the getTransaction loop, for any number of rounds,   *)
(* any interval and any client timeout.  The argument counts what is spent *)
(* round by round: after k rounds at least k sleeps have passed, and at    *)
(* most k times a sleep and a timeout.                                     *)
(***************************************************************************)
EXTENDS PollClock, TLAPS

\* One more round adds one more of each.
LEMMA OneMore ==
  ASSUME NEW a \in Nat, NEW k \in Nat
  PROVE  (k + 1) * a = (k * a) + a /\ k * a \in Nat
OBVIOUS

\* Fewer rounds cost no more.
LEMMA Monotone ==
  ASSUME NEW a \in Nat, NEW k \in Nat, NEW m \in Nat, k <= m
  PROVE  k * a <= m * a
<1>1. m = k + (m - k) /\ m - k \in Nat
  OBVIOUS
<1>2. m * a = (k * a) + ((m - k) * a)
  BY <1>1
<1>3. (m - k) * a \in Nat /\ k * a \in Nat /\ m * a \in Nat
  BY <1>1
<1> QED
  BY <1>2, <1>3

\* What the rounds before this one, and this one's sleep, have spent.
Spent ==
  /\ at = "asleep" =>
       /\ (round - 1) * Interval <= elapsed
       /\ elapsed <= (round - 1) * (Interval + Timeout)
  /\ at = "asking" =>
       /\ round * Interval <= elapsed
       /\ elapsed <= ((round - 1) * (Interval + Timeout)) + Interval
  /\ at = "done" => elapsed <= round * (Interval + Timeout)

\* The inductive invariant: a request is answered exactly when its loop is
\* done, and the two answers that tell of the ledger tell the truth.
ClockInv ==
  /\ TypeOK
  /\ Spent
  /\ at # "done" => answer = "open"
  /\ AnsweredInBoundedTime
  /\ OnlySlowTransactionsTimeOut

\* The parts of ClockInv that bound the clock from above follow from Spent.
LEMMA SpentIsBounded == TypeOK /\ Spent => elapsed <= Rounds * (Interval + Timeout)
<1> SUFFICES ASSUME TypeOK, Spent PROVE elapsed <= Rounds * (Interval + Timeout)
  OBVIOUS
<1> DEFINE c == Interval + Timeout
<1>1. /\ c \in Nat /\ Timeout \in Nat /\ Interval \in Nat
      /\ round \in Nat /\ round - 1 \in Nat /\ Rounds \in Nat
      /\ round <= Rounds /\ elapsed \in Nat
  BY ClockAssumption DEF TypeOK
<1>2. round * c <= Rounds * c /\ Rounds * c \in Nat /\ round * c \in Nat
  BY <1>1, Monotone, OneMore
<1>3. (round - 1) * c \in Nat /\ round * c = ((round - 1) * c) + c
  <2> DEFINE k == round - 1
  <2>1. k \in Nat /\ k + 1 = round
    BY <1>1
  <2>2. (k + 1) * c = (k * c) + c /\ k * c \in Nat
    <3> HIDE DEF c, k
    <3> QED BY <1>1, <2>1, OneMore
  <2> QED
    BY <2>1, <2>2
<1>4. c = Interval + Timeout
  OBVIOUS
<1>5. \/ elapsed <= (round - 1) * c
      \/ elapsed <= ((round - 1) * c) + Interval
      \/ elapsed <= round * c
  BY DEF TypeOK, Spent
<1> HIDE DEF c
<1> QED
  BY <1>1, <1>2, <1>3, <1>4, <1>5

\* Before the first sleep nothing is spent.
LEMMA InitClock == Init => ClockInv
<1> SUFFICES ASSUME Init PROVE ClockInv
  OBVIOUS
<1>1. TypeOK
  BY ClockAssumption DEF Init, TypeOK
<1>2. (round - 1) * Interval = 0 /\ (round - 1) * (Interval + Timeout) = 0
  BY ClockAssumption DEF Init
<1>3. Spent
  BY <1>2 DEF Init, Spent
<1> QED
  BY <1>1, <1>3, SpentIsBounded
     DEF Init, ClockInv, AnsweredInBoundedTime, OnlySlowTransactionsTimeOut

\* Every step keeps the count of what is spent.
LEMMA ClockStep == ClockInv /\ [Next]_vars => ClockInv'
<1> SUFFICES ASSUME ClockInv, [Next]_vars PROVE ClockInv'
  OBVIOUS
<1> USE DEF ClockInv
<1>a. /\ Interval \in Nat /\ Timeout \in Nat /\ Rounds \in Nat
      /\ elapsed \in Nat /\ landsAt \in Nat
      /\ round \in 1..Rounds /\ round \in Nat /\ round - 1 \in Nat
  BY ClockAssumption DEF TypeOK
<1>b. SUFFICES TypeOK' /\ Spent' /\ (at' # "done" => answer' = "open")
               /\ (answer' = "final" => landsAt' <= elapsed')
               /\ OnlySlowTransactionsTimeOut'
  <2>1. TypeOK' /\ Spent' => (elapsed <= Rounds * (Interval + Timeout))'
    BY SpentIsBounded, PTL
  <2> QED
    BY <2>1 DEF AnsweredInBoundedTime
<1>1. CASE UNCHANGED vars
  BY <1>1 DEF vars, TypeOK, Spent, AnsweredInBoundedTime, OnlySlowTransactionsTimeOut
<1>2. CASE Done
  BY <1>2 DEF Done, vars, TypeOK, Spent, AnsweredInBoundedTime, OnlySlowTransactionsTimeOut
<1>3. CASE Sleep
  <2>1. /\ at = "asleep" /\ at' = "asking" /\ elapsed' = elapsed + Interval
        /\ round' = round /\ landsAt' = landsAt /\ answer' = answer
    BY <1>3 DEF Sleep
  <2>2. round * Interval = ((round - 1) * Interval) + Interval
        /\ (round - 1) * Interval \in Nat
    BY <1>a
  <2>3. TypeOK'
    BY <1>a, <2>1 DEF TypeOK
  <2> DEFINE before == (round - 1) * Interval
             cost == (round - 1) * (Interval + Timeout)
  <2>4. before \in Nat /\ cost \in Nat
    BY <1>a
  <2>5. before <= elapsed /\ elapsed <= cost
    BY <2>1 DEF Spent
  <2>6. before + Interval <= elapsed' /\ elapsed' <= cost + Interval
    <3> HIDE DEF before, cost
    <3> QED BY <1>a, <2>1, <2>4, <2>5
  <2>7. Spent'
    BY <2>1, <2>2, <2>6 DEF Spent
  <2> QED
    BY <2>1, <2>3, <2>7 DEF OnlySlowTransactionsTimeOut
<1>4. CASE Ask
  <2>1. PICK d \in CallTimes : elapsed' = elapsed + d
    BY <1>4 DEF Ask
  <2>2. d \in Nat /\ d <= Timeout
    BY ClockAssumption
  <2>3. at = "asking" /\ landsAt' = landsAt /\ answer = "open"
    BY <1>4 DEF Ask
  <2> DEFINE slept == round * Interval
             before == (round - 1) * (Interval + Timeout)
             cost == round * (Interval + Timeout)
  <2>4. slept \in Nat /\ before \in Nat /\ cost \in Nat
        /\ cost = before + (Interval + Timeout)
    BY <1>a
  <2>5. slept <= elapsed /\ elapsed <= before + Interval
    BY <2>3 DEF Spent
  <2>6. elapsed' \in Nat /\ slept <= elapsed' /\ elapsed' <= cost
    <3> HIDE DEF slept, before, cost
    <3> QED BY <1>a, <2>1, <2>2, <2>4, <2>5
  <2>7. ASSUME NEW a \in {"final", "timed_out", "upstream"}, Finish(a)
        PROVE  TypeOK' /\ Spent' /\ at' = "done" /\ answer' = a /\ round' = round
    BY <1>a, <2>3, <2>6, <2>7 DEF Finish, TypeOK, Spent
  <2>8. CASE Found
    <3>1. Finish("final") /\ landsAt' <= elapsed'
      BY <2>3, <2>8 DEF Found
    <3>2. TypeOK' /\ Spent' /\ at' = "done" /\ answer' = "final"
      BY <2>7, <3>1
    <3> QED
      BY <3>1, <3>2 DEF OnlySlowTransactionsTimeOut
  <2>9. CASE Finish("upstream")
    BY <2>7, <2>9 DEF OnlySlowTransactionsTimeOut
  <2>10. CASE NotFound /\ round < Rounds
    <3>1. at' = "asleep" /\ round' = round + 1 /\ answer' = answer
      BY <1>a, <2>10 DEF NotFound
    <3>2. round' - 1 = round /\ round' \in 1..Rounds
      BY <1>a, <2>10, <3>1
    <3>3. TypeOK'
      BY <2>3, <2>6, <3>1, <3>2 DEF TypeOK
    <3>4. Spent'
      BY <2>6, <3>1, <3>2 DEF Spent
    <3> QED
      BY <2>3, <3>1, <3>3, <3>4 DEF OnlySlowTransactionsTimeOut
  <2>11. CASE NotFound /\ ~(round < Rounds)
    <3>1. round = Rounds /\ Finish("timed_out") /\ landsAt > elapsed
      BY <1>a, <2>11 DEF NotFound
    <3>2. landsAt > slept
      <4> HIDE DEF slept
      <4> QED BY <1>a, <2>4, <2>5, <3>1
    <3>3. TypeOK' /\ Spent' /\ at' = "done" /\ answer' = "timed_out"
      BY <2>7, <3>1
    <3> QED
      BY <2>3, <2>6, <3>1, <3>2, <3>3 DEF OnlySlowTransactionsTimeOut
  <2> QED
    BY <1>4, <2>8, <2>9, <2>10, <2>11 DEF Ask
<1> QED
  BY <1>1, <1>2, <1>3, <1>4 DEF Next

\* The invariant holds in every reachable state.
THEOREM ClockInvariance == Spec => []ClockInv
BY InitClock, ClockStep, PTL DEF Spec

\* Whatever the timeout and however long calls take, a transaction that is in
\* a ledger within the rounds' sleeps is never answered by a timeout.
THEOREM TimeoutsAreForSlowOnes == Spec => []OnlySlowTransactionsTimeOut
<1>1. ClockInv => OnlySlowTransactionsTimeOut
  BY DEF ClockInv
<1> QED
  BY <1>1, ClockInvariance, PTL

\* The answer comes within Rounds * (Interval + Timeout).
THEOREM AnswersInTime == Spec => []AnsweredInBoundedTime
<1>1. ClockInv => AnsweredInBoundedTime
  BY DEF ClockInv
<1> QED
  BY <1>1, ClockInvariance, PTL
=============================================================================
