----------------------------- MODULE PollClock -----------------------------
(***************************************************************************)
(* The getTransaction loop of invoke_inner against the clock: a round      *)
(* sleeps and then asks the RPC node, which takes what time it takes, up   *)
(* to the HTTP client's timeout.  Times are in seconds since the loop      *)
(* began.                                                                  *)
(***************************************************************************)
EXTENDS Integers

CONSTANTS
  Rounds,     \* of the loop: 30
  Interval,   \* that a round sleeps: 1
  Timeout,    \* of the HTTP client, REQUEST_TIMEOUT_SECS: 30 unless configured
  CallTimes,  \* how long a getTransaction call may take
  LandTimes   \* when the transaction may be in a ledger

ASSUME ClockAssumption ==
  /\ Rounds \in Nat \ {0} /\ Interval \in Nat /\ Timeout \in Nat
  /\ CallTimes \subseteq 0..Timeout
  /\ LandTimes \subseteq Nat

VARIABLES
  at,       \* "asleep", "asking" or "done"
  round,    \* rounds begun
  elapsed,  \* the clock
  landsAt,  \* when this transaction is in a ledger
  answer    \* of the request: "open", "final", "timed_out" or "upstream"

vars == <<at, round, elapsed, landsAt, answer>>

TypeOK ==
  /\ at \in {"asleep", "asking", "done"}
  /\ round \in 1..Rounds
  /\ elapsed \in Nat
  /\ landsAt \in Nat
  /\ answer \in {"open", "final", "timed_out", "upstream"}

Init ==
  /\ at = "asleep" /\ round = 1 /\ elapsed = 0
  /\ landsAt \in LandTimes
  /\ answer = "open"

\* tokio::time::sleep.
Sleep ==
  /\ at = "asleep"
  /\ at' = "asking"
  /\ elapsed' = elapsed + Interval
  /\ UNCHANGED <<round, landsAt, answer>>

Finish(a) == at' = "done" /\ answer' = a /\ UNCHANGED round

\* A plausible slip: the first reply of the last round is not looked at.
NotFound_LastRoundBlind ==
  \/ /\ landsAt > elapsed /\ round < Rounds
     /\ at' = "asleep" /\ round' = round + 1 /\ UNCHANGED answer
  \/ round = Rounds /\ Finish("timed_out")

\* A plausible slip: the loop runs one round too many.
NotFound_OneMore ==
  /\ landsAt > elapsed
  /\ \/ /\ round <= Rounds
        /\ at' = "asleep" /\ round' = round + 1 /\ UNCHANGED answer
     \/ round > Rounds /\ Finish("timed_out")

\* NOT_FOUND: another round, if there is one.  The node read its ledger after
\* the call began.
NotFound ==
  /\ landsAt > elapsed
  /\ \/ /\ round < Rounds
        /\ at' = "asleep" /\ round' = round + 1 /\ UNCHANGED answer
     \/ round = Rounds /\ Finish("timed_out")

\* The status is another: the node read its ledger before the reply.
Found == landsAt <= elapsed' /\ Finish("final")

\* A call of some length; a failure, a timeout among them, ends the request.
Ask ==
  /\ at = "asking"
  /\ \E d \in CallTimes : elapsed' = elapsed + d
  /\ Found \/ NotFound \/ Finish("upstream")
  /\ UNCHANGED landsAt

\* The request is answered.
Done == at = "done" /\ UNCHANGED vars

Next == Sleep \/ Ask \/ Done

Spec == Init /\ [][Next]_vars

-----------------------------------------------------------------------------
\* README.md:229-230: only a confirmation slower than the thirty rounds' sleeps
\* is answered by a timeout, however fast or slow the node replies.
OnlySlowTransactionsTimeOut ==
  answer = "timed_out" =>
    landsAt > Rounds * Interval /\ elapsed >= Rounds * Interval

\* The request is answered within the time that the rounds' sleeps and calls
\* can take, in whatever way it ends; and a final status not before the
\* transaction is in a ledger.
AnsweredInBoundedTime ==
  /\ elapsed <= Rounds * (Interval + Timeout)
  /\ answer = "final" => landsAt <= elapsed

\* README.md:229: the signed flow polls "for up to ~30 seconds".  Twice that
\* is no longer about it.
PollsForHalfAMinute == elapsed <= 2 * Rounds * Interval
=============================================================================
