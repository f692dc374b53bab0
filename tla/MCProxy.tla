------------------------------ MODULE MCProxy ------------------------------
(***************************************************************************)
(* The instance TLC checks: two requests on one account, one contract.     *)
(***************************************************************************)
EXTENDS Proxy, TLC

CONSTANTS r1, r2, alice, bob, x

\* lazy writes only in state "fresh" (a getter that initialises its storage),
\* tick and put write always; put and rich take arguments; the resource fee of
\* rich and the inclusion fee together are out of range.
MCNames == {"lazy", "tick", "put", "rich", "none"}

MCDeclared ==
  << [name |-> "put",  takesArgs |-> TRUE],
     [name |-> "lazy", takesArgs |-> FALSE],
     [name |-> "tick", takesArgs |-> FALSE],
     [name |-> "rich", takesArgs |-> TRUE] >>

MCStates == {"fresh", "used"}

MCWriteStates ==
  [n \in MCNames |->
     CASE n = "lazy" -> {"fresh"} [] n = "tick" -> MCStates
       [] n = "put" -> MCStates [] OTHER -> {}]

MCResourceFee == [n \in MCNames |-> IF n = "rich" THEN 8 ELSE 5]

MCCall(m, f, a, s, sg, k) ==
  [method |-> m, fn |-> f, arg |-> a, source |-> s, sign |-> sg, key |-> k]

\* Signed calls of each kind of function, and one call for every refusal.
MCCalls ==
  { MCCall("POST", "put",  x, alice, TRUE, alice),
    MCCall("GET",  "lazy", x, alice, TRUE, alice),
    MCCall("POST", "tick", x, alice, TRUE, bob),
    MCCall("GET",  "tick", x, alice, TRUE, alice),
    MCCall("POST", "put",  x, alice, FALSE, Absent),
    MCCall("POST", "put",  Invalid, alice, TRUE, alice),
    MCCall("POST", "put",  x, alice, TRUE, Invalid),
    MCCall("POST", "rich", x, alice, TRUE, alice),
    MCCall("POST", "none", x, alice, TRUE, alice),
    MCCall("POST", "put",  x, Absent, TRUE, alice),
    MCCall("POST", "put",  x, Invalid, TRUE, alice) }

Symmetry == Permutations(Requests)
=============================================================================
