---------------------------- MODULE MCDiscovery ----------------------------
(***************************************************************************)
(* One request against MCProxy's contract, and a client that reads the     *)
(* list any number of times.                                               *)
(***************************************************************************)
EXTENDS Discovery, TLC

CONSTANTS r1, alice, bob, x

MCNames == {"lazy", "tick", "put", "none"}
MCDeclared ==
  << [name |-> "put",  takesArgs |-> TRUE],
     [name |-> "lazy", takesArgs |-> FALSE],
     [name |-> "tick", takesArgs |-> FALSE] >>
MCStates == {"fresh", "used"}
MCWriteStates ==
  "lazy" :> {"fresh"} @@ "tick" :> MCStates @@ "put" :> MCStates @@ "none" :> {}
MCResourceFee == [n \in MCNames |-> 5]

\* Every function by either method, signed or not.
MCCalls ==
  [method : {"GET", "POST"}, fn : MCNames, arg : {x}, source : {alice},
   sign : BOOLEAN, key : {alice}]
=============================================================================
