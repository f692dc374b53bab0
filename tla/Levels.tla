------------------------------- MODULE Levels -------------------------------
(***************************************************************************)
(* Recursion over nested data, by the depth of the nesting: what is known  *)
(* of data at depth n is made, by Above, of what is known at depth n - 1.  *)
(* A recursion of the code is an instance of this module.                  *)
(***************************************************************************)
EXTENDS Integers

CONSTANTS
  Bottom,   \* what is known of data at depth 0
  Above(_)  \* from what is known at one depth to the next

Level[n \in Nat] == IF n = 0 THEN Bottom ELSE Above(Level[n - 1])
=============================================================================
