----------------------------- MODULE Discovery -----------------------------
(***************************************************************************)
(* GET /functions, composed with the whole proxy: a client reads which     *)
(* method each function is served by, and later calls it so.  Between the  *)
(* two the contract's state may change and the process may be replaced by  *)
(* another, whose probes may come out differently.                         *)
(***************************************************************************)
EXTENDS Proxy

VARIABLES
  advice,  \* the list the client read last: the methods by name
  fresh    \* history: the process that gave it is still the one that runs

discoveryVars == <<advice, fresh>>

\* A plausible slip: the list goes by the parameters alone.
Listed_ByParameters(n) == IF FuncSpec(n).takesArgs THEN "POST" ELSE "GET"

\* http_method of a declared function: POST for a name the map does not hold.
Listed(n) == IF methods[n] = "GET" THEN "GET" ELSE "POST"

Listing == [n \in Names |-> IF n \in DeclaredNames THEN Listed(n) ELSE "unset"]

DiscoveryTypeOK == advice \in [Names -> Methods] /\ fresh \in BOOLEAN

\* get_functions.  The spec is in the cache: ServingIsReady.
GetFunctions ==
  /\ phase = "serving"
  /\ advice' = Listing
  /\ fresh' = TRUE
  /\ UNCHANGED vars

DiscoveryInit == Init /\ advice = Unclassified /\ fresh = FALSE

DiscoveryNext ==
  \/ GetFunctions
  \/ /\ Next
     /\ fresh' = (fresh /\ phase' # "exited")
     /\ UNCHANGED advice

DiscoverySpec == DiscoveryInit /\ [][DiscoveryNext]_<<vars, discoveryVars>>

-----------------------------------------------------------------------------
\* The request r that now arrives calls a function the way the list says.
FollowsAdvice(r) ==
  /\ pc[r] = "idle" /\ pc'[r] # "idle"
  /\ call'[r].method = advice[call'[r].fn]

\* README.md:93 and 190: the list tells which method to call a function with,
\* for the lifetime of the process.  Whoever follows it is answered neither 405
\* nor 404, whatever the contract, the network and other requests do between
\* list and call, unless the process was replaced.
AdviceHolds ==
  [][\A r \in Requests :
       FollowsAdvice(r) /\ fresh =>
         answer'[r] \notin {"method_not_allowed", "not_found"}]_<<vars, discoveryVars>>
=============================================================================
