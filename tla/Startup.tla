------------------------------ MODULE Startup ------------------------------
(***************************************************************************)
(* The proxy process from its start to axum::serve: main, the first        *)
(* get_or_fetch_spec, which fills the spec cache, and classify_functions,  *)
(* which decides for each declared function whether /api serves it by GET  *)
(* or by POST.  All of it is memory: leaving the process loses it.         *)
(***************************************************************************)
EXTENDS Network

CONSTANT
  Declared  \* spec.functions in the order of the WASM's contractspecv0 section

ASSUME DeclaredAssumption ==
  Declared \in Seq([name : Names, takesArgs : BOOLEAN])

VARIABLES
  phase,       \* where main is
  specCached,  \* spec_cache holds the spec of CONTRACT_WASM_HASH
  cursor,      \* the entry of Declared that classify_functions is at
  probed,      \* the map classify_functions is building
  methods      \* AppState.function_methods

bootVars == <<phase, specCached, cursor, probed, methods>>

Phases == {"boot", "probing", "binding", "serving", "exited"}

\* true and false of the code's map, and a name the map does not hold.
Methods == {"GET", "POST", "unset"}

DeclaredNames == {Declared[i].name : i \in 1..Len(Declared)}

Unclassified == [n \in Names |-> "unset"]

BootTypeOK ==
  /\ phase \in Phases
  /\ specCached \in BOOLEAN
  /\ cursor \in 1..Len(Declared) + 1
  /\ probed \in [Names -> Methods]
  /\ methods \in [Names -> Methods]

BootInit ==
  /\ phase = "boot"
  /\ specCached = FALSE
  /\ cursor = 1
  /\ probed = Unclassified
  /\ methods = Unclassified

\* The process ends, by an error main returns or by a crash.
LeaveProcess ==
  /\ phase' = "exited"
  /\ specCached' = FALSE
  /\ cursor' = 1
  /\ probed' = Unclassified
  /\ methods' = Unclassified

\* get_or_fetch_spec on the empty cache.  A failed call, a missing or
\* undecodable entry and a WASM without a spec all end main.
FetchSpec ==
  /\ phase = "boot"
  /\ \/ LeaveProcess
     \/ /\ phase' = "probing"
        /\ specCached' = TRUE
        /\ UNCHANGED <<cursor, probed, methods>>

-----------------------------------------------------------------------------
(* classify_functions, one entry a step.                                   *)

\* A plausible slip: a call that simulates counts as safe whatever it writes.
ProbeMethod_NoFootprintTest(f, m) ==
  \/ f.takesArgs /\ m = "POST"
  \/ ~f.takesArgs /\ m \in {"GET", "POST"}

\* What one round of the loop may record.  A function that takes arguments
\* is not simulated.  Any simulation may fail: the call, the contract's own
\* trap, state that needs restoring, a reply that does not decode.
ProbeMethod(f, m) ==
  \/ f.takesArgs /\ m = "POST"
  \/ ~f.takesArgs /\ m = "POST"
  \/ ~f.takesArgs /\ m = (IF Writes(f.name) THEN "POST" ELSE "GET")

Probe ==
  /\ phase = "probing"
  /\ cursor <= Len(Declared)
  /\ \E m \in {"GET", "POST"} :
       /\ ProbeMethod(Declared[cursor], m)
       /\ probed' = [probed EXCEPT ![Declared[cursor].name] = m]
  /\ cursor' = cursor + 1
  /\ UNCHANGED <<phase, specCached, methods>>

\* A plausible slip: the server starts while the probes are still running.
Publish_Early ==
  /\ phase = "probing"
  /\ methods' = probed
  /\ phase' = "binding"
  /\ UNCHANGED <<specCached, cursor, probed>>

\* A plausible slip: the loop's end is off by one, the last round never comes.
Publish_Late ==
  /\ phase = "probing"
  /\ cursor > Len(Declared) + 1
  /\ methods' = probed
  /\ phase' = "binding"
  /\ UNCHANGED <<specCached, cursor, probed>>

\* The finished map replaces function_methods.
Publish ==
  /\ phase = "probing"
  /\ cursor > Len(Declared)
  /\ methods' = probed
  /\ phase' = "binding"
  /\ UNCHANGED <<specCached, cursor, probed>>

\* TcpListener::bind, then axum::serve; a bind error ends main.
Bind ==
  /\ phase = "binding"
  /\ \/ LeaveProcess
     \/ /\ phase' = "serving"
        /\ UNCHANGED <<specCached, cursor, probed, methods>>

\* The operator starts the proxy again.
Restart ==
  /\ phase = "exited"
  /\ phase' = "boot"
  /\ UNCHANGED <<specCached, cursor, probed, methods>>

BootStep == FetchSpec \/ Probe \/ Publish \/ Bind
=============================================================================
