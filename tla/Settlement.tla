----------------------------- MODULE Settlement -----------------------------
(***************************************************************************)
(* What the proxy promises whoever calls /api: each request is closed once *)
(* - refused, handed back unsigned, reported with a status of the ledger,  *)
(* or left in doubt - and what the network takes in its name is one        *)
(* transaction, fixed before it is first sent, which no ledger includes    *)
(* twice.  There are no processes here, no RPC calls and no queue: module  *)
(* Proxy is shown to implement this one.                                   *)
(***************************************************************************)
CONSTANTS
  Requests,      \* the HTTP requests
  Transactions,  \* what they may turn into
  Statuses,      \* the outcomes a ledger records
  Nothing        \* no transaction

VARIABLES
  outcome,  \* how each request was closed, "none" while it is not
  txOf,     \* the transaction prepared for it
  taken,    \* the requests in whose name the network took a transaction
  ledger    \* [tx, status] of what a ledger included

promises == <<outcome, txOf, taken, ledger>>

Init ==
  /\ outcome = [r \in Requests |-> "none"]
  /\ txOf = [r \in Requests |-> Nothing]
  /\ taken = {}
  /\ ledger = {}

Close(r, o) == outcome' = [outcome EXCEPT ![r] = o]

\* Refused: the network took nothing for it and, Take says, never will.
Refuse(r) ==
  /\ outcome[r] = "none" /\ r \notin taken
  /\ Close(r, "refused")
  /\ UNCHANGED <<txOf, taken, ledger>>

\* A request gets its one transaction.  It may be closed with it, unsigned.
Prepare(r) ==
  /\ outcome[r] = "none" /\ txOf[r] = Nothing
  /\ txOf'[r] \in Transactions
  /\ txOf' = [txOf EXCEPT ![r] = txOf'[r]]
  /\ UNCHANGED outcome \/ Close(r, "unsigned")
  /\ UNCHANGED <<taken, ledger>>

\* The network takes what was prepared, for a request that is open or in doubt.
Take(r) ==
  /\ outcome[r] \in {"none", "unsure"} /\ txOf[r] \in Transactions
  /\ taken' = taken \cup {r}
  /\ UNCHANGED <<outcome, txOf, ledger>>

\* A ledger includes a transaction somebody was promised, for the first time.
Include(r) ==
  /\ r \in taken
  /\ \A e \in ledger : e.tx # txOf[r]
  /\ \E s \in Statuses : ledger' = ledger \cup {[tx |-> txOf[r], status |-> s]}
  /\ UNCHANGED <<outcome, txOf, taken>>

\* The request learns what became of its transaction.
Report(r) ==
  /\ outcome[r] = "none"
  /\ \E e \in ledger : e.tx = txOf[r] /\ Close(r, e.status)
  /\ UNCHANGED <<txOf, taken, ledger>>

\* Some requests end without knowing: an error, a timeout, a crash.
Doubt(R) ==
  /\ \A r \in R : outcome[r] = "none"
  /\ outcome' = [r \in Requests |-> IF r \in R THEN "unsure" ELSE outcome[r]]
  /\ UNCHANGED <<txOf, taken, ledger>>

Next ==
  \/ \E r \in Requests :
       Refuse(r) \/ Prepare(r) \/ Take(r) \/ Include(r) \/ Report(r)
  \/ \E R \in SUBSET Requests : Doubt(R)

Spec == Init /\ [][Next]_promises
=============================================================================
