------------------------------ MODULE Network ------------------------------
(***************************************************************************)
(* The Stellar network and its Soroban RPC node, as the proxy sees them    *)
(* through getLedgerEntries, simulateTransaction, sendTransaction and      *)
(* getTransaction.  Nothing here is code of the repository: each           *)
(* definition is what src/txbuild.rs and src/handlers.rs rely on.          *)
(*                                                                         *)
(* The served contract is abstracted to one state out of States; a call    *)
(* of fn writes (its simulated footprint has read_write entries) exactly   *)
(* when the contract is in one of WriteStates[fn].                         *)
(***************************************************************************)
EXTENDS Integers, Sequences

CONSTANTS
  Accounts,     \* funded G... accounts
  Keys,         \* well-formed secret keys, each named by the account it belongs to
  Names,        \* function names, of the contract or merely asked for
  Args,         \* argument lists that convert to ScVals
  States,       \* abstract states of the contract's storage
  WriteStates,  \* [Names -> SUBSET States]: where a call of the function writes
  MaxSeq,       \* i64::MAX, the largest sequence number of an account
  Absent,       \* a header, key or value that is not there
  Invalid       \* a header, key or value that does not parse

ASSUME NetworkAssumption ==
  /\ WriteStates \in [Names -> SUBSET States]
  /\ MaxSeq \in Nat
  /\ Accounts \subseteq Keys
  /\ Absent \notin Keys /\ Invalid \notin Keys
  /\ Absent \notin Args /\ Invalid \notin Args
  /\ Absent # Invalid

VARIABLES
  acctSeq,  \* the current sequence number of each account
  store,    \* the contract's state
  pool,     \* transactions queued and not yet in a ledger
  ledger    \* [tx, status] of the transactions included in a ledger

netVars == <<acctSeq, store, pool, ledger>>

\* The sequence numbers an i64 holds.
SeqNums == -MaxSeq - 1 .. MaxSeq

\* A transaction's identity (its hash) covers everything but its signatures.
Tx == [source : Accounts, seq : SeqNums, fn : Names, arg : Args \cup {Absent},
       rw : BOOLEAN, fee : Int]

TxStatus == {"SUCCESS", "FAILED"}

NetTypeOK ==
  /\ acctSeq \in [Accounts -> 0..MaxSeq]
  /\ store \in States
  /\ pool \subseteq Tx
  /\ ledger \subseteq [tx : Tx, status : TxStatus]

NetInit ==
  /\ acctSeq = [a \in Accounts |-> 0]
  /\ store \in States
  /\ pool = {}
  /\ ledger = {}

\* The footprint simulateTransaction reports for fn has read_write entries.
Writes(fn) == store \in WriteStates[fn]

-----------------------------------------------------------------------------
(* sendTransaction.                                                        *)

\* Properly signed, and carrying the source account's next sequence number.
ValidTx(t, signer) ==
  /\ signer = t.source
  /\ t.seq = acctSeq[t.source] + 1

SourceBusy(t) == \E u \in pool : u.source = t.source

\* The statuses the node may answer.  One transaction per source account is
\* queued; a full queue, too, makes the node ask to try again.
SendStatus(t, signer, st) ==
  \/ /\ st = "DUPLICATE"
     /\ t \in pool /\ signer = t.source
  \/ /\ st = "PENDING"
     /\ ValidTx(t, signer) /\ ~SourceBusy(t)
  \/ /\ st = "TRY_AGAIN_LATER"
     /\ ~(t \in pool /\ signer = t.source)
  \/ /\ st = "ERROR"
     /\ ~ValidTx(t, signer) \/ (SourceBusy(t) /\ t \notin pool)

SendStatuses == {"DUPLICATE", "PENDING", "TRY_AGAIN_LATER", "ERROR"}

-----------------------------------------------------------------------------
(* Steps the network takes on its own.                                     *)

\* A queued transaction enters a ledger, which consumes its sequence number.
\* One that writes outside its simulated footprint fails; any may fail.
ApplyTx(t) ==
  /\ t \in pool
  /\ t.seq = acctSeq[t.source] + 1
  /\ \E status \in TxStatus :
       /\ status = "SUCCESS" /\ Writes(t.fn) => t.rw
       /\ ledger' = ledger \cup {[tx |-> t, status |-> status]}
       /\ store' \in IF status = "SUCCESS" /\ Writes(t.fn) THEN States ELSE {store}
  /\ pool' = pool \ {t}
  /\ acctSeq' = [acctSeq EXCEPT ![t.source] = @ + 1]

\* A queued transaction is outbid, or became invalid, and is dropped.
EvictTx(t) ==
  /\ t \in pool
  /\ pool' = pool \ {t}
  /\ UNCHANGED <<acctSeq, store, ledger>>

\* The account's owner uses it without the proxy.
OwnerTx(a) ==
  /\ acctSeq[a] < MaxSeq
  /\ acctSeq' = [acctSeq EXCEPT ![a] = @ + 1]
  /\ UNCHANGED <<store, pool, ledger>>

\* Somebody else's transaction changes the contract's state.
OutsideWrite ==
  /\ store' \in States \ {store}
  /\ UNCHANGED <<acctSeq, pool, ledger>>

NetNext ==
  \/ \E t \in pool : ApplyTx(t) \/ EvictTx(t)
  \/ \E a \in Accounts : OwnerTx(a)
  \/ OutsideWrite
=============================================================================
