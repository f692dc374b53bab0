# A TLA+ model of OrcusAPI

OrcusAPI (`soroban-api-proxy`) is an HTTP proxy in front of one Soroban smart
contract on the Stellar network. At its start it reads the contract's interface
from the contract's WASM and decides for each function whether `/api/{name}`
serves it by GET or by POST. A call is simulated and handed back unsigned, or
signed, submitted and polled for. This directory holds the TLA+ modules that
model it, the TLC configurations that check them, and the theorems TLAPS proves.
Source paths below are those of the repository (`src/handlers.rs`).

## The system

| Component | State it keeps | Operations | Where |
|---|---|---|---|
| Startup | the process's own progress | first spec fetch, one probe per function, publish, bind, serve | `src/main.rs`, `src/probe.rs` |
| Shared state | `spec_cache`, `function_methods`, both in memory | `should_use_get` | `src/state.rs` |
| Spec cache | spec by WASM hash | `get_or_fetch_spec` | `src/contract_source.rs` |
| Contract spec | functions in order, user types by name | `from_entries`, `function`, `union_case`, JSON views | `src/spec.rs` |
| Invocation | per request, in the handler's future | GET and POST `/api/{name}` | `src/handlers.rs` |
| Transactions | none | sequence number, build, parse simulation, assemble, sign | `src/txbuild.rs` |
| Conversion | none | JSON to `ScVal` by type, `ScVal` to JSON | `src/scval.rs` |
| RPC client | an id counter nobody reads | `call` and five methods | `src/rpc.rs` |
| Errors | none | error to HTTP status | `src/error.rs` |
| Discovery | none | `/health`, `/network`, `/spec`, `/functions` | `src/handlers.rs` |
| Configuration | none | environment, checked before anything else | `src/config.rs` |
| Network (external) | accounts, contract state, transaction queue, ledger | RPC calls, ledger closes | - |

How they interact. Startup calls the spec cache, then the prober, which builds
and simulates one transaction per argument-less function, and writes the map
that every handler reads. A handler makes up to 33 RPC calls in a row; between
two of them everything else may move: other handlers, the network, the account's
owner, the client, the process. There is no lock over two calls, no queue and
nothing on disk. Two handlers never talk to each other, but they meet on the
network: in an account's sequence number, in the node's queue, in the contract's
state.

What is hard here is therefore not a data structure but time: a sequence number
read and used two calls later; a footprint simulated and used when a ledger
closes; a method decided at startup and used for the life of the process; a send
whose reply is lost; a loop that gives up on a transaction which is still
queued; a client or a process gone in the middle. `PROJECT.json` lists these
hazards at their lines.

What makes each component correct:

- startup: no request before the spec is cached and every declared function, and
  nothing else, has a method; a start ends;
- classification: GET is for functions without arguments that have a state in
  which they write nothing;
- invocation: what reaches the network is what a signed request asked for, with
  its arguments, its account and that account's key; a refusal leaves nothing
  behind; a final status is the ledger's; nothing follows an answer; every
  request ends;
- conversion: types decide, ranges are kept, rendering inverts reading.

## The modules

| Module | Models |
|---|---|
| `Network` | the Stellar network and its RPC node, as the proxy sees them (external) |
| `Startup` | `main` to `axum::serve`, `get_or_fetch_spec`, `classify_functions` |
| `Invoke` | the handlers of `/api/{function_name}`, one process per request |
| `Proxy` | the composition, crashes and restarts, the properties |
| `Settlement` | abstract: what a call promises, whoever serves it |
| `Discovery` | `GET /functions` and a client that follows it, with the whole proxy |
| `PollClock` | the `getTransaction` loop against the clock |
| `Levels` | a recursion over nested data, by the depth of the nesting |
| `Halves` | integer ranges and the halves of 128-bit integers |
| `ContractSpec` | `ContractSpec::from_entries` and the look-ups of user types |
| `ScVals` | `json_to_scval` and `scval_to_json` with their helpers |
| `Conversion` | a client that sends an argument, or reads a reply and sends it back |
| `ProxyProofs`, `MethodProofs` | the invariants of `Proxy` and its theorems |
| `SettlementProofs` | `Proxy` implements `Settlement` |
| `DiscoveryProofs`, `PollClockProofs`, `LevelsProofs`, `HalvesProofs` | the theorems on these modules |
| `ConversionProofs` | the invariant of `Conversion` and its theorems |
| `MCProxy`, `MCDiscovery`, `MCConversion` | the instances TLC checks |

`Startup` EXTENDS `Network`, `Invoke` EXTENDS `Startup`, `Proxy` EXTENDS
`Invoke`, `Discovery` EXTENDS `Proxy`; `Proxy` instantiates `Settlement`.
`Conversion` EXTENDS `ScVals`, which EXTENDS `Halves` and `ContractSpec`; every
recursion in them is an INSTANCE of `Levels`. For `Invoke` an argument list converts or is `Invalid`; what converts, and to what,
is the subject of `Conversion`.

### Network

A transaction is a record of what the proxy sets: source, sequence number,
function, argument, whether its footprint has read-write entries, fee. The
contract is one state out of `States`, and `WriteStates[f]` are the states in
which `f` writes: enough to tell a pure getter, a function that always writes,
and one that writes sometimes (a getter that initialises its storage). The node
answers `sendTransaction` with `PENDING`, `DUPLICATE`, `TRY_AGAIN_LATER` or
`ERROR`; it queues one transaction per account and may ask to try again at any
time. `ApplyTx` closes a ledger over one queued transaction; one that would
write outside its footprint fails, any may fail. `EvictTx`, `OwnerTx` and
`OutsideWrite` are what else happens to queue, accounts and contract.

### Startup

`phase` follows `main`: `boot`, `probing`, `binding`, `serving`, `exited`.
`Probe` is one round of the loop in `classify_functions`: a function with
arguments is POST, one without is GET exactly when its simulation succeeds and
reports no write; any simulation may fail, which is POST. The map becomes
visible at once (`Publish`), as the assignment under the write lock does. Every
`?` of `main` is `LeaveProcess`.

### Invoke

`pc[r]` is the await a request is at. `Arrive` runs the handler to its first RPC
call: the checks of `read_common_headers` and `invoke_inner` in the code's
order. `FetchSequence`, `Simulate`, `Send` and `Poll` each take one reply and
run to the next await. All failures of the first are 400 (`handlers.rs:192`), a
failed simulation call is 502, what `parse_simulation` refuses is 400 and what
`assemble_transaction` refuses 500. Signing and building do not wait and are
part of `Simulate`. `Send` tells only `ERROR` apart, as the code does.

`wire` holds requests whose handler is gone (lost reply, timeout, disconnect,
crash) while their `sendTransaction` may still reach the node; `DeliverLate` is
that moment, and staying on the wire for ever is the loss. `accepted` is a
history variable: requests whose own send the node answered with `PENDING`.
Nothing reads it but properties.

Sequence numbers are an i64: `SeqNums` is the range around `MaxSeq`. `NextSeq`
wraps, or the request panics when `OverflowChecks` holds (cargo's dev profile).

### Settlement

Four variables: how each request was closed (`outcome`), the one transaction
prepared for it (`txOf`), in whose name the network took one (`taken`), and the
`ledger`. A request is refused only if nothing was taken for it, and nothing is
taken for it afterwards; a transaction is prepared once; a ledger includes what
was taken, once; a reported status is one the ledger holds; the rest is doubt.
There are no calls, queue, startup or processes. `Proxy` maps onto it
(`Promise`): an answer is mapped to its class by `Outcome`, `txOf` is the
transaction signed or handed back, `taken` the requests whose transaction was
ever accepted, and the ledger is the network's. A crash, a timeout and a 502 all
map to doubt.

### Discovery

`GetFunctions` is `get_functions`: the list is the map as it is, with POST for
what the map does not hold. `advice` is the last list read, and `fresh` says
whether the process that gave it still runs; any step that leaves `serving` for
`exited` ends that. `/functions` reads the same map `should_use_get` does, so
only the composition with crashes and restarts says anything.

### PollClock

One request, the sleeps, the calls and when its transaction is in a ledger; the
node's reply reflects some ledger between the call's beginning and its end, so
`NOT_FOUND` needs a transaction that was not there at the beginning and a final
status one that was there at the end. A call that fails ends the request. The
sleeps are exact; what tokio adds to them is left out.

### Conversion

`Halves` has the widths as parameters, `Byte`, `Half` and `Word`. `ContractSpec`
keeps the maps of user types as the code does: a later entry replaces an earlier
one of its kind and name, and `udt_to_scval` looks for a struct, a union, an
enum and an error enum, in this order. A result is a set: one `ScVal`, or none
for an error. JSON is a tagged tuple; numbers are integers or `frac`, and
serde_json's division of integers into those it holds exactly (within i64 or
u64) and those it makes floats of is kept. An object is a finite set of members
with a key each, since nothing in the code depends on how it is stored but the
order of its texts, which `TextRank` gives and `EntryOrder` uses for the ties of
the stable sort.

`Typed` and `Written` follow the match arms of `json_to_scval` and
`scval_to_json`, one operator per helper. Where the code calls itself they apply
a function that stands for the calls one level down (`read`, `write`), and
`FromJson` and `ToJson` put these levels together up to `Depth`, which bounds the
nesting of JSON, of values and of types alike: `Json`, `ScVal` and the values of
a type (`Values`) are levels too. `Depth` is any number from 1 up. It is no
restriction of what happens, since serde_json itself refuses JSON nested deeper
than 128, and what is not nested as deep as `Depth` converts as in the code.
User-defined types may contain themselves. A map type may have keys that
`json_key_to_scval` does not take; the order of such keys is left out, since the
only argument of such a type, but for the escape hatch, is the empty map.

`Call` sends any JSON value of `Inputs`, or leaves the argument out, which is a
null. `Return` renders any value of the type that is among `Outputs`, and
`CallAgain` sends the rendering back. `Leave` ends the exchange.

### What is abstracted

An argument list is a value or `Invalid` (it does not convert). A header that is
missing or not UTF-8 is `Absent`, a source account that is no strkey `Invalid`.
Secret keys are named by their account. The spec of a function is its name and
whether it takes arguments. XDR, hashes and signatures are not built: a
transaction is its own hash, and a signature is the key's name. JSON bodies that
axum itself rejects never reach a handler. In `ScVals`, texts are atoms: a
numeral, a hex text, a strkey and a long symbol are given by the constants with
what they stand for, and their order by `TextRank`. What the code relies on of
these is assumed by name: texts have one order (`TextAssumption`), a numeral is
one integer's (`NumeralAssumption`), hex decoding undoes hex encoding
(`HexAssumption`), a strkey is one address's (`StrkeyAssumption`). Texts are UTF-8 (the code's
lossy reading of other bytes is left out), and the `{:?}` and other fallback
renderings of values that no type reads are one value. The serde form inside
`__xdr` is a tagged value. Logging and the wording of messages are left out.

## Runs

| Run | Checks | Distinct states |
|---|---|---|
| `safety` | `TypeOK`, six safety properties, the refinement `KeepsItsPromise` | 2.5 million |
| `liveness` | `RequestsEnd`, `StartupEnds` under `FairSpec` | 22 thousand |
| `discovery` | `AdviceHolds` | 91 thousand |
| `conversion` | `ArgumentsAreTyped`, `IntegersAreExact`, `RepliesReadBack` | 57 thousand |
| `poll_clock` | `OnlySlowTransactionsTimeOut`, `AnsweredInBoundedTime` | 103 thousand |
| `timed_out` | a message of the code, violated | - |
| `signed_get`, `shared_success` | sentences of the README on signed calls, violated | - |
| `map_replies`, `union_replies`, `json_numbers` | the README on conversion, violated | - |
| `poll_time` | the README on polling, violated | - |

### The proxy

The instance has two requests, so that everything two handlers can do to each
other happens (the properties speak of one or two requests). One account makes
them meet on its sequence number; the second key is the wrong signer. Four
declared functions: `put` takes arguments and writes, `lazy` writes only in one
state, `tick` always writes, `rich` costs more than a u32 of `U32Max` holds;
`none` is not declared. Eleven calls: signed calls of each kind and one for each
refusal. `MaxSeq = 2` lets two transactions be applied and reaches the i64
maximum; `MaxPolls = 2` has a round that is not the last and one that is (the
code has 30). Process restarts and contract writes are unbounded. Requests are
symmetric in the safety runs. `liveness` has one request, since requests do not
wait for each other, three rounds, and overflow checks on.

What the safety properties say:

- `ServingIsReady`: handlers never see an empty cache or a partial map, over any
  crashes. It is why `Arrive` may take cache and map as they are.
- `RefusedLeftNoTrace`: 4xx, 500 and unsigned answers mean that nothing was
  queued and nothing is under way. This does not hold of 502 and must not.
- `EveryTxWasAsked`: whatever is queued or included was asked for by a signed
  request with those arguments and that key, at a fee that fits a u32.
- `FinalAnswerIsTrue`: a `SUCCESS` or `FAILED` is the ledger's, of a transaction
  that is the request's own call, `DUPLICATE` and `TRY_AGAIN_LATER` included.
- `GetIsForGetters`: a function that writes in every state, or takes arguments,
  is never submitted by GET.
- `NothingAfterTheAnswer`: an answer is final, and after it, or after a
  disconnect or a crash, nothing more is sent than was under way.
- `KeepsItsPromise`: `Proxy` implements `Settlement`. Beyond the invariants
  above it relates steps: a transaction is never replaced once prepared, a
  refusal is never followed by an acceptance, a ledger includes a transaction
  once and only if it was accepted, and an answer with a status is given while
  the ledger has it.

`discovery` has one request and the whole proxy below it: a client's calls do
not wait for each other. `AdviceHolds` says that a call made by the method
listed is answered neither 404 nor 405 while the process that listed it lives,
whatever happens to the contract in between. A restarted process may answer 405:
its probes may come out differently.

### Conversion

A byte has two values, a 32-bit type four and a 64-bit type eight, so that a
128-bit type has 64 and TLC takes every integer of every type; inputs go from
-34 to 66, beyond both ends of the widest types, as JSON numbers and as
numerals, with `01` as a second spelling of 1. Types are all scalar ones, the
user types of `MCEntries` (with a tuple struct, a struct without fields, a union
with zero, one and two arguments, an enum defined twice, and one hidden by a
struct of its name), and vectors, maps, tuples and options over them. `Depth` is
5, deeper than any of them. `Inputs` are all scalars, arrays and objects of up to
two members (in and out of the order of keys), arrays of these, and the escape
hatch at the top and in members. `Outputs` are all values of the types whose
vectors, maps and byte strings have up to two elements. Two are enough for wrong
order, wrong length, a collision and a mixture of kinds. Recursive user types,
longer maps and deeper values are not in the instance; the theorems cover them.

- `ArgumentsAreTyped`: what conversion accepts is in the set of values of the
  type, which is defined without it: integers in range, lengths right, maps and
  structs in the host's order with each key once, enums among the cases of the
  definition that counts. Two exceptions are stated: the escape hatch, and an
  object with two spellings of one key, which yields a map with the key twice
  that the host refuses.
- `IntegersAreExact`: an accepted number is the integer it was, a numeral is
  accepted exactly when the type holds it, through both halves.
- `RepliesReadBack`: what a contract returned, sent back as JSON, is the value
  it was, for every type without unions and without maps keyed by other than
  text.

### The clock

`poll_clock` uses the code's numbers: thirty rounds, one second, a timeout of
thirty seconds. Calls take 0, 1, 29 or 30 seconds, and the transaction is in a
ledger at one of several times before, at and after the thirtieth second.
`OnlySlowTransactionsTimeOut` says the loop never gives up on a transaction that
was in a ledger by the end of the thirty sleeps, `AnsweredInBoundedTime` that it
lasts at most 30 x 31 seconds.

### Fairness

`FairSpec` assumes weak fairness of the process's own steps: of `main` before it
serves, and of each handler. Each such step is the end of an RPC call, which the
client's timeout ends if nothing else does (`main.rs:34-36`), or of a one-second
sleep, and tokio runs what is ready. Nothing is assumed of the network (no
transaction need ever be included), of clients, of delivery, or of the operator.

### Where code and documents disagree

- `timed_out`: the message of a used-up poll loop says the transaction "may
  still confirm later" (`handlers.rs:283-284`). After `TRY_AGAIN_LATER`, which
  the code treats as submitted, nobody ever queued it.
- `signed_get`: README.md:51-52 says a signed GET has "nothing to write". The
  method was decided by one simulation at startup; a function that writes in
  some states is later submitted by GET with a writing footprint.
- `shared_success`: README.md:47-49 says of a signed call that the proxy "signs,
  submits, and polls until the transaction lands". Two equal overlapping calls
  read one sequence number, build one transaction and are both answered with its
  success; the call ran once.
- `map_replies`: README.md:219 says return values follow "the same rendering in
  reverse". A non-empty map keyed by anything but symbols or strings is written
  as an array of pairs (`scval.rs:499-506`), which the reader refuses for a map.
- `union_replies`: by the same sentence. A union is written as the vector it is
  (`scval.rs:481`); the reader takes a string or an object with one member.
- `json_numbers`: README.md:201 gives `i128` as "number **or** decimal string".
  A number from 2^63 to 2^64-1 is refused for an `i128` (`scval.rs:369`) and
  taken for a `u128`.
- `poll_time`: README.md:229 says the flow polls "for up to ~30 seconds". The
  calls' own time comes on top (`handlers.rs:266-272`): up to fifteen minutes
  and a half.

## Theorems

`ProxyProofs` proves, for every value of the constants the ASSUMEs allow:
`TypeCorrect`, `RefusalsLeaveNoTrace`, `TransactionsWereAsked`,
`SilenceAfterAnswer` and `FinalAnswersAreTrue`; `MethodProofs` proves
`ServesWhenReady` and `GetsServeGetters`. So every safety property of the run
`safety` is also a theorem, for any number of requests, accounts, functions and
rounds. `SettlementProofs` proves `ProxySettles`, that `Proxy` implements
`Settlement`; `DiscoveryProofs` proves `AdviceIsGood`; `PollClockProofs` proves
`TimeoutsAreForSlowOnes` and `AnswersInTime` for any rounds, interval and
timeout; `HalvesProofs` proves `HalvesFit`, `HalvesRecombine` and
`HalvesSeparate` for any word size; and `ConversionProofs` proves
`IntegersAreExactHolds`, `ArgumentsAreTypedHolds` and `RepliesReadBackHolds` for
any contract, any JSON, any depth and any widths. With that every invariant and
every action property of a passing run is stated by a theorem.

The argument. None of the properties is inductive: `AssembledTx` is a
transaction only for a call that passed the checks, and what the queue gets from
`Send` or `DeliverLate` is what `Simulate` left in `tx`. `HandlerOK(r)` says
what each stage may rely on: in flight means admitted and unanswered; sending,
polling, on the wire or accepted means that `tx[r]` is what `call[r]` asked for;
on the wire or accepted means polling or done, and not refused; accepted means
signed by the source's key. `IInv` is `TypeOK`, `HandlerOK` of every request,
and `EveryTxWasAsked`. `HandlerFrame` and `OthersFrame` reduce each step to the
one request that takes it, `AskedFrame` does the same for the network's sets.
`SilenceAfterAnswer` uses that answered is the same as `done`.
`FinalAnswersAreTrue` adds that the ledger only grows and an accepted request's
call and transaction do not change.

`MethodProofs` has an invariant of its own: while probing, the map holds exactly
the entries before the cursor; later, exactly the declared names (`PhaseOK`).
For `GetsServeGetters`, whatever either map calls GET is a getter, and whatever
a GET let through is one, whatever the maps say later. The latter theorem
assumes `UniqueNames`: with two entries of one name the code keeps the probe's
verdict on the last and calls the first (`probe.rs:60`, `spec.rs:83`).

`SettlementProofs` needs two facts beyond `IInv`: no transaction is prepared
before its simulation, and a request on the wire is in doubt (`StageFacts`);
what a ledger includes has used its sequence number up (`Spent`), so that it is
never included again. `PInv` is their conjunction. Each action then maps to one
step of `Settlement` or to a stutter: `Simulate` to `Prepare` or `Refuse`,
`Send` to `Take`, `Refuse` or `Doubt`, `DeliverLate` to `Take`, `ApplyTx` to
`Include`, `Poll` to `Report` or `Doubt`, a crash to `Doubt` of all that were in
flight.

`AdviceInv` of `DiscoveryProofs`: while `fresh` holds, the process serves and
the list is that of its map, which no step changes while it serves. `ClockInv`
of `PollClockProofs` adds to the properties what the rounds so far, and this
one's sleep, have spent at least and at most (its `Spent`); the products with
`Rounds` are kept in lemmas on multiplication. `HalvesProofs` rests on division
with remainder and on the quotient of a number between two multiples of a word.

`HalvesSeparate` is the converse of `HalvesRecombine` and what reading back
needs: any two halves a contract returns are those of one integer, so the
numeral they are written as is taken apart into the same two.

`ConversionProofs` has to reason about recursions. `LevelsProofs` proves
`LevelEquation` once, for whatever is built at each depth: functions that obey
the equation up to n exist, and two of them agree, both by induction over n. The
library's induction takes an operator, so `SetInduction` is proved instead, from
the least element of a set of numbers, and says of a set of depths that it holds
them all. The six recursions of the model are instances.

`Linked` is the inductive invariant of the exchange: `arg` is what `sent`
converts to, `reply` what `returned` is written as, `returned` a value of the
type, and what is sent after a reply is the reply. The rest is about the
conversions alone.

- `IntegersAreExactHolds` needs one unfolding of `json_to_scval`
  (`FromJsonIsTyped`) and the halves.
- `ArgumentsAreTypedHolds` is an induction over the depth (`ReadingIsTyped`):
  if the calls that a call makes return values of their types, so does the call.
  One lemma per helper says so: `MapIsTyped`, `StructIsTyped`, `UnionIsTyped`,
  `EnumIsTyped`, `ItemsAreRow`. A map needs the sort: `EntryOrder` is a total
  order on the members (`EntryOrderIsOrder`), a finite set has an arrangement in
  a total order (`ArrangementExists`), and texts that convert to one key are two
  spellings of an integer (`OneKeyPerText`). It also needs that the escape hatch is
  nowhere in the JSON of the two kinds the property speaks of.
- `RepliesReadBackHolds` needs first that `scval_to_json` is cut off nowhere:
  what is written of a value at one depth is what is written of it at any larger
  one (`ToJsonIsWritten`). Then, again by induction over the depth, what is
  written of a value of a type reads back (`WrittenReadsBack`): leaves by the
  assumptions on numerals, hex and strkeys, an option because only the void is
  written as null (`NullIsVoid`), a map because its entries are the one
  arrangement of the members it was written as (`ArrangementIsUnique`,
  `ObjectReadsBack`).

Assumptions: `NetworkAssumption` (accounts are keys, `Absent` and `Invalid` are
no data), `DeclaredAssumption`, `InvokeAssumption` (types of the constants, at
least one poll round), `ClockAssumption`, `WidthAssumption` (widths are even and
ordered), `BoundsAssumption` (`Depth` is positive), the four on texts above,
`TypeAssumption` (the types that a contract's types are made of are its types,
and the fields of a struct have different names) and `InputAssumption` (what a
client sends is JSON). TLC evaluates the assumptions in every run.

Only model-checked: the liveness properties `RequestsEnd` and `StartupEnds`,
which need fairness and ENABLED, and what the runs with an expected violation
show, which is about instances.

## Not modelled

- Concurrent misses of the spec cache (`contract_source.rs:64`), and with them
  `classify_lookup_err`: `ServesWhenReady` proves that no handler misses.
- Two spec entries of one function name: a contract's functions have distinct
  names. `GetsServeGetters` states it as its assumption.
- Configuration: read before the first state, pure parsing. Its timeout is a
  constant of `PollClock`.
- WASM and XDR decoding and the layout of `/spec`: formats, without state.
- The rendering of ledger keys, and of what no type reads back.
- `/health` and `/network`: a constant and a forwarded reply.
- TLS, HTTP, CORS and what axum answers by itself.
