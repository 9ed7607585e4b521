# TLA+ specifications of the MPC signing service

The service signs transactions for wallets. A `SignTx` call carries a policy
decision token; the service verifies the token, confirms with Wallet Management
that the key belongs to the wallet, hands the payload to a signing engine (the
in-house t-of-n threshold clusters or a custody provider) and emits a signed
audit record. Other calls create, rotate, describe and restore keys. This
directory models those paths, the custody clients and the life of the process,
checks them with TLC on small instances and proves the central facts with TLAPS
for every instance.

## The system and its modules

| Part | Source (under `src/src/`) | Module |
|---|---|---|
| Threshold cluster | `engine/threshold/cluster.rs` | `ThresholdCluster` |
| Shamir sharing | `engine/threshold/shamir.rs`, `curve.rs` | `Shamir` |
| SignTx handler, stores, wallet check | `grpc/service.rs`, `store.rs`, `wallet.rs` | `SignTx` |
| Policy token | `policy.rs` | `PolicyToken` |
| Audit emitter | `audit.rs` | `AuditEmitter` |
| Contract of a backend's `sign` | `engine/mod.rs` | `SigningEngine` (abstract) |
| Shared custody code, generic client | `engine/custody.rs` | `CustodyHttp` |
| Custody adapters | `engine/{fireblocks,turnkey,dfns}.rs` | `Fireblocks`, `Turnkey`, `Dfns` |
| The adapters in use | | `CustodyEngines` |
| Threshold engine, control-plane handlers | `engine/threshold/mod.rs`, `grpc/service.rs` | `ThresholdEngine` |
| Start-up, configuration, mTLS, engine factory | `main.rs`, `config.rs`, `mtls.rs`, `engine/mod.rs` | `Startup` |
| The process with its calls | | `Service` |

`MC*` modules give the constants small values; `*Proofs` modules hold theorems.
Definitions whose comment begins with "Mutant:" are variants with a plausible
bug; each property is known to fail under one of them.

What makes the system hard: the calls of a cluster run at once and no lock spans
one of them; a node's flags change under a running round; a handler pauses at
awaits where its future can be dropped; two calls may present one token; the
wall clock steps; the process restarts with empty stores; deliveries to the
audit log fail, or reach it after they were reported as failed; a custody
provider may act on a request whose reply is lost, finish after the service has
given up, or answer with another signature than the one asked for.

**ThresholdCluster** has one identity per call (`Key` for the one keygen of each
key, `Signing`, `Refreshing`), a program counter `pc` and loop position `at` per
call, and one action per atomic access: asking a node, its answer or timeout,
dealing one share, reading and writing one share in `refresh` (two actions: the
code takes the node's lock twice), publishing the key, bumping the epoch. A
share is the *set of dealings summed into it*. Shares lie on one polynomial
through the group secret exactly when those sets are equal; that reading is
what `Shamir!MixedSharesMiss` checks (a mixed quorum hits the secret for one
draw in P). `DropCall` is the loss of the caller at the only await. `torn`,
`raced` and `steady` are history variables that only the properties read.
Abstractions: the online count, which the code reads node by node, is read in
one step; key ids are fresh uuids, so a key has one keygen; `sign` cannot meet
`ReconstructFailed` because the indices it collects are distinct
(`QuorumOfDistinctNodes`); a delay is either within the round timeout or past it.

**Shamir** gives the operators over the integers modulo a small prime, and a
little machine in which dealers add sharings and refreshes add zero-sharings.
The index set and the prime are small, the algorithms are the code's
(Horner evaluation, Lagrange at zero, refusal when a denominator cannot be
inverted). `CheckedInvert` tells the two curves apart: k256 refuses to invert
zero, curve25519-dalek returns zero; with distinct indices the question is never
asked.

**PolicyToken** is `Ed25519TokenVerifier::verify` up to the single-use gate: the
checks in their order and the freshness window in wrapping u64 arithmetic (a
release build). `Approves` is what an approval means in unbounded arithmetic.

**AuditEmitter** is the channel and the delivery task. `sends` lists the calls of
`deliver` in their order, and `lost` collects what the service has given up on:
full channel, retries exhausted, no sink, process end. The log itself (`topic`)
is external. The producer is configured without idempotence and resends on its
own, and partitions have no common order, so nothing is said of the order or
the number of copies *in the log*: whatever was sent may be stored at any later
time (`BrokerStores`), after an error and after the process is gone; only an
acknowledgement (`DeliverOk`) says that a record is there. `BoundedSends` and
`SentInOrder` are about what the service decides, its sends. The pause before a
retry is part of `DeliverErr`.

**SignTx** extends the last two with the handler. Each action is the code
between two awaits or two accesses to shared state; a status update and the
emission that follows it with no await between are one action (`Conclude`).
The engine is external: after dispatch a signature may come to exist at any
time, and the engine may answer with any error. `Restart` empties the stores.

**SigningEngine** is the contract between the handler and any backend: a call is
handed over once; its signature may come to exist at any later time; it returns
once, with success only if the signature exists; its caller may leave.

**CustodyHttp** models one HTTP exchange per await. A call has an outstanding
request `ask` and possibly an answer on the `wire`; the exchange can fail whether
or not the provider acted on it, and the caller can drop the call meanwhile.
The provider is external: it allots key ids (`owner`), holds wallets (`held`) and
works on accepted requests (`txs`) in its own time (`Decide`). A finished signing
request may deliver any signature and any public key (`Delivered`, `AnyKey`):
over this payload or another, by the key that was asked for or another, the
signature and the public key agreeing with each other or not.
`verify_signature` accepts a signature over this payload under the public key
beside it on the chain's curve. Where the public key comes from in the same
answer (all but Turnkey) the code does not ask whether it belongs
to the key id of the call, and `OnlyVerifiedSignatures` does not claim it. How
each provider hashes what it signs (Turnkey's no-op hash, Fireblocks' raw
content) is external, so a delivered signature may verify or not. **Fireblocks**, **Turnkey** and **Dfns** follow each adapter
exchange by exchange: submit, poll until done or out of polls, fetch, verify;
key creation in several requests; each adapter's error mapping. The generic
client is modelled although `build_engine` does not select it. **CustodyEngines**
picks a provider and runs any number of calls against it.

**ThresholdEngine** is the key-id-to-scheme map over two clusters under the
control-plane handlers. A cluster operation is its beginning, the await of its
round and its end (the rounds themselves are in `ThresholdCluster`); `dkg` is
the two inserts, in the cluster and then in the map. As in the code, `dkg`
does not look at the requested threshold and parties.

**Startup** is `Config::from_env` and every stage of `main` with its failures, the
HTTP task and signals. An environment is a record of its variables. `peers` says
that clients hold gRPC connections open (`Clients`, external): `serve_with_shutdown`
returns only when they are closed, and nothing in the code limits that wait.
**Service**
composes it with `ThresholdEngine`: calls are taken while serving, the end of the
process (`EngineLost`) loses keys and calls, and a new process may start in
another environment. Call names are reused in each life of the process.

### How the parts meet

`SignTx` implies `SigningEngine` under the mapping `Backend` (`open` is
`dispatched`, `made` is `produced`, `ended` is read from `pc` and `answer`), and
`CustodyEngines` implies it under `Engine` (`made` are the completed signing
requests of the provider). So the handler and the adapters, checked apart, agree
on the interface at which they meet. A sign by the in-house cluster that returns
with a signature is `ThresholdCluster!FinishSign`; whether that signature verifies
is the cluster's own question.

## Runs

| Run | Instance | Distinct states | Shows |
|---|---|---|---|
| `ClusterRefresh` | n=3, t=2, 2 keys, 1 sign, 2 refreshes | 899,076 | published keys have all shares; refreshes that do not overlap agree; undisturbed signs verify; epochs count refreshes |
| `ClusterQuorum` | n=3, t=2, 1 key, 1 sign, 1 refresh, node 1 fails, node 2 lags | 89,120 | shares and deltas reach nodes that have gone offline or slow; t distinct nodes; loss tolerated; every call returns |
| `Emitter` | 3 sessions, capacity 1, 1 retry | 147,089 | records accounted for, bounded number of sends, sends in order, channel drains |
| `SignTxReplay` | 2 calls, one token id in two tokens | 1,079,415 | single use; sessions, records and answers agree; the handler keeps to `SigningEngine` |
| `SignTxVerdicts` | 1 call, every token, wallet reply and configuration | 68,656 | only authorised requests are dispatched; attempts end |
| `ShamirField` | P=5, n=4, t=3 | 125 | any quorum reconstructs, t-1 shares say nothing, mixed shares miss |
| `CustodyEngines` | 4 providers, 2 calls of any operation, 2 polls | 185,464 | adapters implement `SigningEngine`; only verified signatures; one change per call; created keys are the caller's own; calls end |
| `Service` | 29 environments, 3 calls, restarts without bound | 364,896 | key map and clusters agree; reported keys are found; epochs advance; shutdown completes once the connections are closed |

**Bounds.** Two refreshes and one sign are the least that can disturb each other
in every pairing; with t=2 of 3 a quorum can be met with and without any given
node. `ClusterRefresh` has no failing nodes; `ClusterQuorum` has one that goes
offline and one that lags, and checks the shares under those. Capacity 1 with three records fills, drains and refills the channel; one
retry gives both a retried and an abandoned delivery. In `SignTx` the modulus of
u64 is 8, so that a token that never expires wraps; the clock has instants 0 to 2
(3 in `SignTxVerdicts`) and a skew of 1, which puts it before, inside and after
a token's window. In `CustodyEngines` two calls are enough for a dkg or rotation
to overlap a use of the same key, and two polls for a request to be decided
before, between and after them; key 1 is unknown until the provider allots it.
In `Service` one call creates a key that the two others rotate, sign with,
describe or restore; the environments vary the provider and its credentials,
`DEV_MODE` with brokers and certificates, and one thing wrong at a time. Sets of
calls are symmetric where no liveness property is checked. Deadlock is checked
except in `CustodyEngines`, where the given calls simply come to an end.

**Fairness.** A cluster call that has begun keeps stepping: its only await is a
sleep bounded by the round timeout. A `SignTx` handler keeps stepping: the wallet
call has a five-second timeout and engines bound their waits. A custody call keeps
stepping: its HTTP client gives up after 15 seconds (10 in the generic client);
nothing is assumed of the provider. The delivery task keeps stepping: a produce
call is bounded by five seconds. `main` keeps stepping, but its HTTP task and its
gRPC server may wait for open connections as long as their clients like, which is
why `ShutdownCompletes` starts from a draining process whose connections are
closed. Nothing forces a call to begin, a node to recover, a delivery to succeed,
a record to be stored, a client to disconnect or a signature to be produced.

### Where the code and its text disagree

Four runs exhibit a disagreement:

* `ClusterTornSign`: a sign overlapping a refresh of its key mixes old and new
  shares; `engine/mod.rs` calls the result a signature "plus the public key it
  verifies against".
* `ClusterLostDelta`: two overlapping refreshes lose a delta on some nodes, and
  the shares stay apart; `cluster.rs` says "the group secret and public key are
  unchanged".
* `SignTxPruned`: `prune` drops a token at its expiry, the verifier accepts it
  until expiry plus skew; the comment in `store.rs` says the freshness check
  rejects such replays. The service as wired never calls `prune`.
* `SignTxDropped`: an attempt dropped at an await leaves no audit record;
  `audit.rs` says every attempt produces one.

`UndisturbedSignVerifies` and `SerialRefreshesAgree` state what does hold, and
what a per-key lock around `sign` and `refresh` would extend to all calls.

The model follows the code in these too, without a run of their own:

* `DEV_MODE=1` and `CUSTODY_SANDBOX=1` are what the comments in `config.rs` name
  (lines 76 and 53), but `env_parse::<bool>` takes `"1"` for the default `false`,
  while `mtls.rs` wants exactly `"1"`. So `DEV_MODE=1` without brokers does not
  start, contrary to those comments, and no value relaxes both requirements.
  A misspelt `CUSTODY_PROVIDER` silently selects the in-house engine.
* `rotate_key` of the custody adapters answers with another public key, where
  `mpc_signing.proto` says "RotateKey refreshes key shares without changing the
  public key/address" and the key-rotation runbook asserts it "**unchanged**".
  Which key an id stands for afterwards is the provider's affair, so no property
  ties a rotation's answer to later ones.
* A comment in `fireblocks.rs` gives ECDSA for Aptos; the code uses EdDSA.

## Proofs

Eight modules hold theorems, all for every value of the constants under the
assumptions named in the modules that declare them: `ClusterParams`,
`DistinctCalls`, `ClockParams`, `ServiceParams`, `EmitterParams`, `HttpParams` (a
request is polled at least once), `CustodyParams` (the providers are the four, the
chains those of the `Chain` enum, the operations those of the trait) and
`FiniteCalls` (a process serves finitely many calls; only the bound on epochs
in `ServiceTypeCorrect` needs it). `Startup` needs none.

**ThresholdClusterProofs**: `TypeCorrect`, `SharesPublished`, `SerialRefresh`,
`UndisturbedSign`, all from `Inductive` (`Spec => []IInv`). The properties alone
are not inductive. `ControlInv` ties a call's result to its place; `PublishedInv`
says that a refresh past its check has a published key; `DealtInv` that a keygen
in its loop has served the nodes before `at`; `Serial(k)` describes the shares
*during* a refresh: for an unraced key with at most one writer, nodes before the
writer's position have its dealing and the others have not, and what it holds is
the current share; `Clean(o)` says that what an undisturbed sign has collected so
far is what the nodes hold now. Frame lemmas (`SerialFrame`, `CleanFrame`,
`OneCallKeeps`) say which variables these depend on, so that each action is
examined only for what it disturbs.

**ClusterCountProofs** adds the properties that count. `QuorumDistinct` and
`LossIsTolerated` rest on `SignInv`: the loop has heard each node behind its
position at most once, and every such node that has been responsive all along
(because a published key has a share on it); a node timing out is not among the
responsive ones. Distinct entries are as many as the sequence is long
(`DistinctEntries`, a bijection). `EpochCounts` adds one element to a finite set.

**SignTxProofs**: `TokensUsedOnce`, `OnlyAuthorised`, `SessionsForward` and the
refinement `HandlerUsesEngine`. `Passed` says what a call has passed from where
it is; `Remembered` that the store holds the token of every call granted in this
life of the process, which is what a second call meets at the gate.
`AcceptedIsApproved` is about the arithmetic: a clock plus skew does not wrap
(`ClockParams`), and an expiry plus skew that wraps becomes smaller, so the
wrapped window never accepts what the true one refuses. For the refinement each
step is a step of `SigningEngine` (dispatch, production, return, abandonment by
a caller or by the process) or leaves its variables alone (`Unseen`).

**SignTxRecordProofs**: `HandlerTypeCorrect`, `RecordsTruthful`, `AnswersSettled`,
from the conjunction `RecordInv` of the three properties and the handler's `IInv`.
Every step of the system is one of two kinds: it ends an attempt (`Ends`: status,
answer and record in one action, agreeing with each other), or it is `Quiet`:
it leaves the emitter alone and no answered call changes. Showing each action to be
one of these is most of the proof; a restart is treated apart.

**ServiceProofs**: `KeyMapAgrees`, `KnownKeys`, `EpochOrder`,
`ServiceTypeCorrect`.
`MapInv` says that a key between the two inserts of its dkg is in exactly the
cluster where it is about to be recorded; `TalkInv` that whatever a caller has
been told is of a recorded key; `EpochInv` that no epoch told is ahead of the
key's, so that a rotation, which adds one, tells a new one. Lemmas by kind of
effect (`GotoInv`, `AnswerInv`, `PublishInv`, `RecordInv`, `BumpInv`) keep each
action's case short. `BuiltType` is the type of what `main` has wired so far. The
bound on epochs in the type invariant is not inductive: `CountInv` says that an
epoch is at most the number of calls that made or rotated this key, and a step
that raises it adds one element to that finite set (`OneMoreCounted`).

**AuditEmitterProofs**: `EmitterTypeCorrect` (the channel's and the retry
counter's bounds) and `NoRecordVanishes`, from what `Append`, `Tail` and
concatenation do to the elements of a sequence; `SendsInOrder` and
`SendsBounded`. The order of the sends is not inductive: `OrderInv` extends it
to the record being delivered and to the channel behind it, so that nothing
overtakes. Nor is the bound on sends: `CopiesInv` adds that the record being
delivered has been sent at most once for the first attempt and for each retry so
far (that a record still in the channel has not been sent is in `OrderInv`).

**CustodyProofs** and **CustodyProviderProofs**: the safety properties of
`CustodyEngines` (`CustodyTypeCorrect`, `SignaturesVerified`, `ChangesSentOnce`,
`CreatedKeysOwned`) and the refinement
`AdaptersImplementEngine`, for all four adapters, any calls and any number of
polls, from `CustodyInductive` (`Spec => []CustodyInv`). None of the properties
is inductive: what a call returns depends on what it asked several exchanges
earlier and on what the provider did meanwhile. `Fits` says for each await
which request is outstanding, what an answer on the wire can be and what the
locals hold, for instance that a poll is of this call's own request, or that the
vault whose asset is being added is this call's own. `Verdict` says what a
returned result entails about the provider's books; `Books` that each call has
at most one request and one key there, and what a request on the books can be.
A call is `Pristine` until the provider acts on its one change, which is why
nothing is sent twice. What these say of the other calls stays true as the books
grow (`Grows`, `StableFits`, `StableVerdict`), so a step is examined for the one
call it concerns: `CallStepKeeps` for the adapters' steps, `AnswerKeeps` and
`ChangeKeeps` for the provider's. For the refinement, a request accepted or
decided makes at most its own call's signature (`OneProduced`), because no
other request is that call's.

Only model-checked: `Shamir`, whose properties are about what `eval_all` and
`reconstruct` compute (modular arithmetic and induction over the degree, beyond the
prover); and all liveness (`CallsEnd`, `AttemptsEnd`, `QueueDrains`,
`ShutdownCompletes`, `CallsReturn`), since fairness and ENABLED are beyond it too.

## Not modelled

* Wrapped-share store and attestation (`enclave/`): nothing in the running
  service constructs or calls them; `restore_share` of the in-house engine only
  checks the quorum proof and that the key is in its map.
* Local and noop engines (`engine/{local,noop}.rs`): `build_engine` never selects
  them.
* JSON codec (`grpc/json_codec.rs`), TLS handshakes, curve arithmetic and
  signature encodings, the signing and encoding of audit records: stateless
  conversions no property is about.
* `/healthz` and the webhook endpoint: stateless; the webhook checks an HMAC and
  changes nothing.
