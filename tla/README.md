# TLA+ verification of the QoreChain Rollup Development Kit

The RDK is a client-side toolkit: it creates, settles, watches and administers
rollups on the QoreChain Main Chain. It holds no server state. What is hard in
it is that everything it decides is decided from *reads of a chain that keeps
moving*: each `await` in a loop, a check or a proof is a point at which the
chain, another process of the same operator or the user may act. The modules
here model those decisions await by await, with the chain as an environment
that can move at each of them.

The TypeScript package (`src/packages/ts/src`), the command line
(`src/packages/rdk-cli/src`) and the scaffolder (`src/cli/src`) are the sources
modelled. The Python, Go, Rust and
JVM packages are ports held to them by the fixtures in
`src/packages/_fixtures`.

## 1. Inventory

| Part | State it keeps | Operations | What makes it correct |
|---|---|---|---|
| Watchtower (`watchtower/index.ts`) | `stopped`, timer, `pollFrom`, `nextStart`, `windowSecs`, `seen`, `warned` | one tick: read window, page through batches, read tip, surface / validate / warn each batch, move `pollFrom`; `stop()`, abort signal, callbacks | a batch that can still be challenged is never polled past; every batch is surfaced; alerts and verdicts come before the window closes; only `stop()` ends the loop, and nothing happens after it |
| Transition roots (`transition/index.ts`, end of `watchtower/index.ts`) | none of its own; a sequencer's draft and a challenger's proof live across reads | compute root, choose binding version, validate, build fraud proof | the verdict is the chain's; a challenge never costs its bond on the batch it was built for; an honest root stands |
| Rollup monitor and health (`monitor/`, `health/`) | `stopped`, timer; a snapshot put together over six reads | `getRollupHealth`, `oldestUnsettledBefore`, `watchRollup` | a snapshot is exact when nothing moves; the blocker named is a blocker; failed reads never end the watch |
| Lifecycle (`lifecycle/`) | none | challenge window (time and block-count), allowed actions per status | agrees with the chain's rule at every boundary |
| Transaction client (`tx/client.ts`, `tx/messages.ts`, `rules/`) | signer, `pqc` key, `includePublicKey`, endpoints | create, submit, challenge, resolve, pause, resume, stop, withdraw; anchor signature; fee; sequence; broadcast | what the chain would refuse is caught before a fee is paid; anchor modes are kept |
| Account keys (`accounts/`) | none | resolve the post-quantum key against the chain | the key used is one the chain accepts |
| Merkle trees and withdrawals (`bridge/`) | loop variables | root, proof, verification | a proof made verifies, for its own leaf and index only |
| Settlement receipts (`receipts/`) | the receipt, passed between parties | build, verify with a node, verify offline | valid only if it reproduces the chain; an untouched one verifies |
| REST reads (`client/`) | none | queries, pages, 404/501 handling | each read is an await that answers or fails |
| Codecs and builders (`tx/codecs.ts`, `tx/registry.ts`, `tx/messages.ts`) | none; a message on its way | build, encode, decode | the decoder reads what the caller asked for, at every edge and past fields it does not know |
| Cross-VM helpers (`crossvm/`) | none; a check that goes stale | readiness check (two reads), calldata, results and reverts | a call that reached nothing is never taken for one that did |
| Configuration (`config/`, `presets/`, `manifest/`) | the builder's config and objects it shares | presets, `set`, `build`, validation, manifest out and in | what was handed out is legal, and changes only where a caller writes to an object it shares; a manifest keeps the configuration |
| Preflight and creation (`preflight/`, `utils/economics.ts`, `rdk-cli` `doctor`, `create`) | a command's locals | checks, cost, prompt, connection, transaction | what was cleared and shown is what happens, or somebody moved |
| Withdraw command (`rdk-cli` `withdraw`) | a command's locals | read batch, choose leaf encoding, build proof, compare roots, send | a proof is refused only for a replaced batch; exit code 0 is a payment |
| Scaffolder (`src/cli`) | the target directory | prompts, copy, package name, `.env`, install | no file of the user's is written over; "Done" is a whole project |
| Command line (`rdk-cli`), other commands | environment | lifecycle, receipts, inspection | checks precede payment |
| Profile suggestion, data availability, faucet, copilot, events, output | none | formatting, single requests | see section 7 |

Interactions. The watchtower and the monitor are both polling loops over the
REST client; the watchtower's `validate` is normally `transitionRootValidator`,
which reads the chain again, and a batch it refuses leads to
`fraudProofForBatch` and `challengeBatch`. The transaction client reads the
rollup, the latest batch, the feature list and the account before it pays; the
command line reads the rollup once more before it connects. Receipts and
withdrawals read batches the sequencer may replace. `doctor` and `create` share
the preset builder and read the same parameters at different times; `create`
goes on to the transaction client. Every transaction passes through the
builders and codecs.

Hard behaviours, each listed under `hazards` in `PROJECT.json` at its line:
reads that are stale when used, `stop()` during a pending read, failed reads
taken for answers, pages read at different moments, reused batch indexes
(chain v3.2.5), two processes on one account, a broadcast that times out and
is executed later, upgrades between two reads, block-count/time windows meeting
in one list, governance between a check and the call it cleared, nested objects
shared by copies and written to by their owners, error handlers that throw
themselves, and a run broken off half-way and repeated.

## 2. Modules

| Module | Models | Uses |
|---|---|---|
| `ChallengeWindow` | `batchChallengeWindow` as operators | |
| `SettlementChain` | the settlement state of a rollup on the chain (environment) | `ChallengeWindow` |
| `PollLoop` | abstract: what a polling watcher promises | |
| `Watchtower` | `watchBatches` beside the chain | `SettlementChain`, instance of `PollLoop` |
| `HealthMonitor` | `watchRollup` and `getRollupHealth` beside the chain | `SettlementChain`, instance of `PollLoop` |
| `TxClient` | `RdkTxClient`, key resolution, connection and lifecycle command, several processes and a mempool | |
| `Transition` | sequencer, validator, challenger across the binding upgrade | |
| `Merkle` | tree, proof and verification, one loop turn per step | |
| `Receipts` | building, altering and verifying receipts | |
| `Codec` | builders, registry and codecs: tables of fields, and the way of a message | |
| `CrossVm` | readiness check, ABI encoding and decoding, beside governance | |
| `Withdrawal` | the withdraw command beside sequencer, challenger and upgrade | `Transition` |
| `RollupConfig` | presets, matrix, validation, builder, manifest | |
| `RollupSetup` | `doctor` and `create` beside a moving chain | `RollupConfig` |
| `Scaffold` | `create-qorechain-rollup` and the user's directory | |
| `WatchtowerProofs`, `MerkleProofs`, `ReceiptsProofs`, `TxClientProofs` | theorems | the module of that name |
| `HealthProofs` | theorems | `HealthMonitor` |
| `TransitionProofs` | theorems | `Withdrawal` (and so `Transition`) |
| `WireProofs` | theorems | `CrossVm`, `Codec`; the induction lemmas of `MerkleProofs` |
| `CommandProofs` | theorems | `RollupSetup` (and so `RollupConfig`), `Scaffold` |
| `MC*` | small instances for TLC | |

Conventions. `pc` names the `await` the code is suspended at; synchronous code
between two awaits is one step, or several steps during which neither the
chain nor `stop()` can act (JavaScript runs it to completion). A failing read
or a throwing callback costs one of `MaxFaults` faults, except in `TxClient`,
where any read may fail at any time. Variables marked *history* in a module
(`bell`, `unjudged`, `escaped`, `writes`, `moved`, `failed`, `raced`, `altered`, `replaced`,
`forfeits`, `computedAt`, `trail`, `steps`, `reach`, `ran`, `settled`, `exported`,
`said`, `cleared`) record the past for a property and
guard no step. Operators marked *Mutant* are plausible mistakes in the
definition below them; no specification uses them, and each property has one
that violates it.

**SettlementChain** is external: the chain's code is not in the repository. Its
rules are the ones the toolkit's code, comments and guides rely on, in three
versions: 0, before v3.2.4, block-count windows and no reported window; 1,
v3.2.4, submission times and the rollup's own window; 2, v3.2.5, in-order
finality, rejection of every later batch that is not final, reuse of the
rejected indexes at the end of the list, at most `MaxPending` pending batches.

**Watchtower.** `Tick`, `GetRollup`, `GetParams`, `ListPage`, `ReadTip`,
`Visit`, `Verdict`/`ValidateThrows`, `CheckDeadline`, `EndTick` are the parts
of `tick()` between awaits; `Catch` is the outer `catch`; `Abandon` is
`if (stopped) return`. `Calls` is any callback: it may call `stop()`. `onError`
may also throw: out of the outer `catch` that ends the tick before its timer is
set again (`Escapes`, and the loop is `escaped`); where the tip is read it goes
to the outer `catch`, so that the batches listed are not visited by this tick
(the last case of `ReadTip`). `PollLoop` has the same end, `Die`. `unjudged` are
the batches surfaced whose verdict is outstanding.

**HealthMonitor.** One action per read of `getRollupHealth`, list pages
included. A failed read of the latest batch reads as "no batches" and a failed
read of the tip as "no tip", as the code has it; any other failure throws and is
reported to `onError`, which may throw in turn (`Escapes`).
The chain does not say which batch `LatestBatch` answers after an upheld
fraud, so both readings are allowed (`LatestIndexes`).

**TxClient.** Processes share the account, the rollup and the mempool. `Begin`
is the synchronous part of a method with its checks; the other steps are its
awaits up to `Broadcast`, and `TimeOut` leaves the transaction in the mempool.
`Bounce` (sequence or signature) costs nothing; `Execute` pays and may refuse
(`Refusals`). `ChainMoves` are the acts of others. The rollup status "pending"
never occurs: the chain creates rollups active.

**Transition.** The sequencer computes a root under the binding it reads and
submits it later; a challenger reads a batch, validates, builds a proof and
challenges; anybody else submits, rejects or finalizes. `UpgradeHeight` stands
for chain v3.2.5: a rejection takes the later batches along from there on. The hash is free, that
is, two roots are equal only if they cover the same fields.

**Merkle.** Proof and verification are loops, one turn a step; a tree of any
shape and any claim about it (right or wrong leaf, right or wrong index) is an
initial state. The hash is free.

**Receipts.** A receipt is built from reads, changed in one field or not, and
verified against a chain that resubmits and anchors meanwhile; each check of
`verifySettlementReceipt` is in order. Every field it compares is modelled: the
algorithm, chain, layer, keys, validator-set hash and compressed proof are those
of these anchors or others, and `anchoredAt` is the height of the anchor's
block. Signatures bind the message they were made
over, in both forms of the anchor message.

**Codec.** A codec is two tables, taken line by line from `encode` and `decode`,
so that a field number, a name or a kind that differs between them is a
difference the run can see. `Ask` fills an input in, field by field; `Send`
builds and encodes; `DecodeField` is one turn of decode's loop. Integers wrap at
`Modulus`, twice `MaxInt + 1` (`MaxInt` is 2^63 - 1 in the code); `Ints`, `Uints`
and `Texts` are the values sent; the bytes of one field are the library's.

**CrossVm.** `ReadPrecompile` and `ReadCrossVmParams` are the two reads of
`crossVmTargetReady`; `MakeCall` encodes; `Execute` is the precompile (external),
which decodes the calldata with its own reading of the ABI, refuses a lane, a
closed bridge, a contract that is not allowlisted and a message above
`MaxMessageSize`, and otherwise runs the contract, which replies or fails with a
reason of its own; the gas of a call is taken to suffice. `MakeCall` throws for a
lane it does not know (`unsupported`); `ReadReturn` is
`decodeCrossVmResult` or `decodeRevertReason`. A word has `Word` bytes of `Base`
values, so lengths around a word's boundary occur; `SizeAssumption` is that the
arguments of a call are shorter than the number a word holds (2^256 in the code,
far above any array's length). Before v3.2.5 the reply would
come back raw, and could look like an ABI encoding; the readiness check never
passes there, and `ReplyMeansCalled` is about calls it let through.

**Withdrawal.** One action per await of `cmdWithdraw`: `GetBatch`, `BuildProof`
(the binding read), `Connect`, `Execute`. A withdrawals root is free in the list
and the leaf encoding; that proofs verify for their own leaf is `Merkle`. The
command looks neither at the batch's status nor, given `leaves`, at whether the
leaf says what the message says, and the model does not either.

**RollupConfig.** `sequencerParams` is an address in `store`, because the spread
operator copies one level. `PresetParams` is a preset given such parameters,
which it copies. `WriteThrough` is a caller who assigns to a nested object it
shares (`Shared`): the one in the copy `get()` returns, in the object a builder
was constructed from, or in a built configuration, which `build()` freezes one
level deep. Validation and presets are operators; `Overrides` has values of
every class the checks tell apart.

**RollupSetup.** `Doctor...` and `Create...` are the commands between their
reads; `Moves` is governance, the bank and other creators. The chain's own rules
(`CreateRefused`, `ChainBurn`) are external: the burn is stated by what it is,
the largest amount within the rate's share, and not by the client's formula.

**Scaffold.** A step per file copied, so that a run can be broken off between
any two, and run again with another template. The user works in the directory
before, between and after the runs, at the prompts and during the installation,
but not while files are being copied: the check for an empty directory and the
writes are synchronous code of some milliseconds, and nothing in them locks the
directory.

## 3. Runs

Every run disables TLC's deadlock check: the bounded chain stops at its bounds,
and a loop ends for good after `stop()`.

| Run | Instance | Shows |
|---|---|---|
| `watchtower_upgrade` | versions 0 to 2, two indexes of two submissions each, one-batch pages | no fresh batch that can still be challenged drops out of the poll |
| `watchtower_loop` | version 1, two batches, blocks of 2 or 6 s against a 5 s window, validation, one fault, fairness | open batches stay in the poll although reads, validation or callbacks fail; refinement of `PollLoop`; every batch surfaced, unless `onError` throws or `stop()` comes; every deadline alerted; `stop()` ends the loop |
| `watchtower_resubmit` | version 2, two submissions per index | **violated**: a rejected tail polled before it is resubmitted is never read again |
| `watchtower_verdict` | one batch, one fault, fairness | **violated**: after one failed validation the loop polls for ever while the batch can be challenged, and never judges it |
| `watchtower_throw` | one batch, one fault | **violated**: an `onError` that throws ends the loop, which was not stopped |
| `health_order` | version 2, four indexes of two submissions, `MaxPending` 2, one-batch pages | the blocker reported is never of a final batch; an undisturbed snapshot names the oldest blocker, beyond the search limit too |
| `health_loop` | versions 0 to 1, two batches, all rollup statuses, one fault, fairness | types; no blocker before v3.2.5; refinement of `PollLoop`; a stopped rollup is reported although reads fail, unless `onError` throws or `stop()` comes |
| `tx_lifecycle` | two processes, one call each, mnemonic or seed | refusals of status, batch, sequence and key are all due to an answer outrun |
| `tx_submit` | one process, two calls, every anchor mode, setup and rollup | anchor modes kept; no avoidable paid refusal; no stale sequence after a timeout |
| `wire` | trees of up to seven leaves over two values, the chain's options; every message with 4-bit integers and up to two siblings; two contracts, six payloads, words of two bytes, messages of at most four, two governance changes; an upgrade at height 2 of 3, one index with replacement, two lists of withdrawals under both encodings, one fault | proofs verify, bind leaf and index, and the root is that of the top-down tree; messages decode as asked; replies are the called contract's, and ready calls reach it; validator, bond and honest root agree with the chain; a withdrawal proof is refused only for a replaced batch; exit code 0 pays the listed withdrawal |
| `merkle_promote` | the instance of `wire`, `duplicateOdd: false` | **violated**: proofs of leaves that are moved up do not verify |
| `commands` | receipts: two indexes, two anchors, the message form changing at height 2, one fault; builder: two edits or writes after a preset; setup: balances to 4, stakes 2 and 3, rates 0.5 and 0.75, two commands, two moves; scaffolder: three runs, two templates on disk, two user steps | a valid receipt reproduces the chain and an untouched one verifies; built configurations stay legal, change only by a caller's write, and manifests keep them; doctor and create hold what they say; the user's files are kept and "Done" is complete |

`wire` and `commands` check several components that share no state: a behaviour
is about one of them, chosen initially, and the others stay where they began.

Why the bounds suffice. The watchtower keeps one cursor over the list; two
batches are the least that have an open batch before and after it, and one-batch
pages put an await between any two. In `watchtower_upgrade` the 5 s window is
shorter than a block (zero blocks in block-count mode), so windows of either
kind open and close within two heights. `WarnWithin` lies between the
remaining time after a 2 s block and that at submission, so that an alert comes
on a later poll than the surfacing. Four indexes against `MaxPending = 2` let
the health search start past index 0. Seven leaves have odd levels at the
bottom, in the middle and at both. In `wire` and `commands` a batch or
anchor falls before, at and after the height where the rule changes. In
`wire` a state constraint drops empty previous roots and unhashed roots for the
withdrawer, and half of the withdrawals roots for the challenger: neither looks
at them. Messages are filled in from the default, one value and the edges of
the width. Payload lengths 0 to 6 lie below, at and above one, two and three
words, and the longest is above the size limit. Two edits are what it takes to
share an object and to write to it; two
commands are `doctor` and `create`, with a move before, between or within them.
Three runs of the scaffolder are two broken off and one that ends. Symmetry
is used for roots, payees and processes, which no definition tells apart, and only in
runs without liveness.

Fairness. `FairSpec` asks weak fairness of the tick as a whole: a pending read
settles (the HTTP client answers or rejects) and a set timer fires. Nothing is
asked of the chain, of `stop()` or of failures, which are finitely many in a
run because of `MaxFaults`; a watcher whose every read fails for ever surfaces
nothing, and no property says otherwise.

## 4. Properties worth a comment

- `OpenBatchesStayPolled` is stated for a watchtower that knows the rollup's
  own window. One started against a node older than v3.2.4 keeps the module
  default for life; `watchtower/index.ts` documents the default as wrong there.
- `HeldBackNotFinal` looks at the moment the blocker is found, with the chain
  at v3.2.5 throughout: finality in order is what makes it true.
- `PaidRefusalsExcused` and `KeyRefusalsExcused` say what is left when nothing
  can be atomic: each refusal of the chain contradicts an answer the client
  got, or concerns something it had no way to read.
- `ProofRefusedOnlyIfReplaced` is about files that list the withdrawals. With
  `leaves` the message may name anything, and only `ExitZeroPaysTheListed`
  speaks of those: what is paid is what the batch committed.
- `DoctorClearsCreate` takes the fee to be within doctor's buffer
  (`SetupAssumption`), and a creation with the minimum stake: an explicit
  `--stake-uqor` is checked by nobody before the chain.
- `BuiltStaysLegal` compares the shape with `LegalShapes`, written down from
  the chain's rules and not from the matrix the code looks up. It holds whatever
  callers write to shared objects, and says in addition that nothing but such a
  write changes what was handed out. The builder's own claim, a "frozen copy",
  has no such exception; see section 5.
- `ReadyCallsReach` is about calls the check cleared and governance left alone:
  the contract runs with the message asked for, and its reply, or its failure,
  is what the caller reads. A message above the chain's size limit is outside
  it: `crossVmTargetReady` is not given the message.
- `BatchesSurfaced` and `StopReported` except a loop whose `onError` threw;
  `LoopContinues`, which does not, is what the comment promises of errors.
- `SurfacedBatchesJudged`: a batch surfaced is judged in the end, or can no
  longer be challenged, or the loop was stopped or died. A watchtower that
  tried again on its next poll would satisfy it.
- `UserFilesKept` and `DoneMeansComplete` rest on the user leaving the
  directory alone while files are copied.
- `PollsAsPromised` is the refinement `PollLoop!LoopSpec` under the mapping
  `PollMode`: one tick at a time, no callback and no timer after `stop()`.

## 5. Divergences

Shown by a run (see `findings`): the resubmitted tail, the batch never judged,
the loop that ends when `onError` throws, and proofs in trees that move odd
nodes up.

Met while modelling, and modelled as the code has it, without a run:
- `health/index.ts:116` takes any failure of the latest-batch query for a
  rollup without batches, so an active rollup whose latest batch was rejected
  is reported healthy by that snapshot (line 52 says "latest batch not
  rejected").
- `tx/client.ts:466`: `getChainId` is awaited outside the `try` of
  `tryAnchorSignature`, which "Never throws" (line 435); with `anchor: "auto"`
  the submission is lost rather than sent unanchored.
- `accounts/index.ts:129`: a failed key query reads as an account without a
  key, and the canonical key is used for an account that registered the legacy
  one.
- `receipts/index.ts:334`: the anchor is found by state root alone, so of two
  batches with one state root a receipt may cite the other's anchor.
- `preflight/index.ts:100`: doctor reports "Signer configured" for a private key
  without a post-quantum seed, with which `connectTx` (`context.ts:88`) refuses
  every transaction; "All checks passed." and the failure of `create` follow
  each other.
- `commands.ts:58`: an unknown `--profile` is taken for `defi` without a word,
  and a rollup of that profile is created.
- `commands.ts:109`: an explicit stake below the minimum is not compared with
  the parameters just read; the chain refuses it after the fee.
- `config/validate.ts`: the profile is not validated, although it is what the
  chain derives the configuration from (`config/types.ts:30`).
- `scaffold.ts:34`: the `network` option ("Network preset") is read by nobody;
  the project is the same for both networks.
- `monitor/index.ts:52`: the monitor's `onError` ends the watch in the same way as
  the watchtower's when it throws, although "the loop continues" (line 17).
- `config/builder.ts:46`: `build()` promises "a frozen copy of the configuration"
  (line 43), but spreads and freezes one level. The configuration it returns
  shares `sequencerParams`, unfrozen, with the builder and with every copy
  `get()` returned, and a write through any of them changes what was handed out
  (`WriteThrough`).
- `crossvm/index.ts:233`: `max_message_size` is read and compared with nothing;
  a call reported ready may be refused for its size.
- `transition/index.ts:150`: no fraud proof can be built for a batch without a
  previous root, though the validator may reject it.

## 6. Proofs

For every value of the constants allowed by the named assumptions; the
environment's rules are those of the specification.

**WatchtowerProofs**, from `ChainAssumption` and `TowerAssumption`.
`OpenBatchesStayPolled` is not inductive: when `EndTick` moves `pollFrom`, what
was read must say something about the chain as it is now. `PollInv` adds
- `CursorInv`: `pollFrom <= nextStart <= count`, the page cursor and the loop
  index are between them, and the window is known once batches are listed;
- `SnapshotInv`: what is stored under an index *follows* what was listed (same
  submission and no less settled, or a later submission), and the tip read is
  no newer than the chain's;
- `OldestOpenInv`: `oldestOpen` is at most every index passed whose batch was
  live and open.

A batch open now was open at the older tip (`OpenAntitone`: windows only
close), live when it was listed (`Follows`), hence not below `oldestOpen`; a
batch not listed is at or past `nextStart`. `ChainStepFollows` shows that every
chain step, upgrades and resubmissions included, keeps `Follows`. Results:
`TypeCorrect`, `PollInvariant`, `OpenBatchesPolled`, `NeverSleepsStopped`, and
`WatchtowerPolls`, that the watchtower implements `PollLoop`.

`NearDeadlineWarned` speaks of every batch visited so far, also of those a tick
no longer lists. `WarnInv` adds that behind `pollFrom` no window is open at the
tip of the tick: when the tip is read this is `OpenBatchesStayPolled`, and the
chain opens no window afterwards. Of the batches listed, those passed and near
their end are in `warned` unless `stop()` came, and then the tick does not sleep
again. Result: `DeadlinesAnnounced`.

**HealthProofs**, from `ChainAssumption` and `HealthAssumption`. A tick of the
monitor is up to seven reads. `MonitorInv` says what each has left undefined;
`Exact` says, read by read, what the tick holds as long as nothing moved and
nothing failed. The one difficult step is the search for the blocker, which
looks no further back than `MAX_PENDING_OPTIMISTIC_BATCHES`: it is far enough
because the list of a chain at v3.2.5 is final batches, then unsettled ones,
then rejected ones (`Ordered`), and no more than `MaxPending` are unsettled
(`ChainInOrder`, kept by every chain step: `ChainOrdered`); so the unsettled
batches before the latest lie side by side within the limit
(`SearchedFarEnough`). Results: `MonitorInvariant`, `MonitorTyped`,
`MonitorPolls`, and, under `NoUpgradeToOrder`, `ListInOrder`, `HeldBackOpen`,
`SnapshotsExact`.

The hypothesis `NoUpgradeToOrder` (the chain is at v3.2.5 throughout, or below
it throughout) is needed. A chain that is upgraded with more than `MaxPending`
unsettled batches starts out of order, and a snapshot may then name a blocker
that is not the oldest: with `FirstVersion = 1`, `LastVersion = 2`,
`MaxPending = 1` and three batches TLC finds `heldBackBy = 1` while batch 0 is
unsettled too. The code's comment makes the limit the chain's, which it is from
the upgrade on. The runs are at v3.2.5 throughout or below it.

**TxClientProofs**, from `TxAssumption`, for any number of processes and calls.
The checks of a call are awaits of their own and the transaction executes much
later. `ClientInv` is said of the point a call has come to (`CallOK`): from its
first check on the input keeps the rules, from `fee` on everything is checked
(`Cleared`), from `broadcast` on the sequence is the chain's unless the call was
overtaken; and of a transaction (`Sent`): it keeps what its call had cleared,
and belongs to a call that waits or has ended. Of these only `rollup` and
`sequence` are the chain's, and the other variables of the chain may move
freely. One lemma per action. Results: `ClientInvariant`, `ClientTyped`,
`SequencesFresh`, `AnchorsKept`, `KeysExcused`, `RefusalsExcused`.

**TransitionProofs**, from `RootAssumption`, `TransitionAssumption` and the
assumption of `Withdrawal`. `BindInv`: a batch is `bound` exactly from the
upgrade height on, a draft's form is the one in force when it was read, the
challenger's view is a pending, well-bound batch, and a proof about to be sent
would be upheld for that view. `VersionIsTheChains` shows that the version
chosen for a batch is the chain's whether or not the node serves
`withdrawals_bound`. Results: `VerdictsAreTheChains`, `BondsKept`,
`HonestStand`. For the withdraw command `WInv` adds that the batch it read is
well bound, so that the leaves it hashes are in the form the chain hashes, that
a proof to be sent is of the root it read, and that an answer about a proof is
that of a final batch, which nobody replaces any more. Results:
`WithdrawInvariant`, `ProofsRefusedOnlyIfReplaced`, `ExitZeroPays`.

**MerkleProofs**, from `MerkleAssumption` and `DuplicateOdd` (the chain's
option; `merkle_promote` shows that it is needed). `MerkleInv` keeps the nodes
of the path (`trail`) and their positions (`steps`) as history: each is the
join of the one below with its sibling (`PathInv`), and an honest verification
stands at the same node and position (`ClimbInv`). Result: `HonestProofs`, for
trees of every size. For `ProofBindsLeaf` the path of the claimed leaf is
followed too (`reach`). A verification that ends at the root was at a node of
the proof's path at every level, since parents over one sibling are equal only
if their nodes are (`SameSibling`); read from the root down, the tree's own node
on the claimed path is then that node at every level, down to the leaves.
`ReachInv` says this level by level from below, as an implication. Result:
`ProofsBind`.

`RootIsReference` compares the root with `RefTree`, the tree as a whole, defined
level by level over the positions of the leaves, while the code halves one
array. `TreeInv` says that the level the proof has reached is that level of the
reference, with its width (`Widths`), under either rule for odd nodes. That
`Widths` and `RefTree` satisfy the recursion they are defined by is proved first
(`WidthsEquation`, `RefTreeEquation`): functions with that recursion up to a
depth exist, by induction, and so the one chosen has it. Induction is over sets
of numbers (`Induction`), by a least counterexample (`Least`, from the
well-foundedness of `<`). Result: `RootsAreReference`.

**WireProofs**, from `CrossVmAssumption` and `SizeAssumption`: cross-VM calls,
for words of any size over bytes of any size. `WordRead`: what `u256be` writes is
what `readWord` reads, for every number that fits. `PartsInPlace`: of parts put
one after the other each is found where those before it end. Together they give
`TupleRead`, that `Slice` at an offset word of `encodeDynamicTuple` yields the
item, for any number of items of any length; hence the chain reads the contract
and the message that were asked for (`TargetRead`), and the client the reply
(`ResultRead`) or the reason of a revert (`ReasonRead`), as `AnswerRead` has it
for both. `CrossVmInv` adds what the check found as long as governance
leaves it alone (`CheckInv`), and that what came back is nothing, a refusal
before any contract ran, or the reply or the failure of the contract called
(`ReturnInv`). Results: `RepliesMeanCalled`, `ReadyCallsReachTheContract`.

Messages, from `CodecAssumption`, for integers of any width and strings of any
kind. `TablesAgree`: the two tables of each of the nine codecs have the same
names and kinds under the same field numbers, no name twice, and none of the
numbers of other releases. `WrittenRead`: a value of its kind survives the
varint. `DecodedAsAsked` is about the end of decode's loop; `CodecInv` says what
has been decoded in the middle of it: some number p of the sender's fields are
read, what is left on the wire is the rest, the peer's field before it or not,
and of every name the message has what the first p fields say (`Partial`; of a
repeated field that is a prefix). The field read next belongs to exactly one entry
(`NextField`), reading it moves that entry on and no other (`TakenNext`), and an
unknown one moves none (`ReadNext`). Result: `CodecsRoundTrip`.

**ReceiptsProofs**, from the assumptions of `Receipts`. `ReceiptInv` says what
a verification has established at each of its awaits, about an anchor that
stays in the list since anchors are only added, and of an untouched receipt
that no newer anchor of its height has its root unless the batch was
resubmitted; so the anchor matched agrees with the receipt. Results:
`ReceiptInvariant`, `ValidMeansOnChain`, `BuiltVerify`.

**CommandProofs**, from the assumptions of `RollupConfig`, `RollupSetup` and
`Scaffold`. The
builder: configurations share `sequencerParams` objects. No method writes to one
that is in the store; the store grows, and changes only where a caller writes,
which `writes` records for every configuration that holds the object. What makes
a configuration legal is not in that object (`BuilderInv`). Results:
`BuilderInvariant`, `BuiltLegal`, `ManifestsKept`. The commands: what is shown is the estimate for the parameters
read, and what doctor cleared had the minimum and the fee buffer (`SetupInv`);
the client's truncating division is the largest amount within the rate, which
is how the chain's burn is stated. Results: `SetupInvariant`, `DoctorTold`,
`BurnConfirmed`.

The scaffolder: `UserFilesKept` is not inductive:
the target is checked in one step and written to in later ones. `KeepInv` adds
that a run that writes has its directory and meets none of the user's files in
it (during the installation: none at `node_modules`), and that a directory that
is not there is empty. `StepWrites` lists what each step writes; `KeepStep` is
the induction. `WorkInv` adds that while a run works, what is there is its own
work: every file of its template is there or still to be copied, and
`package.json` and `.env` are done once their steps are past. Results:
`KeepInvariant`, `FilesKept`, `WorkInvariant`, `DoneComplete`, for every
registry of templates and any number of interrupted runs.

Each inductive invariant was checked with TLC on the instances of section 3
before it was proved.

Only model-checked: liveness under fairness (`BatchesSurfaced`, `StopEnds`,
`StopReported`), which is out of the prover's reach, and what the four runs that
end in a violation show. Every invariant of a passing run is proved.

## 7. Not modelled, and the plan

Left out: the bytes of a single field on the wire and of hashed messages
(libraries and fixtures cover them), key derivation and signatures as such,
wording and output of the command line, the splitting of an argument list into
flags, the commands that print what modelled operations return (`status`,
`params`, `watch`, `watchtower`, `receipt`, `advise`, `suggest`, `manifest`) or
make one request (`faucet`, `keygen`), profile suggestion, the copilot, faucet
and data-availability helpers (single requests without state), the mock client,
templates and examples, and the ports.

The order followed, and what remains:
1. done: `SettlementChain`, `PollLoop`, `Watchtower` and its proofs;
   `Transition` and its proofs; `Merkle` and its proofs; `HealthMonitor`;
   `TxClient`; `Receipts`.
2. done: `Withdrawal` on top of `Transition`; `Codec`; `CrossVm`;
   `RollupConfig` and `RollupSetup`; `Scaffold` and its proofs.
3. done: proofs about every component, of every invariant the passing runs
   check and of both refinements (section 6).
4. what remains is out of this prover's reach (liveness), or needs more of the
   system first: the parts left out above.

## 8. Running

    tlc -config MCWatchtowerUpgrade.cfg MCWatchtower
    tlapm WatchtowerProofs.tla

`PROJECT.json` lists the runs with their modules and configurations, the map
from definitions to source lines, and the theorems.
