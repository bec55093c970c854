# ShadowWire in TLA+

ShadowWire is a private payment corridor on Stellar: a sender shields USDC into a
pool contract as a *note*, pays somebody by spending the note inside the pool, and
the recipient withdraws the note's value. A zero-knowledge proof accompanies every
step, and the two edges (in and out of the pool) are gated by KYC attestations that
a public contract stores. Fiat enters and leaves through SEP-24 anchors.

This directory holds TLA+ modules translated from that source, TLC configurations
that check them, and theorems that TLAPS checks. Paths below are relative to `src/`.

## 1. The system

### 1.1 Components, their state and their operations

| component | state it keeps | operations | modelled in |
|---|---|---|---|
| ShieldedPool contract (`contracts/shielded_pool`) | root, commitments with their count, two nullifier sets, events, its token balance | constructor, `deposit`, `transfer`, `withdraw`, `upgrade` | `ShieldedPool`, `PoolCalls`, `Corridor` (not `upgrade`) |
| ComplianceRegistry contract (`contracts/compliance_registry`) | one root | constructor, `update_root`, `get_root` | `ShieldedPool` (`registryRoot`, `UpdateRegistryRoot`) |
| AttestProtocol contract (external) | attestations by UID; an attester nonce and a revoker nonce for each authority | set up, attest, revoke, read | `PoolCalls`, `KycAuthority`, `Deployment` |
| Groth16 verifier contracts | a key | `set_vk`, `verify` | `Deployment` (which verifier has which key; `set_vk` by a script and by anybody else); elsewhere a field `valid` of each proof |
| Proving server (`mock-issuer/src/index.ts`, `pool-state.ts`, `operator.ts`) | none between requests; it reads leaves and root off the chain and signs new roots | `/api/prove/deposit`, `/compliance`, `/transfer`, `/withdraw` | `ProvingServer`, `Corridor` |
| Issuer as KYC authority (`mock-issuer/src/kyc-attest.ts`) | one JSON file, wallet → attestation record | enrol, revoke, status | `KycAuthority` |
| Sender page (`frontend/src/app/sender/page.tsx`) | running handlers; localStorage | shield, send, SEP-24 deposit | `Corridor`, `Sep24` |
| Recipient page (`frontend/src/app/recipient/page.tsx`) | running handlers; localStorage | claim a receipt, withdraw, SEP-24 withdrawal | `Corridor`, `Sep24` |
| Note wallet (`frontend/src/lib/noteWallet.ts`) | notes and their `spent` flags, per wallet | save, mark spent, make a receipt | `Corridor` (`saved`, `markedSpent`, `receipts`) |
| Browser KYC client (`frontend/src/lib/kyc.ts`, `components/KycBadge.tsx`) | the badge, running requests and reads | enrol, revoke, refresh, `ensureKycAttestation` | `KycPanel` (not the stored profile) |
| Spend and compliance circuits (`circuits/shielded_transfer`, `circuits/compliance`) | none | constraints | guards of the proving steps of `Corridor` |
| Utility circuits (hashes, tree builders) | none | pure functions | `MerkleTree`, `ComplianceTree`; ideal hashes in `Corridor` |
| KYC registry of the issuer (`kyc-registry.ts`, `registry-state.ts`, `corridors.ts`) | the mode, resolved once at start-up | build the tree, look up a leaf, choose the mode | `ComplianceTree`, `Deployment` |
| SEP-24 client (`frontend/src/lib/sep24.ts`) | a running handler | on-ramp, off-ramp, polling, payment, recovery | `Sep24` |
| Anchor proxies (`frontend/src/app/api/anchor*`) | none | forward a request | no |
| Sealed receipts (`frontend/src/lib/noteCrypto.ts`) | a key pair | seal, open | a receipt arrives whole or not at all |
| Wallet connection and user interface (`context/FreighterContext.tsx`) | the page's wallet | connect, disconnect, notice a change | `KycPanel` (the wallet); presentation is not |
| Deployment scripts (`scripts/*.mjs`) | the file of addresses, twice | deploy pools, verifiers and AttestProtocol, set keys and roots | `Deployment` (not the demos and self-tests) |

### 1.2 How they interact

* A page asks the proving server for a commitment, a new root signed by the
  operator and a proof. The server reads the leaves (and, for a withdrawal, the root)
  of the pool to make them. The page then builds a call, **simulates** it, has the wallet
  sign it, submits it and **polls** for the result. After that it writes localStorage.
* The pool reads the attestation named in the call from AttestProtocol, the root from
  the registry, and asks the verifiers about the proofs; it moves tokens, records
  nullifiers, inserts leaves and overwrites its root with the one in the call.
* The issuer's KYC routes read the nonce of the authority, send a delegated
  transaction, wait for it, and rewrite the JSON file.
* The KYC panel of a page asks the issuer to enrol or revoke the page's wallet, reads statuses, and lets
  calls of the pool through; the wallet under it changes whenever Freighter says so.
* The scripts read the issuer's configuration and the file of addresses, send transactions for
  minutes, and write the file back; the issuer and the pages read it.
* The SEP-24 client asks the anchor for the status of a transaction, pays it on the
  ledger when asked to, and goes on polling.

### 1.3 What is hard

* **A root supplied by the caller.** The contract cannot hash a tree, so it stores the
  root that came with the call. Between proof and landing, other calls land.
* **Two non-atomic writes.** The chain takes a transaction in one step and the browser
  records its note in another; a poll can give up in between.
* **Several handlers at once.** Pages do not lock: two tabs, or two clicks, work on one
  wallet's notes. The issuer's requests interleave at every `await`.
* **Read-modify-write of a whole file** across network calls (`revokeKyc`), and nonces
  read by two requests at a time.
* **External state that moves on its own**: revocations, expiries, registry updates, an
  anchor that is slow, forgets, fails or refunds.
* **Answers about the wallet before**: a status that arrives after the page's wallet has changed.
* **Deployments that stop half-way**, or run twice at a time over one file.
* **Lost answers**: a payment reported as failed may have been applied, or may be later.

### 1.4 What makes each component correct

* *Pool*: a nullifier **argument** is used once, a spend's by a transfer or by a withdrawal, a compliance proof's at
  either edge; storage and events agree on nullifiers and leaves; money crosses an edge only
  for a wallet with a live attestation of the right claim. That the arguments are those of the proofs is up
  to the caller (`CallsAreBound`, section 3): a *note* is spent once, and the escrow equals the unspent notes, when the pages are honest.
* *Corridor*: the pool implements a plain ledger of coins; a spend lands only while root
  and leaves agree; browsers never hold or give up notes in disagreement with the
  chain; a note of value gets lost only in ways that are known; a revoked wallet moves no money.
* *Proving server*: the paths it builds lead to the root; a spend that the pool would accept gets a
  root that extends the stored one, however reads lag or fail; every request ends.
* *KYC authority*: the file tells the truth about the chain, and overlooks a revocation only in ways that are known; nobody
  is forgotten; a revoked wallet is shut out. (The last two do not hold: section 3.)
* *KYC panel*: a call it lets through is of a wallet with a KYC of its own; what it tells its user is so.
* *Deployment*: nobody is sent to a contract that is half set up; pool and verifier of a file fit;
  no script changes the key of a pool's verifier (anybody else may: `set_vk` asks for nothing); an issuer in registry mode
  makes proofs that the pool takes.
* *SEP-24*: no withdrawal is paid twice; what the page reports is backed by the ledger;
  "timed out before any payment" is true; every handler ends.

`PROJECT.json` lists each hazard at its line, with the properties aimed at it.

## 2. The modules

```
  ShieldedPool ── EXTENDS ──┬── PoolCalls ──┬── MCPoolCalls
  (contract's operations)   │               └── PoolCallsProofs
                            └── Corridor ───┬── MCCorridor
                                  │         └── CorridorProofs
                                  │               │ PC == INSTANCE PoolCallsProofs WITH ...
                                  │ NP == INSTANCE NotePool WITH ...
                                NotePool  (abstract ledger of coins)
  MerkleTree ──┬── MerkleTreeProofs ──────────┬──────────────┐
               ├── ProvingServer ──┬── ProvingServerProofs   │
               │                   └── MCProvingServer       │
               └── ComplianceTree ── Deployment ──┬── DeploymentProofs
                                                  └── MCDeployment
  KycAuthority ──┬── MCKycAuthority
                 └── KycPanel ──┬── KycProofs
                                └── MCKycPanel
  Sep24 ──┬── MCSep24
          └── Sep24Proofs
  Recursion  (lemmas: EXTENDed by PoolCallsProofs, CorridorProofs, MerkleTreeProofs)
```

**ShieldedPool** has the contract's storage as variables and one operator for each
entry point, `Deposit(c)`, `Transfer(c)`, `Withdraw(c)`. Its guard is `…Accepted(c)`: all of
the checks the code makes, a failed one being a call that is rolled back. The rest are
the assignments, in the helpers of the code's own structure: `Pay`, `MarkSpendNullifier`,
`MarkComplianceNullifier`, `InsertAll`, `Publish`. `UpdateRegistryRoot` and `SignRoot` are
the moves of its surroundings. No assumption is made about the caller: a call's arguments and the signals of its proofs are
fields of their own, of which the guards compare those that the code compares. Two modules compose it:

* **PoolCalls** puts the contract in the most hostile surroundings: any call of a given
  set, its arguments those of its proofs or others, arrives at any time, attestations are issued (some before there was a pool), revoked and
  expire, the registry changes, the operator signs any root. `AnyCalls` allows any number of
  calls, `Spec` no more than `MaxEvents`, for TLC.
* **Corridor** puts it under honest clients: the pages' handlers as jobs
  (`idle → loaded → proved → submitted → landed → idle`), the proving server's handlers,
  a network that applies, fails or loses transactions, and an authority that revokes attestations (`RevokeKyc`).

| code | Corridor |
|---|---|
| `saveNote`, `markNoteSpent`, a page's `activeNote` | `saveNote`, `markNoteSpent`, `ActiveNote` |
| `handleShield` | `ProveDeposit`, `Submit`, `FinishDeposit` |
| `handleSendPrivate` | `ProveTransfer`, `Submit`, `FinishTransfer` |
| `handlePoolWithdraw` | `LoadLeaves`, `ProveWithdraw` or `ReloadLeaves`, `Submit`, `FinishWithdraw` |
| `handleClaimNote` | `Claim` |
| `/api/prove/deposit`, `/compliance`, `/transfer` | inside `ProveDeposit`, `ProveTransfer` |
| `/api/prove/withdraw` | `LoadLeaves` (leaves read), `ProveWithdraw` (root read and equal), `ReloadLeaves` (unequal) |
| `invokeContract`, `submitTransaction` | `Submit` (the simulation must succeed) |
| sixty polls, failures, closed tabs | `GiveUp`, `Abandon` |
| Stellar network | `Land`, `Fail`, `Lose` |

**NotePool** is the abstract specification of the corridor: `Mint`, `Split`, `Redeem` over a
set of coins and an escrow. The refinement mapping in `Corridor` is
`coins <- Unspent`, `spent <- spendNullifiers`, `escrow <- tokens[Pool]`; the run `corridor`
checks `NP!Ledger` as a property.

**MerkleTree** is the note tree as pure functions: `Levels` and `MerklePath` as `tree_builder`
computes them from padded leaves, `compute_merkle_root` as the spend circuit walks a path.
**ProvingServer** has one request for a proof on top of it, with a step for each read of the chain,
while other wallets' calls land (`Insert`, `InsertTwo`, `Overwrite`). A read may see an older
chain, or fail: a count below the real one, a leaf `Zero`, the root before the last change. The roots of those calls
come from the same server and from reads as bad (`Readings`).
The server keeps nothing between requests, so one request is enough. `Corridor` has the same routes
in one or two steps, without failing reads; in exchange it has the clients and what lands.

| code | ProvingServer |
|---|---|
| `loadAllCommitments` | `ReadCount`, `ReadCommitment` for each leaf, `Loaded` |
| `/api/prove/deposit` | `SignDeposit` |
| `/api/prove/transfer` | `SeeNoNote` (poll on), `SeeNote`, `ProveTransfer` |
| `/api/prove/withdraw`, phase 1 | `SeeNoNote`, `SeeNote`, `CheckRoot`, `ConfirmRoot` twice, `NextRound` |
| `/api/prove/withdraw`, phase 2 | `PostProofCheck`, and again `SeeNote` or `SeeNoNote` |
| `computeNewRoot`, `signRoot` | `Answer` |
| a read or a tool that throws | `Throw` |

**KycAuthority** has the issuer's requests as processes that yield at each `await`.
`enrollKyc` is `StartEnroll`, `SendAttestation`, then `RecordEnrolment`; `revokeKyc` is
`StartRevoke`, `SendRevocation`, `RecordRevocation`. A revocation keeps the copy of the
file that it read at its start, as the code does. `Die` is an exception, a poll that runs out or a restart. `LandAttestation`,
`LandRevocation` and `Drop` are the network, `Tick` the clock. `getKycStatus` changes nothing of it; it is in `KycPanel`.

**KycPanel** puts one page in front of that issuer, which serves other pages too. The page's wallet
changes at any moment (`Connect`, `Disconnect`), every handler goes on with the wallet it started
with, and a status is read in two steps, the issuer's file and then the chain. Whether the chain's `revoked`
reaches the issuer is open (`Stands`): the code itself does not count on the SDK for it. A step of the panel is a step of `KycAuthority`
or leaves it alone, which `KycProofs` proves as a refinement. `Verdict` is the pool's `verify_kyc_attestation`
for the wallet and UID with which the page calls.

| code | KycPanel |
|---|---|
| `enroll`, `revoke` of the panel | `Enroll`, `Revoke`, then `Succeed`, `Fail` or `LoseAnswer` |
| `refresh` with `/api/kyc/status` | `Ask`, `ReadFile`, `Answer` (`ShowStatus`), `ReadFails` |
| `ensureKycAttestation` | `StartCall`, `ReadFile`, `Answer` (`Ensure`), `EndCall` |
| `connect`, `disconnect`, `checkConnection` | `Connect`, `Disconnect` |

**ComplianceTree** has the two KYC leaves, their paths in a `MerkleTree`, the single leaf of the demo mode, and
what the compliance circuit asks of a proof's inputs (`Provable`).

**Deployment** has the operator's scripts. A script is a sequence of steps (`Script`), a run the place it has reached and its copy
of the file of addresses; runs interleave, are retried or stop between any two steps, and are started again. The chain is what they
deploy; `AnybodySetsVk` is a `set_vk` by somebody who runs no script; `RestartIssuer` is the issuer's choice of its mode. `Constructor` are the arguments that the pool of this repository takes:
the scripts for v8 to v10 pass fewer and fail at `DeployPool`.

| code | Deployment |
|---|---|
| `waitForIssuer`, `/api/operator-pubkey`, `/api/kyc/config` | `Confirm` |
| `loadAddresses`, `saveAddresses` | `Load`, `Write`, `Publish` |
| deployments of verifier, pool, AttestProtocol | `DeployVerifier`, `DeployPool`, `DeployProtocol`, with `Retry` |
| `set_vk`, `initialize`, `register`, `register_bls_key`, `update_root` | `SetVk`, `Initialize`, `RegisterSchema`, `RegisterKey`, `Push` |
| `/api/attestation` in `set-registry-root.mjs` | `Ask` |
| errors, interruptions | `Stop` |
| `resolveKycMode`, `main` of the issuer | `RestartIssuer` |

**Sep24** has the SEP-24 handlers as jobs over an anchor and a ledger. `Start` opens a
transaction; `SeePending`, `SeeTerminal`, `SeeLookupError`, `SeeRequest` are the answers to a
poll; `BuildPayment`, `SubmitPayment`, `PaymentConfirmed`, `PaymentFails` pay a
withdrawal; `RecoverDeposit` and `RecheckInVain` are the recovery from a lookup error. The
anchor's and the ledger's moves are `FillForm` … `GiveUp` and `ApplyPayment`, `FailPayment`,
`DropPayment`.

A definition whose comment begins with "Mutant:" is used by no specification. It is a
version of the definition after it with a plausible bug; `PROJECT.json` names the property that
notices each.

## 3. The runs

Each passing run checks its module's `TypeOK` where it has one, and:

| run | instance | what it shows |
|---|---|---|
| `pool_calls` | 2 wallets, 2 nullifiers of each kind, 2 UIDs, 2 roots of each kind, 1 tick, 4 effective calls (43,152 states) | `NullifiersFromEvents` and `EventsRebuildTree`: whatever is called in whatever order, with the proofs' arguments or others, storage and events say the same. |
| `corridor` | one sender with two tabs, one recipient, amounts 1 and 2, 5 leaves, 5 blinding factors, polls that run out, revocations, the tabs symmetric (637,460 states) | `Solvent`, `WalletsAgreeWithChain`, `SpendsInSync`, the refinement `ImplementsNotePool`, `LossesHaveCause` and `RevokedWalletsMoveNoMoney`, with lost and late transactions. |
| `proving_server` | a tree of 4 leaves, 3 notes, 3 rounds of polling, 3 attempts (446,429 states) | `PathsLeadToTheRoot` and `SpendsExtendTheRoot` under lagging and failing reads, of this request and of all others; the liveness property `RequestsEnd`, and `RequestGetsOn`, the count of steps behind it. |
| `kyc` | 3 wallets, one denied, 2 requests, 2 attestations and 2 revocations, validity 1, 1 tick, symmetric (259,650 states) | `RecordsAreTrue` and `OverlookedForCause`, whatever interleaves, dies or collides. |
| `sep24` | 2 handlers, 2 transactions, amounts 1 and 2, funds 2, at most 3 polls, 2 after the payment, 2 rechecks (168,707 states) | `PaidOnce`, `GoodNewsIsTrue`, `TimedOutIsUnpaid`; the liveness property `HandlersEnd`, and `HandlersGetOn`, the count of steps behind it. |
| `kyc_panel` | 3 wallets, one denied, 2 requests, 2 attestations and 1 revocation, one side, no tick, one read that a change of wallet caused, symmetric (4,103,878 states) | `CallsRefusedForCause` and `PanelTellsTheTruth`, whatever wallet the page has by then, whatever other pages ask of the issuer meanwhile and whichever nonces collide. |
| `deployment` | 2 runs at a time, 3 in all, of any of the 8 scripts, 4 pools, 3 verifiers, 2 AttestProtocols, 2 attempts, one key that others may set (351,830 states) | `NamedContractsAreReady`, `PoolFitsVerifier`, `KeysOfPoolsStay` and `DetectedRegistryIsLive`, wherever a script stops and whatever it writes over; the liveness property `EveryRunEnds`, and `RunsGetOn`, the count of steps behind it. |

Runs in which TLC finds the disagreement that a finding of `PROJECT.json` quotes:

| run | property violated | what happens |
|---|---|---|
| `pool_binding` | `CallsAreBound` | `transfer()` marks and inserts its arguments, which are not compared with the nullifier and the commitments that its proof is about. The same goes for the compliance nullifier at the edges. |
| `withdraw_root` | `RootIsTreeOfCommitments` | After a withdrawal the stored root counts two leaves that `withdraw()` never inserts. Spends are refused until a deposit replaces the root. |
| `change_note` | `EveryNoteHasAHolder` | The secrets of a payment's change note end with the server's request; nobody can spend the change. |
| `kyc_forget` | `NoWalletForgotten` | A revocation writes back the file it read before its network calls, erasing an enrolment recorded meanwhile. |
| `kyc_revoke` | `RevokedWalletIsShutOut` | A wallet enrolled twice is revoked once; its other attestation stays live. |

### 3.1 The bounds, and why they are enough

* *PoolCalls.* `MaxEvents` bounds the calls that take effect. Two nullifiers of each kind
  and four effective calls allow a spend, its repetition in either form, and unrelated
  calls before and after. `MCDepositCalls` and the like enumerate the good calls, those with another argument than their proof's, and those
  that break each check (zero amount, root not yet signed, stale tree or registry root, other UID, other amount, proof that does
  not verify); `MCIssuable` has attestations of either claim, forged and expiring ones. Two timestamps
  suffice: before and after an expiry. `pool_binding` needs two effective calls.
* *Corridor.* Every deposit draws one blinding factor, a payment or a withdrawal two. Five
  allow a deposit, a payment and a withdrawal; or three deposits and a payment. That
  includes every two-way race for one note and for the root, and each of the ways in which a note gets lost. A receipt may be claimed by
  whoever has it, `handleClaimNote` asks for nothing else. `TreeCapacity` 5 is
  reached, so the guard of `computeNewRoot` matters. Amounts 1 and 2 with `MaxAmount` 2 tell a
  full from a partial payment. `Scale` is 10 here and 10,000,000 in the code; nothing depends on it. The two tabs are of one wallet
  and interchangeable, hence the symmetry. In `withdraw_root` and `change_note` polls outlast their transaction, so that no timeout is
  behind what they find.
* *ProvingServer.* A tree of four leaves has two levels, so a path has a sibling that is a leaf and
  one that is a node; three notes and the two outputs overfill it, and every count up to
  the capacity and one beyond it occurs. `MaxAttempts` is the code's own 3. `MaxPolls` stands for a deadline
  in seconds, which may pass after any round. The root read lags by at most one change, a count by any number. Other
  wallets' calls do not fill the pool beyond the tree (`Fits` in `Insert`): another bound.
* *KycAuthority.* Two requests in flight are what a lost update or a nonce collision takes;
  `MaxNonce` 2 gives two attestations and two revocations that land, so a wallet may be enrolled, revoked
  and enrolled again, or two wallets may collide; requests that send more fail. `Permutations` of the wallets that are not denied and of the requests is the symmetry; it is
  left out of the run that checks a property of steps and expects a violation.
* *KycPanel.* Two requests, the page's and another page's, for two wallets that can enrol: nonces collide, and a file is written back after
  the other request has written it. The clock stands still and there is one side, so that refusals for an expiry or for the claim, which
  `CallsRefusedForCause` allows, do not occur in the run; nothing that the panel does depends on either. `MaxReads` bounds the reads that
  changes of wallet cause; one is enough to arrive late. One revocation may follow either of two enrolments. The proofs hold for any numbers.
* *Deployment.* Two runs at a time are what overwriting takes; a third start allows one after them, so that the file they
  left is used. Two pools are there at first and two more can be deployed, one by v11 and one by v12. Two attempts are a first and
  a repeated one (4, 6 or 8 in the code). `OutsideKeys` is the key for eight signals, wrong for the verifiers there were at first and
  right for new ones. A tree of depth 2 has both KYC leaves and siblings that are nodes (10 in the code).
* *Sep24.* Two tabs and two transactions give two withdrawals that compete for a sequence
  number and a balance. 3 polls reach every stage of a withdrawal before the poll runs out,
  and the poll may end at any of them. The code's 120, 240, 15 and 5 differ in length only.

### 3.2 Deadlock and fairness

`MCPoolCalls` checks deadlock: the registry can always be updated. The other models
may rest: every handler idle with the bound on blinding factors, nonces or
transactions used up, or with no user willing to click. Their configurations say
`CHECK_DEADLOCK FALSE`.

`ProvingServer`, `Sep24` and `Deployment` state fairness; the other specifications are safety specifications.

`ProvingServer`: `WF_vars(Handle)`. A simulation resolves or rejects and the circuits' tools
terminate, so a request that can go on does. Nothing is assumed of the pool, which may move for
ever, nor of the answers. `RequestsEnd` rests on the deadline and on `MAX_PROOF_RETRIES`.

`Sep24`: `WF_vars(Handler(j))` for each job. It stands for what a browser
gives: a `fetch` resolves or rejects, the wallet's window is answered or closed, and a
settled promise resumes its handler. Nothing is assumed of the anchor or of the ledger,
and starting a handler is not part of `Handler`. `HandlersEnd` therefore rests
on the code's own bounds (`maxAttempts`, the polls after the payment, the rechecks).

`Deployment`: `WF_vars(Continue(r))` for each run. A call of the command line tool returns, the issuer is waited for a bounded
number of times, attempts are counted. Nothing is assumed of the operator, who need not start or repeat
anything, nor of the issuer. `EveryRunEnds` rests on `MaxAttempts` and on the scripts having no way back.

Each of the three has a property that shows why it holds: `StepsLeft` counts the steps that a handler, a run or a request has left at
most, and `HandlersGetOn`, `RunsGetOn` and `RequestGetsOn` say that each step of its own makes it smaller, that nothing
else makes it larger, and what it is at most. These are action properties, without fairness, and they are proved (section 4); that a
handler with steps left can take one is ENABLED, and that it does is fairness.

### 3.3 Seen, and left without a property

* A leaf that could not be read counts as zero in the root that `/api/prove/deposit` signs
  (`pool-state.ts:136`); the pool then stores a root of leaves it never had, and refuses spends until the next
  deposit, unless their own reads failed at the same leaves. `ProvingServer` reproduces all of it, for every wallet's requests. Nothing is
  claimed of deposits; of spends, `SpendsExtendTheRoot`.
* `ensureKycAttestation` (`kyc.ts:167`) ignores its `side` argument, does not look at the expiry, and enrols nobody, although
  its comment says it does: a wallet enrolled to send goes on as verified to receive, and the pool's edge refuses its call.
  `CallsRefusedForCause` says which refusals are left.
* The badge and the page's `kycVerified` flag may be those of the wallet before (`KycBadge.tsx:53`, `ShowStatus`).
* A deposit that lands after the page's poll ran out is stored by no wallet (`GiveUp`, then `Land`), nor is one whose page ends between
  landing and storing. `LossesHaveCause` has both among its causes.
* A revocation that landed may be overlooked by the issuer's file (`Overlooked`); the wallet's status is then as good as what the SDK's decode
  surfaces (`kyc-attest.ts:592-593`). The pool reads the chain and refuses the wallet all the same (`RevokedWalletsMoveNoMoney`).
* `set_vk` may be called by anybody at any time, whether there is a key or not (`AnybodySetsVk`); nothing in the repository says otherwise of
  the contract. `KeysOfPoolsStay` is about the scripts alone.
* A withdrawal that the anchor refunded is reported as completed (`RefundWithdrawal`, then `SeeTerminal`).
* Two scripts at a time lose each other's entries of the file; what remains fits together (`PoolFitsVerifier`).
* After v11 and v12, `shielded_pool_v11_prev` names the pool of v10, since `deploy-pool-v11.mjs` sets it (`SavedV11`, `SavedV12`).
* After AttestProtocol is deployed again, the issuer attests with the new contract while the pool in use asks the old one,
  and the new one has no BLS key, until the next scripts have run.
* An issuer in demo mode stays in it after `set-registry-root.mjs`, until it is restarted; its compliance proofs then do not match the registry.
* The scripts' optional self-tests enrol without the names that `/api/kyc/enroll` asks for, and stop there.

## 4. The proofs

TLAPS checks these for every value of the constants that satisfies the assumptions.

**Recursion** (no assumptions) is what the other proofs know of recursive definitions.

* `MapThenSumSet` and `FlattenSeq` of the community modules are defined by recursive functions, and to the prover such a function is
  a CHOOSE: it must be shown that there is one (`FoldExists`, `JoinExists`) and only one (`FoldIsUnique`, `JoinIsUnique`). The
  library's induction theorems take an operator as a parameter, so each induction here is on a set of numbers: `Climb`, from the least
  element of what is not in it.
* What comes out are two facts with no recursion in them: `TotalOf` (the sum over a finite set with one more element is the sum plus that
  element's) and `FlattenAppend` (a list with one more list at its end flattens to the flattened list followed by it).

**PoolCallsProofs** (assumptions `PoolAssumption`, `CallsAssumption`: what the sets are
made of; no bound on the number of wallets, calls or events).

* `NullifiersFromEvents` is inductive: a later call is refused because of the *set*, and the set is that of the events, so that the new event
  names what no other does. `IInv` is `TypeOK`, this and `EventsRebuildTree`. Nothing in it relates an argument to a signal.
* The lemmas `DepositStep`, `TransferStep`, `WithdrawStep` and `EnvironmentStep` preserve `IInv`,
  one for each kind of action; `OneMoreSpend`, `OneMoreEdge` and `OneMoreEvent` say what appending an event does, the last one by
  `FlattenAppend`: the leaves that the call inserts are those that its event names.
* `TypeCorrect`, `NullifiersRebuilt` and `TreeRebuilt` follow from `Invariance`, which is of `AnyCalls`; `Spec` is a special
  case (`BoundedCalls`).

**CorridorProofs** (assumptions `PoolAssumption`, `CorridorAssumption`; any number of wallets, handlers and amounts).

* Everything rests on fresh notes: a blinding factor is drawn once, so the outputs of a call are outputs of no other call that may land
  and not on the chain (`Apart`, `Drawn`). Hence the pool's root is never one that the leaves had *before* (`RootOk`), although it is
  often not the one they have now: a deposit brings a root with its fresh note in it, `withdraw()` one whose last leaves are never inserted.
* A call knows what it was proved from (`CallOk`) and the leaves only grow (`Prefix`). A spend whose proof matches the stored root was
  therefore proved from the leaves of now: `SpendsAreInSync`.
* `WalletsTrue` and `TypeCorrect` are conjuncts of `IInv`. It is preserved by one lemma for each step of a handler (`ProveDepositStep`,
  `ProveTransferStep`, …), most of them by `ClientStep`, and for a call that lands by `LandStep`.
* `CorridorImplementsNotePool` is the refinement: `DepositMints`, `TransferSplits` and `WithdrawRedeems` map the calls that land to
  steps of the abstract ledger, and `OnlyLandingMatters` says that every other step leaves coins and escrow alone.
* `CorridorIsSolvent` is `Solvent`: the escrow is worth the unspent notes, in every state. `WorthWith` and `WorthWithout` (from `TotalOf`) say
  what a note added or taken away does to their sum; `MintPays`, `SplitIsEven` and `RedeemPays` apply them to the steps of the
  ledger, to which the refinement has mapped the calls that land.
* `CorridorUsesThePool` is a second refinement: to the contract, each step of the corridor is one that `PoolCalls` allows anybody. In the instance
  `PC` of `PoolCallsProofs` any call of any amount, root and proof may come; `AnyCallsAssumed` discharges its assumptions, and
  `DepositIsACall`, `TransferIsACall`, `WithdrawIsACall` and `RootIsSigned` map the steps. Hence `CorridorIsGuarded`: what was proved of the contract
  alone (nullifiers and leaves of storage are those of the events) holds of the corridor too, and is not proved again.
* `NotesAreLostForCause` is the action property `LossesHaveCause`, with change notes and with polls that run out: `LandingDelivers` says what
  a call that lands does to the notes and to those who have them, `HandsOn` what any other step does. The run `change_note` shows one of the causes.
* `RevokedWalletsAreFrozen` is `RevokedWalletsMoveNoMoney`. A call may have been proved, simulated and sent before the revocation; that it
  fails rests on the check when it lands (`EdgeIsLive`) and on each call's UID being its caller's own (`OwnUids`).

**Sep24Proofs** (assumption `Sep24Assumption`).

* `PaidOnce` needs to know why a handler cannot pay a second time. `JobOk` ties each stage
  to whether its payment can have been sent; `OwnIds` says that no two handlers follow the same
  transaction; `SentOnce` extends uniqueness to payments in flight; `AnchorIsHonest` says that the
  anchor credits only what is on the ledger; `NothingEarly` that nothing is
  reported of a transaction that was not opened. `IInv` is their conjunction with `TypeOK`, `GoodNewsIsTrue` and
  `TimedOutIsUnpaid`.
* `HandlerKeeps`, `AnchorStepKeeps` and `LedgerStepKeeps` take the three parts of `Next`.
  `NoWithdrawalPaidTwice`, `ReportsAreBacked`, `TimeoutIsSafe` and `TypeCorrect` follow.
* `HandlersGetOnAlways` is the action property `HandlersGetOn`: for any limits of the polls before and after the payment and of the
  rechecks, a handler asks at most `MaxSteps` times. `SomeLeft` bounds what is left in each stage, `HandlerCounts` has a step for each
  answer it may get; `OthersCount` says that other handlers, the anchor and the ledger leave its counters alone.

**KycProofs** (assumptions `AuthorityAssumption` and, for the panel, `PanelAssumption`; any number of wallets, requests, nonces).

* `RecordsAreTrue` is not inductive: a request writes later what it saw, and a revocation writes back a whole file that it read
  long ago. `IInv` adds that a request whose transaction landed names an attestation that is there, that the file which a revocation
  still holds is as true as the one on disk, and that the nonce of every UID is behind the authority's own, so that no UID
  is issued twice. Attestations are never taken back and a revocation never undone: what was true of them stays so.
  `RecordsTrue` follows.
* `RevocationsOverlookedForCause` is the action property `OverlookedForCause`. A late enrolment could bring back a revoked attestation only if somebody had learnt of its
  UID before it was recorded. `UInv` says that nobody has: an attestation that landed and is to be recorded is named by no file, neither the one
  on disk nor one that a revocation holds, by no revocation in flight and by no other request (`Unrecorded`).
* `PanelImplementsAuthority` is the refinement `PanelSpec => Spec`: every step of page and issuer together is one of the issuer's or
  leaves its variables alone. With it the theorems about the authority hold of the two together.
* `PanelIInv` adds that a record that a read has found is of an attestation about the wallet the read is for (not the page's wallet
  by now), and that the request which the panel waits for is of the kind and about the wallet its user asked for.
  `PanelIsTruthful`, `RefusalsHaveCause` and `PanelTypeCorrect` follow.

**DeploymentProofs** (assumption `DeploymentAssumption`; any number of runs).

* What a file names is safe only because the script that wrote it found things out in the right order. `RunOk` says what a
  run knows once it has a step behind it, `Order` (lemma `StepsInOrder`) which steps come before which in every script, and `Grows` that contracts only come into
  being and get ready, so that what one run knows stays true while others go on. The one change that could take something back is a verifier's
  key: `OwnVerifiers` says that no two runs have the same new verifier, `PoolOk` and `FileOk` that no pool and no file names one without a key.
* `TypeCorrect`, `ContractsReady` and `PoolAndVerifierFit` follow from `Invariance`. A key that others set makes no contract less ready, as there
  is no way to take a key away.
* `KeysStay` is the action property `KeysOfPoolsStay`. Its invariant is `UnusedVerifiers`: while the script of v12 has a verifier of its own and no pool yet,
  no pool has that verifier (`PoolOfItsOwn`, `NewPools`); after its pool it does not call `set_vk` any more (`PoolIsDone`).
* `DetectedModeIsRight` adds that a script which asked for the root has the one of the two KYC leaves (`RunOk`), so that a mode which was
  detected stays right (`IssuerOk`), and, from `PathLeadsUp` below, that the circuit accepts both sides' paths at any depth.
* `RunsGetOnAlways` is the action property `RunsGetOn`: a run's place in its script and its tries, read as a number of two digits, only go
  up; it needs that the tries stay below `MaxAttempts`, and that no script has more than seven steps.

**MerkleTreeProofs** (assumption `TreeAssumption`: there is at least one level).

* `PathLeadsUp`: from any leaf, the siblings that `computeMerklePath` returns lead the circuit's `compute_merkle_root` to the root of the
  tree. `RootsTell`: trees with the same root have the same leaves, padding included; `SameRootSameLeaves` says it of lists of leaves.
* `SpanRecursion`, `LevelsRecursion` and `PathRecursion` unfold the tree's recursive functions; the induction over the levels is `Climb`.

**ProvingServerProofs** (also `ServerAssumption`; a tree of any depth, any notes, polls and attempts).

* A request knows of each leaf it read that it is the pool's or zero (`ReadOk`), which stays true because leaves are never changed, and a
  note it spends is among them. The stored root is of leaves that end with the pool's last one, or with an output of a withdrawal
  (`RootShape`), whatever is missing before: that is all that is left when other requests' reads fail as well.
* It is enough. If the leaves of a request have the root of the pool, then by `SameRootSameLeaves` the last of them is the pool's last and stands
  at its place, so that no leaf was left uncounted (`SyncMeansAll`), and the outputs go where the pool will put them:
  `SpendsExtendAlways`. `PathsAreRight` follows from `PathLeadsUp`; `TypeCorrect` is the third.
* `RequestGetsOnAlways` is the action property `RequestGetsOn`. A request has two loops, each of which loads all the leaves anew, and the pool may
  have grown by then. `Phases` says which stages the polls (`attempt` 0) and the proving (`attempt` from 1) go through; a step is
  `Nearer` to the answer if it leaves less of the same round or fewer rounds, and `WholeRounds` that a round is longer than what can be left of one.

Only model-checked, because the prover does not reach it: `HandlersEnd`, `RequestsEnd` and `EveryRunEnds` (liveness under fairness); what is
proved of them is that the steps on the way to the end are bounded. ENABLED and RECURSIVE operators are out of its reach too; no module here declares a RECURSIVE operator, so that each may be proved about.

## 5. What the model assumes

* **Hashes are ideal.** A commitment *is* the note, a spend nullifier *is* the note it comes from, a
  compliance nullifier *is* the tuple that is hashed, a root *is* the sequence of leaves (in
  `MerkleTree`, a node *is* the pair of its children), and no note has the commitment 0. One
  secret key goes with each note. Proof systems are sound.
* **Errors roll back.** A contract call that returns an error changes nothing, so a refused
  call is not a step in `PoolCalls`; in `Corridor` it is `Fail`, which voids the sender's other transactions in flight.
* **Honest clients** (Corridor): a page passes on what the server gave it, so that the arguments of a call are the signals of its proofs. The
  contract does not enforce it. `PoolCalls` has calls of other arguments; what it shows is of the arguments, and nothing is shown about notes
  or escrow without this assumption.
* **Proving is one step** in `Corridor` where the leaves alone are read: they only grow, and nobody sees
  the answer before it is complete. A withdrawal reads the leaves and the root at
  different times, and takes two. `ProvingServer` has every read as a step.
* **One account, one sequence number**: of transactions of one account in flight together at most one applies.
* **A wallet has one attestation** in `Corridor`, which may be revoked at any time and does not expire; several attestations of a wallet (the run
  `kyc_revoke`) and expiry are in `PoolCalls`, `KycAuthority` and `KycPanel`.
* **One pool, and one wallet in a browser** (Corridor, `ActiveNote`): the pages key localStorage by the pool's address alone and store nothing
  while they do not know it (`if (poolAddress)`); here the address is loaded, and the notes are those of the job's wallet. The KYC leaves of the two sides appear as `Salt`; they are in `ComplianceTree`.
* **A contract is its place in the order of deployment** (Deployment), and the AttestProtocols, verifiers and pools that
  were there at first are ready. A transaction that lands although the tool reports an error is the step followed by `Stop`.
* **The SDK's submission returns only for a transaction that succeeded** (KycAuthority). Nothing is assumed of how its decode reports `revoked`.
* **The anchor is honest about the ledger** (Sep24): it marks as paid what was paid, and names the
  hash of its own payment, of the right amount: the client's own check (`sep24.ts:58-94`) takes any transfer of the asset to the account for it, and
  `Verified` is stricter. It may be slow, fail, forget or refund. Statuses the
  client does not tell apart are folded together. One wallet is modelled.

## 6. What is not modelled, and why

* Pairing arithmetic, signatures, sealed receipts: pure cryptography, with no state. Of the BLS keys only which contract has one.
* `upgrade()` replaces the code the model is of. TTLs are left out: the instance's is extended in every call, a nullifier's or a commitment's
  only when the entry is written.
* The scripts' self-tests, `revoke-kyc.mjs` and `corridor-e2e.mjs` drive the system as the pages do; the helpers that check
  encodings and bindings have no state. The copying of circuit artifacts is I/O.
* `merkle.ts` and `build-tree.ts`: nothing that runs uses them. (The paths that `merkle.ts` builds are right for leaf 0 alone.)
* The anchor proxies forward one request. Trustlines, account funding, balances, forms, the stored profile
  and malformed storage: presentation or one-off requests.

## 7. Plan

Done, in order of importance: the contract; the corridor and its abstract ledger; the KYC authority; the
SEP-24 client; the proving server and the note tree; the KYC panel over the authority, up to the pool's verdict; the compliance tree and
the deployment; proofs for all of them, the corridor's refinement and the tree's algorithms included. What would come next
are trustlines and malformed storage in the pages.

## 8. Running it

```
tlc -config MCPoolCalls.cfg MCPoolCalls.tla        # likewise every cfg with its module
tlapm PoolCallsProofs.tla                          # likewise every module named ...Proofs
```
`PROJECT.json` lists the runs, the lines of source behind each definition (`map`), the theorems, the
findings and the hazards.
