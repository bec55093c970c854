------------------------------- MODULE Corridor -------------------------------
(***************************************************************************)
(* The corridor end to end: the browsers of senders and recipients         *)
(* (frontend/src/app), the proving server they ask for commitments, roots  *)
(* and proofs (mock-issuer/src/index.ts), the network that carries their   *)
(* transactions, and the ShieldedPool contract.                            *)
(*                                                                         *)
(* A hash is ideal.  A note commitment is the note itself, a spend         *)
(* nullifier is the note it is derived from, a compliance nullifier is the *)
(* tuple that is hashed, and a Merkle root is the sequence of leaves it    *)
(* was computed from.  A note's secret key is part of knowing the note:    *)
(* honest clients use one per note.  The pages here are honest: the        *)
(* arguments of a call are the signals of its proofs, which the contract   *)
(* does not compare (PoolCalls has calls of any arguments).                *)
(*                                                                         *)
(* There is one pool, whose address every page has loaded, and a browser   *)
(* has one wallet: the pages key localStorage by the pool alone, and store *)
(* nothing while they do not know it (`if (poolAddress)`).                 *)
(*                                                                         *)
(* A job is one run of a page's button handler.  Nothing stops a wallet    *)
(* from having several: the buttons stay enabled while a handler runs, and *)
(* the pages may be open twice.  The server's handlers keep no state       *)
(* between requests.  The leaves only ever grow, so reading their number   *)
(* and then each of them gives the leaves of one instant; what a handler   *)
(* computes and signs from them later is what it would have computed then, *)
(* and nobody sees it before the response: one step for each of            *)
(* /api/prove/deposit and /api/prove/transfer.  /api/prove/withdraw reads  *)
(* the pool's root at another instant than the leaves: two steps.          *)
(***************************************************************************)
EXTENDS ShieldedPool, FiniteSetsExt, SequencesExt

CONSTANTS
  Senders, Recipients,    \* wallets attested for the on-ramp, for the off-ramp
  Jobs,                   \* handlers that may run at the same time
  WalletOf,               \* ... and the wallet each of them acts for
  Amounts,                \* whole units a sender may shield
  PaidAmounts,            \* whole units a sender may send on out of a note
  MaxAmount,              \* the corridor's limit, proved by the compliance circuit
  Salt,                   \* secret_salt of the KYC leaf of either side
  Funds,                  \* each wallet's initial balance, in sub-units
  TreeCapacity,           \* leaves of the Merkle tree (256 in the code)
  PollsCanRunOut,         \* whether a poll may end before its transaction does
  MaxBlindings            \* bound: blinding factors drawn, by anyone

ASSUME CorridorAssumption ==
  /\ Senders \subseteq Wallets
  /\ Recipients \subseteq Wallets
  /\ WalletOf \in [Jobs -> Wallets]
  /\ Amounts \subseteq Nat \ {0}
  /\ MaxAmount \in Nat
  /\ PaidAmounts \subseteq Nat
  /\ Funds \in [Wallets -> Nat]
  /\ TreeCapacity \in Nat
  /\ PollsCanRunOut \in BOOLEAN
  /\ MaxBlindings \in Nat

VARIABLES
  nextBlinding,  \* randomField(), generateRandomField(): the next unused value
  saved,         \* localStorage of each wallet: its notes
  markedSpent,   \* ... and the ones whose `spent` flag is set
  receipts,      \* note receipts that reached their recipient
  job,           \* how far each job has come
  inFlight       \* calls submitted and neither applied nor dropped

clientVars == <<saved, markedSpent, receipts>>
vars == <<contractVars, clientVars, nextBlinding, job, inFlight>>

Note == [owner : Wallets, value : Nat, blinding : Nat]

NewNote(owner, value, blinding) ==
  [owner |-> owner, value |-> value, blinding |-> blinding]

\* Saving a note again changes nothing: it keeps its `spent` flag.
saveNote(w, note) == saved' = [saved EXCEPT ![w] = @ \cup {note}]
markNoteSpent(w, note) == markedSpent' = [markedSpent EXCEPT ![w] = @ \cup {note}]

Idle == [stage |-> "idle"]
At(j, stage) == job[j].stage = stage
SetJob(j, new) == job' = [job EXCEPT ![j] = new]

Draw(k) ==
  /\ nextBlinding + k <= MaxBlindings
  /\ nextBlinding' = nextBlinding + k

-----------------------------------------------------------------------------
(***************************************************************************)
(* The proving server.                                                     *)
(***************************************************************************)

\* computeNewRoot: it throws when the tree is full.
Fits(leaves) == Len(leaves) <= TreeCapacity

\* computeComplianceNullifier, for this corridor.
ComplianceNullifier(side, owner, amount) == <<Salt[side], owner, amount>>

\* The prover's answer for a circuit whose constraints hold; it throws for others.
generateProof(publicSignals) ==
  [f \in DOMAIN publicSignals \cup {"valid"} |->
     IF f = "valid" THEN TRUE ELSE publicSignals[f]]

\* The compliance circuit has a proof only within the corridor's limit, for the
\* nullifier of its private inputs.
Provable(amount) == amount <= MaxAmount
ComplianceProofFor(w, amount, nullifier) ==
  generateProof([merkle_root          |-> InitialRegistryRoot,
                 amount               |-> amount,
                 compliance_nullifier |-> nullifier,
                 uid                  |-> w])

\* The spend circuit proves that a note is among the leaves, that its nullifier
\* is derived from it and that the two outputs are worth as much; a withdrawal
\* makes the amount public, too.
Spendable(note, leaves) == Contains(leaves, note)
ShieldedProofFor(leaves, note, out1, out2, withdrawAmount) ==
  generateProof([merkle_root      |-> leaves,
                 nullifier_hash   |-> note,
                 new_commitment_1 |-> out1,
                 new_commitment_2 |-> out2,
                 withdraw_amount  |-> withdrawAmount])

\* buildDepositTx, buildTransferTx, buildWithdrawTx: the calls of an honest page.
DepositTx(w, amount, note, newRoot) ==
  LET nullifier == ComplianceNullifier("send", w, amount) IN
  [kind                 |-> "deposit",
   caller               |-> w,
   amount               |-> amount,
   note_commitment      |-> note,
   new_root             |-> newRoot,
   compliance_nullifier |-> nullifier,
   compliance           |-> ComplianceProofFor(w, amount, nullifier),
   uid                  |-> w]

TransferTx(w, newRoot, proof) ==
  [kind             |-> "transfer",
   caller           |-> w,
   spend_nullifier  |-> proof.nullifier_hash,
   new_commitment_1 |-> proof.new_commitment_1,
   new_commitment_2 |-> proof.new_commitment_2,
   new_root         |-> newRoot,
   shielded         |-> proof]

\* The outputs of the spend are signals of its proof only: they are no arguments.
WithdrawTx(w, note, newRoot, proof) ==
  LET nullifier == ComplianceNullifier("receive", note.owner, note.value) IN
  [kind                 |-> "withdraw",
   caller               |-> w,
   amount               |-> note.value,
   spend_nullifier      |-> proof.nullifier_hash,
   new_root             |-> newRoot,
   shielded             |-> proof,
   compliance_nullifier |-> nullifier,
   compliance           |-> ComplianceProofFor(w, note.value, nullifier),
   uid                  |-> w]

\* The page has everything it needs to build its transaction.
Proved(call) == [stage |-> "proved", call |-> call]

\* handleShield up to buildDepositTx, with /api/prove/deposit and
\* /api/prove/compliance.  The new root extends the leaves read just now.
ProveDeposit(j, amount) ==
  LET w       == WalletOf[j]
      note    == NewNote(w, amount, nextBlinding)
      newRoot == Append(commitments, note)
  IN
    /\ At(j, "idle")
    /\ Provable(amount)
    /\ Draw(1)
    /\ Fits(newRoot)
    /\ SignRoot(newRoot)
    /\ SetJob(j, Proved(DepositTx(w, amount, note, newRoot)))
    /\ UNCHANGED <<clientVars, inFlight>>

\* Mutant: the change may be negative.
CoversAnything(note, amount) == TRUE

\* /api/prove/transfer refuses to pay more than the note is worth.
Covers(note, amount) == amount <= note.value

\* handleSendPrivate and handlePoolWithdraw up to their requests for a proof: the
\* page's activeNote is one that its wallet stores, spent by now or not.
ActiveNote(w, note) == note \in saved[w]

\* handleSendPrivate up to buildTransferTx, with /api/prove/transfer.  The
\* second output is the change, owned by the sender.  A root that differs
\* from the pool's is only logged (assertRootMatchesChain).  The circuit wants the
\* first output to be positive.
ProveTransfer(j, note, to, amount) ==
  LET w       == WalletOf[j]
      paid    == NewNote(to, amount, nextBlinding)
      change  == NewNote(note.owner, note.value - amount, nextBlinding + 1)
      newRoot == commitments \o <<paid, change>>
  IN
    /\ At(j, "idle")
    /\ ActiveNote(w, note)
    /\ Covers(note, amount)
    /\ amount > 0
    /\ Spendable(note, commitments)
    /\ Draw(2)
    /\ Fits(newRoot)
    /\ SignRoot(newRoot)
    /\ SetJob(j, Proved(TransferTx(w, newRoot,
                 ShieldedProofFor(commitments, note, paid, change, 0))))
    /\ UNCHANGED <<clientVars, inFlight>>

\* /api/prove/withdraw reads the leaves until the note is among them ...
LoadLeaves(j, note) ==
  /\ At(j, "idle")
  /\ ActiveNote(WalletOf[j], note)
  /\ Spendable(note, commitments)
  /\ SetJob(j, [stage |-> "loaded", note |-> note, leaves |-> commitments])
  /\ UNCHANGED <<contractVars, clientVars, nextBlinding, inFlight>>

\* ... and reads them again as long as the pool's root is not theirs.
ReloadLeaves(j) ==
  /\ At(j, "loaded")
  /\ root # job[j].leaves
  /\ job[j].leaves # commitments
  /\ SetJob(j, [job[j] EXCEPT !.leaves = commitments])
  /\ UNCHANGED <<contractVars, clientVars, nextBlinding, inFlight>>

\* /api/prove/withdraw once the root read after the hashing is the root of the
\* leaves.  The two outputs of the spend circuit are public signals of the
\* proof and leaves of the new root, and that is all: withdraw() takes no
\* commitments.
ProveWithdraw(j) ==
  LET w       == WalletOf[j]
      note    == job[j].note
      leaves  == job[j].leaves
      out1    == NewNote(w, note.value, nextBlinding)
      out2    == NewNote(note.owner, 0, nextBlinding + 1)
      newRoot == leaves \o <<out1, out2>>
  IN
    /\ At(j, "loaded")
    /\ root = leaves
    /\ Provable(note.value)
    /\ Draw(2)
    /\ Fits(newRoot)
    /\ SignRoot(newRoot)
    /\ SetJob(j, Proved(WithdrawTx(w, note, newRoot,
                 ShieldedProofFor(leaves, note, out1, out2, note.value))))
    /\ UNCHANGED <<clientVars, inFlight>>

-----------------------------------------------------------------------------
(***************************************************************************)
(* The browser and the network.                                            *)
(***************************************************************************)

\* What the contract would do with a call.
Accepted(c) ==
  CASE c.kind = "deposit"  -> DepositAccepted(c)
    [] c.kind = "transfer" -> TransferAccepted(c)
    [] c.kind = "withdraw" -> WithdrawAccepted(c)

\* Mutant: the note is stored when its deposit is sent.
SubmitAndSave(j) ==
  LET c == job[j].call IN
    /\ At(j, "proved")
    /\ Accepted(c)
    /\ inFlight' = inFlight \cup {c}
    /\ SetJob(j, [job[j] EXCEPT !.stage = "submitted"])
    /\ saved' = IF c.kind = "deposit"
                  THEN [saved EXCEPT ![WalletOf[j]] = @ \cup {c.note_commitment}]
                  ELSE saved
    /\ UNCHANGED <<contractVars, markedSpent, receipts, nextBlinding>>

\* invokeContract refuses to build a transaction whose simulation fails; the
\* one it builds is signed and sent (submitTransaction).
Submit(j) ==
  /\ At(j, "proved")
  /\ Accepted(job[j].call)
  /\ inFlight' = inFlight \cup {job[j].call}
  /\ SetJob(j, [job[j] EXCEPT !.stage = "submitted"])
  /\ UNCHANGED <<contractVars, clientVars, nextBlinding>>

\* A request or a simulation fails, the user does not sign or leaves the page.
Abandon(j) ==
  /\ At(j, "loaded") \/ At(j, "proved")
  /\ SetJob(j, Idle)
  /\ UNCHANGED <<contractVars, clientVars, nextBlinding, inFlight>>

\* Transactions of one account in flight together were built on the same
\* sequence number: applying one of them, successfully or not, voids the rest.
Settle(c) == inFlight' = {d \in inFlight : d.caller # c.caller}

Land(c) ==
  /\ c \in inFlight
  /\ CASE c.kind = "deposit"  -> Deposit(c)
       [] c.kind = "transfer" -> Transfer(c)
       [] c.kind = "withdraw" -> Withdraw(c)
  /\ Settle(c)
  /\ job' = [j \in Jobs |->
               IF At(j, "submitted") /\ job[j].call = c
                 THEN [job[j] EXCEPT !.stage = "landed"]
                 ELSE job[j]]
  /\ UNCHANGED <<clientVars, nextBlinding>>

\* The state moved between the simulation and the ledger that applies it.
Fail(c) ==
  /\ c \in inFlight
  /\ ~Accepted(c)
  /\ Settle(c)
  /\ UNCHANGED <<contractVars, clientVars, nextBlinding, job>>

\* The transaction is never included, until its time bounds have passed.
Lose(c) ==
  /\ c \in inFlight
  /\ inFlight' = inFlight \ {c}
  /\ UNCHANGED <<contractVars, clientVars, nextBlinding, job>>

\* submitSorobanTransaction throws: the transaction failed, or sixty polls
\* did not find it.  The handler ends there; a transaction still in flight
\* stays so.
GiveUp(j) ==
  /\ \/ At(j, "submitted") /\ (job[j].call \in inFlight => PollsCanRunOut)
     \/ At(j, "landed") /\ PollsCanRunOut
  /\ SetJob(j, Idle)
  /\ UNCHANGED <<contractVars, clientVars, nextBlinding, inFlight>>

\* The rest of handleShield: only now is the note stored.
FinishDeposit(j) ==
  LET w == WalletOf[j]  c == job[j].call IN
    /\ At(j, "landed") /\ c.kind = "deposit"
    /\ saveNote(w, c.note_commitment)
    /\ SetJob(j, Idle)
    /\ UNCHANGED <<contractVars, markedSpent, receipts, nextBlinding, inFlight>>

\* Mutant: the receipt of a payment is lost with the page.
FinishTransferUnsent(j) ==
  LET w == WalletOf[j]  c == job[j].call IN
    /\ At(j, "landed") /\ c.kind = "transfer"
    /\ markNoteSpent(w, c.spend_nullifier)
    /\ SetJob(j, Idle)
    /\ UNCHANGED <<contractVars, saved, receipts, nextBlinding, inFlight>>

\* The rest of handleSendPrivate: the receipt of the first output reaches its
\* recipient.  Nothing is done with the second.
FinishTransfer(j) ==
  LET w == WalletOf[j]  c == job[j].call IN
    /\ At(j, "landed") /\ c.kind = "transfer"
    /\ markNoteSpent(w, c.spend_nullifier)
    /\ receipts' = receipts \cup {c.new_commitment_1}
    /\ SetJob(j, Idle)
    /\ UNCHANGED <<contractVars, saved, nextBlinding, inFlight>>

\* The rest of handlePoolWithdraw.
FinishWithdraw(j) ==
  LET w == WalletOf[j]  c == job[j].call IN
    /\ At(j, "landed") /\ c.kind = "withdraw"
    /\ markNoteSpent(w, c.spend_nullifier)
    /\ SetJob(j, Idle)
    /\ UNCHANGED <<contractVars, saved, receipts, nextBlinding, inFlight>>

\* handleClaimNote, of a receipt that the wallet has not claimed yet.  Who claims
\* it need not be its owner: a receipt is as good as cash to whoever was given it.
Claim(w, note) ==
  /\ note \in receipts \ saved[w]
  /\ saveNote(w, note)
  /\ UNCHANGED <<contractVars, markedSpent, receipts, nextBlinding, job, inFlight>>

-----------------------------------------------------------------------------

\* The authority revokes a wallet's attestation, whatever its handlers are at.
RevokeKyc(w) ==
  /\ w \in DOMAIN attestations
  /\ ~attestations[w].revoked
  /\ attestations' = [attestations EXCEPT ![w].revoked = TRUE]
  /\ UNCHANGED <<poolVars, tokens, registryRoot, signedRoots, now, clientVars,
                 nextBlinding, job, inFlight>>

\* Every wallet is enrolled for its side of the corridor under the uid that
\* is its own name; the attestation may be revoked later.
Init ==
  /\ PoolInit
  /\ tokens = [a \in Accounts |-> IF a = Pool THEN 0 ELSE Funds[a]]
  /\ attestations = [w \in Senders \cup Recipients |->
       [subject |-> w, genuine |-> TRUE, revoked |-> FALSE, expires |-> NoExpiry,
        claim   |-> IF w \in Senders THEN SendClaim ELSE ReceiveClaim]]
  /\ now = 0
  /\ nextBlinding = 0
  /\ saved = [w \in Wallets |-> {}]
  /\ markedSpent = [w \in Wallets |-> {}]
  /\ receipts = {}
  /\ job = [j \in Jobs |-> Idle]
  /\ inFlight = {}

Prove(j) ==
  \/ WalletOf[j] \in Senders /\ \E amount \in Amounts : ProveDeposit(j, amount)
  \/ \E note \in saved[WalletOf[j]], to \in Recipients, amount \in PaidAmounts :
       ProveTransfer(j, note, to, amount)
  \/ WalletOf[j] \in Recipients /\ \E note \in saved[WalletOf[j]] : LoadLeaves(j, note)
  \/ ReloadLeaves(j)
  \/ ProveWithdraw(j)

Browse(j) ==
  \/ Submit(j)
  \/ Abandon(j)
  \/ GiveUp(j)
  \/ FinishDeposit(j)
  \/ FinishTransfer(j)
  \/ FinishWithdraw(j)

Network == \E c \in inFlight : Land(c) \/ Fail(c) \/ Lose(c)

Next ==
  \/ \E j \in Jobs : Prove(j) \/ Browse(j)
  \/ \E w \in Wallets, note \in receipts : Claim(w, note)
  \/ \E w \in Wallets : RevokeKyc(w)
  \/ Network

Spec == Init /\ [][Next]_vars

-----------------------------------------------------------------------------
(***************************************************************************)
(* Properties.                                                             *)
(***************************************************************************)

OnChain == ToSet(commitments)
Unspent == OnChain \ spendNullifiers
Worth(notes) == MapThenSumSet(LAMBDA n : n.value, notes)

DepositCall ==
  [kind : {"deposit"}, caller : Senders, amount : Amounts, note_commitment : Note,
   new_root : Seq(Note), compliance_nullifier : {Salt["send"]} \X Wallets \X Amounts,
   compliance : [merkle_root : {InitialRegistryRoot}, amount : Amounts,
                 compliance_nullifier : {Salt["send"]} \X Wallets \X Amounts,
                 uid : Wallets, valid : {TRUE}],
   uid : Wallets]

SpendProof(amounts) ==
  [merkle_root : Seq(Note), nullifier_hash : Note, new_commitment_1 : Note,
   new_commitment_2 : Note, withdraw_amount : amounts, valid : {TRUE}]

TransferCall ==
  [kind : {"transfer"}, caller : Wallets, spend_nullifier : Note,
   new_commitment_1 : Note, new_commitment_2 : Note, new_root : Seq(Note),
   shielded : SpendProof({0})]

WithdrawCall ==
  [kind : {"withdraw"}, caller : Recipients, amount : Nat, spend_nullifier : Note,
   new_root : Seq(Note), shielded : SpendProof(Nat),
   compliance_nullifier : {Salt["receive"]} \X Wallets \X Nat,
   compliance : [merkle_root : {InitialRegistryRoot}, amount : Nat,
                 compliance_nullifier : {Salt["receive"]} \X Wallets \X Nat,
                 uid : Wallets, valid : {TRUE}],
   uid : Wallets]

Call == DepositCall \cup TransferCall \cup WithdrawCall

Job ==
  {Idle}
  \cup [stage : {"loaded"}, note : Note, leaves : Seq(Note)]
  \cup [stage : {"proved", "submitted", "landed"}, call : Call]

\* Every variable stays in its type.
TypeOK ==
  /\ root = InitialRoot \/ root \in Seq(Note)
  /\ commitments \in Seq(Note)
  /\ spendNullifiers \subseteq Note
  /\ tokens \in [Accounts -> Nat]
  /\ attestations \in [Senders \cup Recipients ->
       [subject : Wallets, genuine : BOOLEAN, revoked : BOOLEAN, expires : {NoExpiry},
        claim : {SendClaim, ReceiveClaim}]]
  /\ saved \in [Wallets -> SUBSET Note]
  /\ markedSpent \in [Wallets -> SUBSET Note]
  /\ receipts \subseteq Note
  /\ nextBlinding \in 0..MaxBlindings
  /\ job \in [Jobs -> Job]
  /\ inFlight \subseteq Call

\* The escrow is worth exactly the notes that can still be spent: no order of
\* deposits, payments and withdrawals by any number of wallets, no lost or
\* late transaction and no retry creates or destroys money in the pool.
Solvent == tokens[Pool] = Worth(Unspent) * Scale

\* A payment or a withdrawal takes effect only at a moment when the root the
\* pool stores is the root of the very leaves it stores.  deposit() accepts
\* any base and withdraw() stores a root of leaves that do not exist, so the
\* stored root is often another; then no spend lands.
SpendsInSync ==
  [][spendNullifiers' # spendNullifiers => root = commitments]_vars

\* No wallet has in hand, and no recipient was sent, a note that is not on
\* the chain; no wallet gives up a note that is not spent on the chain.
WalletsAgreeWithChain ==
  /\ receipts \subseteq OnChain
  /\ \A w \in Wallets :
       /\ saved[w] \subseteq OnChain
       /\ markedSpent[w] \subseteq spendNullifiers

\* The corridor is a ledger of coins backed by the escrow.
NP == INSTANCE NotePool WITH
        Coin   <- [owner : Wallets, value : 0 .. MaxAmount,
                   blinding : 0 .. MaxBlindings],
        Unit   <- Scale,
        coins  <- Unspent,
        spent  <- spendNullifiers,
        escrow <- tokens[Pool]

ImplementsNotePool == NP!Ledger

\* A note is in somebody's hands: a wallet stores it, its receipt was delivered,
\* or the handler whose call inserted it is still running and will see to that.
Delivers(c, note) ==
  \/ c.kind = "deposit" /\ note = c.note_commitment
  \/ c.kind = "transfer" /\ note = c.new_commitment_1

Holds(j, note) == At(j, "landed") /\ Delivers(job[j].call, note)

Held(note) ==
  \/ \E w \in Wallets : note \in saved[w]
  \/ note \in receipts
  \/ \E j \in Jobs : Holds(j, note)

\* Every unspent note that is worth something is in somebody's hands.
EveryNoteHasAHolder == \A note \in Unspent : note.value > 0 => Held(note)

\* A call lands that inserts a note nobody has: it is the change of a payment,
\* or no handler waits for the call any more.
LandsUnheld(c, note) ==
  /\ Land(c)
  /\ \/ c.kind = "transfer" /\ note = c.new_commitment_2
     \/ Delivers(c, note) /\ ~\E j \in Jobs : At(j, "submitted") /\ job[j].call = c

\* Money is lost sight of in these ways only: a payment leaves a change, a call
\* lands after its handler has stopped polling for it, or a handler stops after
\* its call has landed and before it has stored or sent the note.  Whatever
\* else two tabs, the network and the recipients do, a note that somebody has
\* stays with somebody until it is spent.
LossesHaveCause ==
  [][\A note \in Unspent' :
       note.value > 0 /\ ~Held(note)' =>
         \/ note \in Unspent /\ ~Held(note)
         \/ \E j \in Jobs : Holds(j, note) /\ GiveUp(j)
         \/ \E c \in inFlight : LandsUnheld(c, note)]_vars

\* A wallet whose attestation is revoked moves no money across an edge any more:
\* not with a proof made before, not with a transaction simulated, signed and
\* sent before, nor through the attestation of another.
RevokedWalletsMoveNoMoney ==
  [][\A w \in DOMAIN attestations : attestations[w].revoked => tokens'[w] = tokens[w]]_vars

\* The root the pool stores is that of the commitments it stores, once there
\* is one ("Current note-commitment tree root", lib.rs:204).
RootIsTreeOfCommitments == commitments # <<>> => root = commitments
=============================================================================
