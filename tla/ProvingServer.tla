----------------------------- MODULE ProvingServer -----------------------------
(***************************************************************************)
(* A request of the proving server (mock-issuer/src/index.ts, the routes   *)
(* /api/prove/deposit, /transfer and /withdraw, with pool-state.ts) read   *)
(* by read, against a pool that moves meanwhile.  The server keeps nothing *)
(* between requests, so one request shows what they do.                    *)
(*                                                                         *)
(* An RPC node may lag behind the ledger: it counts fewer leaves than      *)
(* there are, finds no leaf, or answers with the root before the last      *)
(* change.  A simulation that ends in an error is taken for "no leaf" or   *)
(* for "no leaves" as well.                                                *)
(***************************************************************************)
EXTENDS MerkleTree, SequencesExt

CONSTANTS
  Commitments,    \* notes that may be put into the pool, or asked about
  Out1, Out2,     \* the outputs of the spend that is asked for
  Stranger,       \* an output of another wallet's withdrawal
  MaxPolls,       \* bound: rounds before the deadline (60 s or 180 s)
  MaxAttempts     \* MAX_PROOF_RETRIES (3)

\* Notes hash to something else than 0, and a withdrawal's outputs are never put in.
ASSUME ServerAssumption ==
  /\ Zero \notin Commitments
  /\ Stranger \notin Commitments \cup {Zero}
  /\ MaxPolls \in Nat \ {0}
  /\ MaxAttempts \in Nat \ {0}

VARIABLES
  commitments,  \* the pool's leaves
  root,         \* the root it stores
  oldRoot,      \* the root it stored before
  request

poolVars == <<commitments, root, oldRoot>>
vars == <<poolVars, request>>

Kinds == {"deposit", "transfer", "withdraw"}

Idle == [stage |-> "idle"]
Failed == [stage |-> "failed"]
Ended == {"idle", "failed", "done"}
At(stage) == request.stage = stage
Spending == request.kind \in {"transfer", "withdraw"}

-----------------------------------------------------------------------------
(***************************************************************************)
(* The pool.  Insert and the others are the effects of other wallets'      *)
(* calls on the tree.  The roots they bring were signed by the same server *)
(* for requests that read the pool as badly as this one does: each is of   *)
(* some reading.  The pool holds no more leaves than the tree: a bound.    *)
(***************************************************************************)

\* Blinding factors are random: nobody else inserts the note of a deposit.
Asked == IF request.stage \notin {"idle", "failed"} /\ request.kind = "deposit"
           THEN {request.note} ELSE {}
Unused == Commitments \ (ToSet(commitments) \cup Asked)
Store(newRoot) == root' = newRoot /\ oldRoot' = root

\* loadAllCommitments, now or before, that counted n leaves: each as it is, or zero.
Readings(n) ==
  {s \in [1 .. n -> ToSet(commitments) \cup {Zero}] :
     \A i \in 1 .. n : s[i] \in {Zero, commitments[i]}}

\* A deposit lands: the pool takes any root that was signed.
Insert(c, reading) ==
  /\ c \in Unused
  /\ Fits(Append(commitments, c))
  /\ commitments' = Append(commitments, c)
  /\ Store(TreeRoot(Append(reading, c)))
  /\ UNCHANGED request

\* A payment lands: its proof, of a note that was found, is against the stored root.
InsertTwo(a, b, reading) ==
  LET all == commitments \o <<a, b>> IN
    /\ {a, b} \subseteq Unused /\ a # b
    /\ ToSet(reading) \ {Zero} # {} /\ root = TreeRoot(reading)
    /\ Fits(all)
    /\ commitments' = all
    /\ Store(TreeRoot(reading \o <<a, b>>))
    /\ UNCHANGED request

\* A withdrawal lands, likewise.
Overwrite(reading) ==
  LET all == reading \o <<Stranger, Stranger>> IN
    /\ ToSet(reading) \ {Zero} # {} /\ root = TreeRoot(reading)
    /\ Fits(all)
    /\ Store(TreeRoot(all))
    /\ UNCHANGED <<commitments, request>>

-----------------------------------------------------------------------------
(***************************************************************************)
(* Reading the pool.                                                       *)
(***************************************************************************)

\* readPoolRoot
RootAnswers == {root, oldRoot}

\* Another load of the leaves, if any, starts afresh.
Load(q) == [q EXCEPT !.stage = "counting", !.leaves = <<>>]

Start(kind, note) ==
  /\ At("idle")
  /\ kind = "deposit" => note \in Unused
  /\ request' = [kind |-> kind, note |-> note, stage |-> "counting", count |-> 0,
                 leaves |-> <<>>, polls |-> 0, confirmed |-> 0, attempt |-> 0, newRoot |-> Zero]
  /\ UNCHANGED poolVars

\* Mutant: one leaf too many is asked for.
CountToEnd(n) ==
  /\ At("counting")
  /\ request' = [request EXCEPT !.stage = "loading", !.count = n + 1]
  /\ UNCHANGED poolVars

\* readCommitmentCount
ReadCount(n) ==
  /\ At("counting")
  /\ request' = [request EXCEPT !.stage = "loading", !.count = n]
  /\ UNCHANGED poolVars

\* readCommitment of the next index, in loadAllCommitments.
ReadCommitment ==
  LET i == Len(request.leaves) + 1 IN
    /\ At("loading")
    /\ i <= request.count
    /\ \E c \in {Zero} \cup (IF i <= Len(commitments) THEN {commitments[i]} ELSE {}) :
         request' = [request EXCEPT !.leaves = Append(@, c)]
    /\ UNCHANGED poolVars

Loaded == At("loading") /\ Len(request.leaves) = request.count
Found == request.note \in ToSet(request.leaves)
TargetIdx(q) == CHOOSE i \in 0 .. Len(q.leaves) - 1 :
                  /\ q.leaves[i + 1] = q.note
                  /\ \A j \in 1 .. i : q.leaves[j] # q.note

\* hash_util's root: from the note up along the path.
ProofRoot(q) ==
  compute_merkle_root(q.note, TargetIdx(q), MerklePath(q.leaves, TargetIdx(q)))

-----------------------------------------------------------------------------
(***************************************************************************)
(* The routes.                                                             *)
(***************************************************************************)

NewLeaves(q) == IF q.kind = "deposit" THEN <<q.note>> ELSE <<Out1, Out2>>

\* Mutant: leaves that were not read are left out.
AnswerWithoutGaps(q) ==
  LET all == SelectSeq(q.leaves, LAMBDA leaf : leaf # Zero) \o NewLeaves(q) IN
    request' = IF Fits(all)
                 THEN [q EXCEPT !.stage = "done", !.newRoot = TreeRoot(all)]
                 ELSE Failed

\* computeNewRoot, which throws when the tree is full, signRoot, the response.
Answer(q) ==
  LET all == q.leaves \o NewLeaves(q) IN
    request' = IF Fits(all)
                 THEN [q EXCEPT !.stage = "done", !.newRoot = TreeRoot(all)]
                 ELSE Failed

SignDeposit ==
  /\ Loaded /\ request.kind = "deposit"
  /\ Answer(request)
  /\ UNCHANGED poolVars

\* Mutant: the deadline is set anew in every round.
PollForEver(q) ==
  \/ request' = Load([q EXCEPT !.confirmed = 0])
  \/ request' = IF q.note \in ToSet(q.leaves)
                  THEN [q EXCEPT !.stage = "proving", !.attempt = 1]
                  ELSE Failed

\* The end of a round of a poll.  The deadline may have passed: then a payment's
\* note was not found, and a withdrawal goes on if its note was.
NextRound(q) ==
  \/ /\ q.polls + 1 < MaxPolls
     /\ request' = Load([q EXCEPT !.polls = @ + 1, !.confirmed = 0])
  \/ request' = IF q.note \in ToSet(q.leaves)
                  THEN [q EXCEPT !.stage = "proving", !.attempt = 1]
                  ELSE Failed

\* The note is not among the leaves; "Commitment disappeared from pool".
SeeNoNote ==
  /\ Loaded /\ Spending /\ ~Found
  /\ IF request.attempt = 0 THEN NextRound(request) ELSE request' = Failed
  /\ UNCHANGED poolVars

\* computeMerklePath, which throws when there are more leaves than the tree has.
SeeNote ==
  /\ Loaded /\ Spending /\ Found
  /\ request' = IF ~Fits(request.leaves)
                  THEN Failed
                  ELSE [request EXCEPT !.stage = IF request.attempt = 0
                                                   THEN "checking" ELSE "proving"]
  /\ UNCHANGED poolVars

\* assertRootMatchesChain reads the root and lets everything pass.
ProveTransfer ==
  /\ At("checking") /\ request.kind = "transfer"
  /\ Answer(request)
  /\ UNCHANGED poolVars

\* /api/prove/withdraw, phase 1: the root matches once, and then twice more.
CheckRoot ==
  /\ At("checking") /\ request.kind = "withdraw"
  /\ \E answer \in RootAnswers :
       IF answer # TreeRoot(request.leaves)
         THEN NextRound(request)
         ELSE request' = [request EXCEPT !.stage = "confirming"]
  /\ UNCHANGED poolVars

ConfirmRoot ==
  /\ At("confirming")
  /\ \E answer \in RootAnswers :
       IF answer # TreeRoot(request.leaves)
         THEN NextRound(request)
         ELSE request' = IF request.confirmed = 0
                           THEN [request EXCEPT !.confirmed = 1]
                           ELSE [request EXCEPT !.stage = "proving", !.attempt = 1]
  /\ UNCHANGED poolVars

\* Mutant: the attempts are not counted.
RetryForEver ==
  /\ At("proving")
  /\ \E answer \in RootAnswers :
       IF answer = ProofRoot(request) THEN Answer(request) ELSE request' = Load(request)
  /\ UNCHANGED poolVars

\* Phase 2: the root is read again once the values are computed.
PostProofCheck ==
  /\ At("proving")
  /\ \E answer \in RootAnswers :
       CASE answer = ProofRoot(request)    -> Answer(request)
         [] answer # ProofRoot(request) /\ request.attempt = MaxAttempts -> request' = Failed
         [] answer # ProofRoot(request) /\ request.attempt # MaxAttempts ->
              request' = Load([request EXCEPT !.attempt = @ + 1])
  /\ UNCHANGED poolVars

\* A read that throws, or the circuit's tools failing: status 500.
Throw ==
  /\ request.stage \notin Ended
  /\ request' = Failed
  /\ UNCHANGED poolVars

-----------------------------------------------------------------------------

\* The pool is deployed with the root zero.
Init ==
  /\ commitments = <<>>
  /\ root = Zero
  /\ oldRoot = Zero
  /\ request = Idle

\* What the handler does next.
Handle ==
  \/ \E n \in 0 .. Len(commitments) : ReadCount(n)
  \/ ReadCommitment
  \/ SignDeposit
  \/ SeeNoNote
  \/ SeeNote
  \/ ProveTransfer
  \/ CheckRoot
  \/ ConfirmRoot
  \/ PostProofCheck

Pool ==
  \E n \in 0 .. Len(commitments) : \E reading \in Readings(n) :
    \/ \E c \in Commitments : Insert(c, reading)
    \/ \E a, b \in Commitments : InsertTwo(a, b, reading)
    \/ Overwrite(reading)

Next ==
  \/ \E kind \in Kinds, note \in Commitments : Start(kind, note)
  \/ Handle
  \/ Throw
  \/ Pool

\* An RPC call returns or throws, and the tools that are run terminate.
Spec == Init /\ [][Next]_vars /\ WF_vars(Handle)

-----------------------------------------------------------------------------
(***************************************************************************)
(* Properties.                                                             *)
(***************************************************************************)

Leaves == Seq(Commitments \cup {Zero})

\* The variables have their types, and a request stays within its bounds.
TypeOK ==
  /\ commitments \in Seq(Commitments)
  /\ \/ request.stage \in {"idle", "failed"}
     \/ /\ request.kind \in Kinds
        /\ request.note \in Commitments
        /\ request.stage \in {"counting", "loading", "checking", "confirming",
                              "proving", "done"}
        /\ request.leaves \in Leaves
        /\ request.count \in 0 .. Len(commitments)
        /\ Len(request.leaves) <= request.count
        /\ request.polls < MaxPolls
        /\ request.confirmed \in 0 .. 1
        /\ request.attempt \in 0 .. MaxAttempts

\* The tree builder and the spend circuit agree: whatever leaves were read, gaps
\* included, the path of each of them leads up to the root of them all.
PathsLeadToTheRoot ==
  request.stage \notin {"idle", "failed"} /\ Fits(request.leaves) =>
    \A i \in 0 .. Len(request.leaves) - 1 :
      compute_merkle_root(request.leaves[i + 1], i, MerklePath(request.leaves, i))
        = TreeRoot(request.leaves)

\* Leaves that a request could not read are taken for zero, its count and the roots it
\* sees may be old, and so it was for the roots that the pool has stored.  All the same,
\* if the pool would accept the spend (its proof is against the stored root,
\* lib.rs:363), the signed root has the outputs at the very places where the pool will
\* put them, after all of its leaves, and misses no leaf that the stored root has.
SpendsExtendTheRoot ==
  At("done") /\ Spending /\ TreeRoot(request.leaves) = root =>
    \E s \in Readings(Len(commitments)) :
      root = TreeRoot(s) /\ request.newRoot = TreeRoot(s \o NewLeaves(request))

\* The times the leaves may still be loaded after now, and what is left of this
\* time: the count, the leaves, the search, the root three times.
RoundsLeft(q) ==
  IF q.attempt = 0 THEN MaxPolls - q.polls + MaxAttempts ELSE MaxAttempts - q.attempt

StepsOfRound == Width + 6

LeftOfRound(q) ==
  CASE q.stage = "counting"   -> Width + 5
    [] q.stage = "loading"    -> q.count - Len(q.leaves) + 4
    [] q.stage = "checking"   -> 3
    [] q.stage = "confirming" -> 2 - q.confirmed
    [] q.stage = "proving"    -> 1

StepsLeft(q) ==
  IF q.stage \in Ended THEN 0 ELSE RoundsLeft(q) * StepsOfRound + LeftOfRound(q)

MaxSteps == (MaxPolls + MaxAttempts + 1) * StepsOfRound

\* Each step of a request, whatever it reads and whichever of its two loops it is
\* in, takes it closer to its answer, and nothing that lands in the pool takes it
\* further away, although the pool may grow under every round: it is answered, or
\* fails, within MaxSteps reads.
RequestGetsOn ==
  [][LET left == StepsLeft(request)  leftNow == StepsLeft(request') IN
       /\ left <= MaxSteps
       /\ Handle => leftNow < left
       /\ request.stage \notin Ended => left > 0 /\ leftNow <= left]_vars

\* Every request is answered, however the pool moves and the roots drift.
RequestsEnd == request.stage \notin Ended ~> request.stage \in Ended
=============================================================================
