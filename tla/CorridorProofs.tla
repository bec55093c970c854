---------------------------- MODULE CorridorProofs ----------------------------
(***************************************************************************)
(* That the corridor keeps its promises with any number of wallets,        *)
(* handlers and amounts.                                                   *)
(*                                                                         *)
(* Everything rests on the freshness of notes.  Draw gives a blinding      *)
(* factor once, so the outputs of a call are outputs of no other call that *)
(* may land and not on the chain (Apart, Drawn).  A deposit and a transfer *)
(* therefore store a root with a note in it that the leaves never had at   *)
(* that place, and withdraw() one whose last leaves are never inserted:    *)
(* the root of the pool can be ahead of the leaves or beside them, but it  *)
(* is none that the leaves had before (RootOk).  A spend that was proved   *)
(* from earlier leaves is accepted only if the pool's root is the root of  *)
(* those, and so only if they are the leaves of now: the note it spends is *)
(* on the chain, its outputs are worth as much, and the wallets' picture   *)
(* of the chain stays true.  A call knows all that when it is made, and    *)
(* the leaves only grow (CallOk, Prefix).                                  *)
(*                                                                         *)
(* With this a call that lands is a step of NotePool, and any other step   *)
(* leaves the pool alone.                                                  *)
(***************************************************************************)
EXTENDS Corridor, Recursion

\* Outputs of a call: the notes that are new in its root.
Outs(c) ==
  IF c.kind = "deposit" THEN {c.note_commitment}
                        ELSE {c.shielded.new_commitment_1, c.shielded.new_commitment_2}

\* The calls have no output in common.
Disjoint(c, d) == \A n \in Outs(c) : n \notin Outs(d)

\* The notes that can have been drawn so far.
Drawn(nb) == [owner : Wallets, value : 0 .. MaxAmount, blinding : 0 .. nb - 1]

\* The leaves s became t by insertions only, or not at all.
Prefix(s, t) == Len(s) <= Len(t) /\ \A i \in 1 .. Len(s) : s[i] = t[i]

\* A call that has been made from earlier leaves, C being the leaves of now.
CallOk(C, nb, c) ==
  /\ c \in Call
  /\ Outs(c) \subseteq Drawn(nb)
  /\ c.kind = "deposit" =>
       /\ c.note_commitment.value = c.amount
       /\ Len(c.new_root) > 0 /\ c.new_root[Len(c.new_root)] = c.note_commitment
  /\ c.kind # "deposit" =>
       /\ Len(c.new_root) > 1
       /\ c.new_root[Len(c.new_root) - 1] = c.shielded.new_commitment_1
       /\ Prefix(c.shielded.merkle_root, C)
       /\ c.spend_nullifier \in ToSet(C)
  /\ c.kind = "transfer" =>
       /\ c.new_commitment_1 = c.shielded.new_commitment_1
       /\ c.new_commitment_2 = c.shielded.new_commitment_2
       /\ c.new_commitment_1 # c.new_commitment_2
       /\ c.new_commitment_1.value + c.new_commitment_2.value = c.spend_nullifier.value
  /\ c.kind = "withdraw" => c.amount = c.spend_nullifier.value

\* What a call that landed has done.
LandedOk(C, spent, c) ==
  /\ c.kind = "deposit" => c.note_commitment \in ToSet(C)
  /\ c.kind = "transfer" => c.new_commitment_1 \in ToSet(C)
  /\ c.kind # "deposit" => c.spend_nullifier \in spent

\* What a handler knows at its stage.
JobOk(C, spent, nb, j, q) ==
  /\ q.stage = "loaded" =>
       WalletOf[j] \in Recipients /\ Prefix(q.leaves, C) /\ q.note \in ToSet(C)
  /\ q.stage = "proved" => CallOk(C, nb, q.call)
  /\ q.stage = "landed" => LandedOk(C, spent, q.call)

JobsOk == \A j \in Jobs : JobOk(commitments, spendNullifiers, nextBlinding, j, job[j])

\* What is known of the transactions that the network carries.
FlightOk == \A c \in inFlight : CallOk(commitments, nextBlinding, c)

\* The pool's root is not one that the leaves had before.
RootOk == root \in Seq(Note) /\ Prefix(root, commitments) => root = commitments

\* What is on the chain was drawn, and what is spent is on the chain.
ChainOk ==
  /\ OnChain \subseteq Drawn(nextBlinding)
  /\ spendNullifiers \subseteq OnChain
  /\ RootOk

\* No note is an output of two calls that may still land, or of one that has.
Apart ==
  /\ \A c, d \in inFlight : c # d => Disjoint(c, d)
  /\ \A j \in Jobs, d \in inFlight : At(j, "proved") => Disjoint(job[j].call, d)
  /\ \A j, k \in Jobs :
       j # k /\ At(j, "proved") /\ At(k, "proved") => Disjoint(job[j].call, job[k].call)
  /\ \A c \in inFlight : \A n \in Outs(c) : n \notin OnChain
  /\ \A j \in Jobs : At(j, "proved") => \A n \in Outs(job[j].call) : n \notin OnChain

\* An attestation is about the wallet whose name it has.
OwnUids == \A w \in Senders \cup Recipients : attestations[w].subject = w

\* The inductive invariant.
IInv == TypeOK /\ OwnUids /\ ChainOk /\ WalletsAgreeWithChain /\ JobsOk /\ FlightOk /\ Apart

-----------------------------------------------------------------------------

\* The set of the elements of a sequence.
LEMMA SetOfSeq ==
  ASSUME NEW S, NEW s \in Seq(S)
  PROVE  /\ Len(s) \in Nat
         /\ ToSet(s) \subseteq S
         /\ \A n : n \in ToSet(s) <=> \E i \in 1 .. Len(s) : s[i] = n
  BY LenProperties DEF ToSet

\* Leaves that only grew, grew since earlier moments too.
LEMMA PrefixGrows ==
  ASSUME NEW S, NEW s, Len(s) \in Nat, NEW t \in Seq(S), NEW u \in Seq(S), Prefix(s, t), Prefix(t, u)
  PROVE  Prefix(s, u)
  BY LenProperties DEF Prefix

\* No leaf is lost.
LEMMA PrefixIsSubset ==
  ASSUME NEW S, NEW s \in Seq(S), NEW t \in Seq(S), Prefix(s, t)
  PROVE  ToSet(s) \subseteq ToSet(t)
<1>1. Len(s) \in Nat /\ Len(t) \in Nat
  BY LenProperties
<1> QED
  BY <1>1, SetOfSeq DEF Prefix

\* Nothing inserted is no change.
LEMMA PrefixOfItself == ASSUME NEW S, NEW s \in Seq(S) PROVE Prefix(s, s)
  BY LenProperties DEF Prefix

\* A prefix of the same length is the whole.
LEMMA PrefixOfSameLength ==
  ASSUME NEW S, NEW s \in Seq(S), NEW t \in Seq(S), Prefix(s, t), Len(s) = Len(t)
  PROVE  s = t
  BY SeqEqual DEF Prefix

\* The leaves after a transfer, or after the outputs of a withdrawal.
LEMMA TwoMore ==
  ASSUME NEW S, NEW s \in Seq(S), NEW a \in S, NEW b \in S
  PROVE  /\ s \o <<a, b>> \in Seq(S)
         /\ Len(s \o <<a, b>>) = Len(s) + 2
         /\ (s \o <<a, b>>)[Len(s) + 1] = a
         /\ (s \o <<a, b>>)[Len(s) + 2] = b
         /\ Prefix(s, s \o <<a, b>>)
         /\ ToSet(s \o <<a, b>>) = ToSet(s) \cup {a, b}
<1> DEFINE t == s \o <<a, b>>
<1>1. <<a, b>> \in Seq(S) /\ Len(<<a, b>>) = 2
  OBVIOUS
<1>2. /\ t \in Seq(S) /\ Len(t) = Len(s) + 2 /\ t[Len(s) + 1] = a /\ t[Len(s) + 2] = b
      /\ \A i \in 1 .. Len(s) : t[i] = s[i]
  BY <1>1, ConcatProperties, LenProperties
<1> HIDE DEF t
<1>3. Len(s) \in Nat
  BY LenProperties
<1>4. Prefix(s, t)
  BY <1>2, <1>3 DEF Prefix
<1>5. ToSet(t) = ToSet(s) \cup {a, b}
  <2>1. \A i \in 1 .. Len(t) : i \in 1 .. Len(s) \/ i = Len(s) + 1 \/ i = Len(s) + 2
    BY <1>2, <1>3
  <2> QED
    BY <1>2, <1>3, <2>1, SetOfSeq
<1> QED
  BY <1>2, <1>4, <1>5 DEF t

\* The leaves after a deposit.
LEMMA OneMore ==
  ASSUME NEW S, NEW s \in Seq(S), NEW a \in S
  PROVE  /\ s \o <<a>> \in Seq(S)
         /\ s \o <<a>> = Append(s, a)
         /\ Len(s \o <<a>>) = Len(s) + 1
         /\ (s \o <<a>>)[Len(s) + 1] = a
         /\ Prefix(s, s \o <<a>>)
         /\ ToSet(s \o <<a>>) = ToSet(s) \cup {a}
<1> DEFINE t == s \o <<a>>
<1>1. <<a>> \in Seq(S) /\ Len(<<a>>) = 1
  OBVIOUS
<1>2. /\ t \in Seq(S) /\ Len(t) = Len(s) + 1 /\ t[Len(s) + 1] = a
      /\ \A i \in 1 .. Len(s) : t[i] = s[i]
  BY <1>1, ConcatProperties, LenProperties
<1>a. t = Append(s, a)
  BY AppendIsConcat
<1> HIDE DEF t
<1>3. Len(s) \in Nat
  BY LenProperties
<1>4. Prefix(s, t)
  BY <1>2, <1>3 DEF Prefix
<1>5. ToSet(t) = ToSet(s) \cup {a}
  <2>1. \A i \in 1 .. Len(t) : i \in 1 .. Len(s) \/ i = Len(s) + 1
    BY <1>2, <1>3
  <2> QED
    BY <1>2, <1>3, <2>1, SetOfSeq
<1> QED
  BY <1>2, <1>a, <1>4, <1>5 DEF t

-----------------------------------------------------------------------------

\* The fields of a call by its kind.
LEMMA CallKinds ==
  ASSUME NEW c \in Call
  PROVE  /\ c.kind \in {"deposit", "transfer", "withdraw"}
         /\ c.kind = "deposit" => c \in DepositCall
         /\ c.kind = "transfer" => c \in TransferCall
         /\ c.kind = "withdraw" => c \in WithdrawCall
         /\ c.new_root \in Seq(Note) /\ c.caller \in Wallets
         /\ c.kind # "deposit" =>
              /\ c.shielded.merkle_root \in Seq(Note) /\ c.spend_nullifier \in Note
              /\ c.shielded.new_commitment_1 \in Note /\ c.shielded.new_commitment_2 \in Note
         /\ c.kind = "transfer" => c.new_commitment_1 \in Note /\ c.new_commitment_2 \in Note
  BY CorridorAssumption
     DEF Call, DepositCall, TransferCall, WithdrawCall, SpendProof, CorridorAssumption

\* The jobs that have loaded the leaves, and those that have a call.
Loaded == [stage : {"loaded"}, note : Note, leaves : Seq(Note)]
Calling == [stage : {"proved", "submitted", "landed"}, call : Call]

\* A job by its stage.
LEMMA JobKinds ==
  ASSUME NEW q \in Job
  PROVE  /\ q.stage \in {"idle", "loaded", "proved", "submitted", "landed"}
         /\ q.stage = "loaded" => q \in Loaded
         /\ q.stage \in {"proved", "submitted", "landed"} => q \in Calling /\ q.call \in Call
<1>1. q = Idle \/ q \in Loaded \/ q \in Calling
  BY DEF Job, Loaded, Calling
<1>2. CASE q = Idle
  BY <1>2 DEF Idle
<1>3. CASE q \in Loaded
  BY <1>3 DEF Loaded
<1>4. CASE q \in Calling
  BY <1>4 DEF Calling
<1> QED
  BY <1>1, <1>2, <1>3, <1>4

\* Notes that were drawn stay drawn.
LEMMA DrawnGrows ==
  ASSUME NEW m \in Nat, NEW n \in Nat, m <= n
  PROVE  Drawn(m) \subseteq Drawn(n) /\ Drawn(n) \subseteq Note
<1>1. 0 .. m - 1 \subseteq 0 .. n - 1 /\ 0 .. n - 1 \subseteq Nat /\ 0 .. MaxAmount \subseteq Nat
  BY CorridorAssumption DEF CorridorAssumption
<1> QED
  BY <1>1 DEF Drawn, Note

\* A call stays in order while leaves are inserted and factors drawn.
LEMMA CallStaysOk ==
  ASSUME NEW C \in Seq(Note), NEW C2 \in Seq(Note), Prefix(C, C2),
         NEW nb \in Nat, NEW nb2 \in Nat, nb <= nb2, NEW c, CallOk(C, nb, c)
  PROVE  CallOk(C2, nb2, c)
<1>1. Outs(c) \subseteq Drawn(nb2)
  BY DrawnGrows DEF CallOk
<1>2. c.kind # "deposit" => Prefix(c.shielded.merkle_root, C2)
  BY CallKinds, PrefixGrows, LenProperties DEF CallOk
<1>3. ToSet(C) \subseteq ToSet(C2)
  BY PrefixIsSubset
<1> QED
  BY <1>1, <1>2, <1>3 DEF CallOk

\* So does a job.
LEMMA JobStaysOk ==
  ASSUME NEW C \in Seq(Note), NEW C2 \in Seq(Note), Prefix(C, C2),
         NEW nb \in Nat, NEW nb2 \in Nat, nb <= nb2, NEW spent, NEW spent2, spent \subseteq spent2,
         NEW j, NEW q \in Job, JobOk(C, spent, nb, j, q)
  PROVE  JobOk(C2, spent2, nb2, j, q)
<1>1. ToSet(C) \subseteq ToSet(C2)
  BY PrefixIsSubset
<1>2. CASE q.stage = "loaded"
  <2>1. Prefix(q.leaves, C2)
    BY <1>2, JobKinds, PrefixGrows, LenProperties DEF JobOk, Loaded
  <2> QED
    BY <1>1, <1>2, <2>1 DEF JobOk
<1>3. CASE q.stage = "proved"
  BY <1>3, CallStaysOk DEF JobOk
<1>4. CASE q.stage = "landed"
  BY <1>1, <1>4 DEF JobOk, LandedOk
<1> QED
  BY <1>2, <1>3, <1>4 DEF JobOk

\* A client's step: one job moves on, and notes are drawn only for the call it has now.
LEMMA ClientStep ==
  ASSUME IInv, NEW j \in Jobs, NEW new \in Job, SetJob(j, new),
         nextBlinding' \in Nat, nextBlinding <= nextBlinding', nextBlinding' <= MaxBlindings,
         JobOk(commitments, spendNullifiers, nextBlinding', j, new),
         new.stage = "proved" => \A n \in Outs(new.call) : n.blinding >= nextBlinding,
         UNCHANGED <<root, commitments, spendNullifiers, tokens, attestations, inFlight>>,
         saved' \in [Wallets -> SUBSET Note], markedSpent' \in [Wallets -> SUBSET Note],
         receipts' \subseteq Note, WalletsAgreeWithChain'
  PROVE  IInv'
<1>1. /\ commitments \in Seq(Note) /\ nextBlinding \in Nat
      /\ job \in [Jobs -> Job] /\ job' \in [Jobs -> Job]
      /\ job'[j] = new /\ \A k \in Jobs : k # j => job'[k] = job[k]
  BY CorridorAssumption DEF IInv, TypeOK, SetJob, CorridorAssumption
<1>2. Prefix(commitments, commitments)
  BY <1>1, PrefixOfItself
<1>3. TypeOK'
  <2>1. nextBlinding' \in 0 .. MaxBlindings
    OBVIOUS
  <2> QED
    BY <1>1, <2>1 DEF IInv, TypeOK
<1>4. ChainOk'
  BY <1>1, DrawnGrows DEF IInv, ChainOk, RootOk, OnChain
<1>5. JobsOk'
  <2> SUFFICES ASSUME NEW k \in Jobs
               PROVE  JobOk(commitments, spendNullifiers, nextBlinding', k, job'[k])
    BY DEF JobsOk
  <2>1. CASE k = j
    BY <1>1, <2>1
  <2>2. CASE k # j
    <3>1. JobOk(commitments, spendNullifiers, nextBlinding, k, job[k]) /\ job[k] \in Job
      BY <1>1 DEF IInv, JobsOk
    <3> QED
      BY <1>1, <1>2, <2>2, <3>1, JobStaysOk
  <2> QED
    BY <2>1, <2>2
<1>6. FlightOk'
  BY <1>1, <1>2, CallStaysOk DEF IInv, FlightOk
<1>7. Apart'
  <2>1. ASSUME new.stage = "proved", NEW n \in Outs(new.call)
        PROVE  /\ n \notin OnChain
               /\ \A d \in inFlight : n \notin Outs(d)
               /\ \A k \in Jobs : At(k, "proved") => n \notin Outs(job[k].call)
    <3>1. n \notin Drawn(nextBlinding)
      BY <1>1, <2>1 DEF Drawn
    <3> QED
      BY <3>1 DEF IInv, ChainOk, FlightOk, JobsOk, JobOk, CallOk, At
  <2>2. OnChain' = OnChain
    BY DEF OnChain
  <2>3. /\ \A k \in Jobs, d \in inFlight : At(k, "proved")' => Disjoint(job'[k].call, d)
        /\ \A k \in Jobs : At(k, "proved")' => \A n \in Outs(job'[k].call) : n \notin OnChain
    BY <1>1, <2>1 DEF IInv, Apart, At, Disjoint
  <2>4. \A k, l \in Jobs : k # l /\ At(k, "proved")' /\ At(l, "proved")' =>
          Disjoint(job'[k].call, job'[l].call)
    BY <1>1, <2>1 DEF IInv, Apart, At, Disjoint
  <2> QED
    BY <2>2, <2>3, <2>4 DEF IInv, Apart
<1> QED
  BY <1>3, <1>4, <1>5, <1>6, <1>7 DEF IInv, OwnUids

\* The wallets agree with the chain as long as neither changes.
LEMMA WalletsAlone ==
  ASSUME IInv, UNCHANGED <<commitments, spendNullifiers, clientVars>>
  PROVE  /\ saved' \in [Wallets -> SUBSET Note] /\ markedSpent' \in [Wallets -> SUBSET Note]
         /\ receipts' \subseteq Note /\ WalletsAgreeWithChain'
  BY DEF IInv, TypeOK, WalletsAgreeWithChain, clientVars, OnChain

\* The compliance proofs of the wallets.
OwnCompliance(x, A) ==
  [merkle_root : {InitialRegistryRoot}, amount : A,
   compliance_nullifier : {Salt[x]} \X Wallets \X A, uid : Wallets, valid : {TRUE}]

\* What a proof says.
LEMMA ComplianceProofIs ==
  ASSUME NEW x, NEW S, NEW a \in S, NEW t \in {Salt[x]} \X Wallets \X S, NEW w \in Wallets
  PROVE  ComplianceProofFor(w, a, t) \in OwnCompliance(x, S)
  BY DEF ComplianceProofFor, generateProof, OwnCompliance

\* What a spend proof says.
LEMMA ShieldedProofIs ==
  ASSUME NEW S, NEW amount \in S, NEW leaves \in Seq(Note), NEW note \in Note,
         NEW a \in Note, NEW b \in Note
  PROVE  ShieldedProofFor(leaves, note, a, b, amount) \in SpendProof(S)
  BY DEF ShieldedProofFor, generateProof, SpendProof

LEMMA ShieldedProofSays ==
  ASSUME NEW amount, NEW leaves, NEW note, NEW a, NEW b
  PROVE  LET proof == ShieldedProofFor(leaves, note, a, b, amount)
         IN  /\ proof.merkle_root = leaves /\ proof.nullifier_hash = note
             /\ proof.new_commitment_1 = a /\ proof.new_commitment_2 = b
  BY DEF ShieldedProofFor, generateProof

\* A handler that ends leaves the invariant true.
LEMMA BackToIdle ==
  ASSUME IInv, NEW j \in Jobs, SetJob(j, Idle),
         UNCHANGED <<root, commitments, spendNullifiers, tokens, attestations, inFlight, nextBlinding>>,
         saved' \in [Wallets -> SUBSET Note], markedSpent' \in [Wallets -> SUBSET Note],
         receipts' \subseteq Note, WalletsAgreeWithChain'
  PROVE  IInv'
<1>1. Idle \in Job /\ Idle.stage = "idle"
  BY DEF Job, Idle
<1>2. JobOk(commitments, spendNullifiers, nextBlinding, j, Idle)
  BY <1>1 DEF JobOk
<1>3. nextBlinding \in Nat /\ nextBlinding <= MaxBlindings
  BY CorridorAssumption DEF IInv, TypeOK, CorridorAssumption
<1> HIDE DEF Idle
<1> QED
  BY <1>1, <1>2, <1>3, ClientStep

-----------------------------------------------------------------------------

\* The blinding factors that Draw gives.
LEMMA Drawing ==
  ASSUME IInv, NEW k \in Nat, Draw(k)
  PROVE  /\ nextBlinding \in Nat /\ nextBlinding' = nextBlinding + k
         /\ nextBlinding' \in Nat /\ nextBlinding <= nextBlinding' /\ nextBlinding' <= MaxBlindings
  BY CorridorAssumption DEF IInv, TypeOK, Draw, CorridorAssumption

\* /api/prove/deposit keeps the invariant: the note is fresh.
LEMMA ProveDepositStep ==
  ASSUME IInv, NEW j \in Jobs, WalletOf[j] \in Senders, NEW amount \in Amounts,
         ProveDeposit(j, amount)
  PROVE  IInv'
<1> DEFINE w == WalletOf[j]
           note == NewNote(w, amount, nextBlinding)
           newRoot == Append(commitments, note)
           call == DepositTx(w, amount, note, newRoot)
           new == Proved(call)
<1>1. /\ Provable(amount) /\ Draw(1) /\ SetJob(j, new)
      /\ UNCHANGED <<root, commitments, spendNullifiers, tokens, attestations, inFlight, clientVars>>
  BY DEF ProveDeposit, SignRoot, poolVars
<1>2. /\ nextBlinding \in Nat /\ nextBlinding' = nextBlinding + 1
      /\ nextBlinding' \in Nat /\ nextBlinding <= nextBlinding' /\ nextBlinding' <= MaxBlindings
  BY <1>1, Drawing
<1>3. w \in Wallets /\ w \in Senders /\ amount \in Nat /\ amount \in 0 .. MaxAmount
  BY <1>1, CorridorAssumption DEF CorridorAssumption, Provable
<1>4. /\ note \in Note /\ note \in Drawn(nextBlinding')
      /\ note.value = amount /\ note.blinding = nextBlinding
  <2>1. nextBlinding \in 0 .. nextBlinding' - 1
    BY <1>2
  <2> QED
    BY <1>2, <1>3, <2>1 DEF NewNote, Note, Drawn
<1> HIDE DEF note
<1>5. newRoot \in Seq(Note) /\ Len(newRoot) > 0 /\ newRoot[Len(newRoot)] = note
  <2>1. commitments \in Seq(Note)
    BY DEF IInv, TypeOK
  <2> QED
    BY <1>4, <2>1, AppendProperties, LenProperties
<1> HIDE DEF newRoot
<1>6. call \in DepositCall
  <2> DEFINE Tuples == {Salt["send"]} \X Wallets \X Amounts
             t      == ComplianceNullifier("send", w, amount)
             p      == ComplianceProofFor(w, amount, t)
  <2>1. t \in Tuples
    BY <1>3 DEF ComplianceNullifier
  <2>2. p \in OwnCompliance("send", Amounts)
    BY <1>3, <2>1, ComplianceProofIs
  <2>3. call = [kind |-> "deposit", caller |-> w, amount |-> amount,
                note_commitment |-> note, new_root |-> newRoot, compliance_nullifier |-> t,
                compliance |-> p, uid |-> w]
    BY DEF DepositTx
  <2>4. DepositCall =
          [kind : {"deposit"}, caller : Senders, amount : Amounts, note_commitment : Note,
           new_root : Seq(Note), compliance_nullifier : Tuples,
           compliance : OwnCompliance("send", Amounts), uid : Wallets]
    BY DEF DepositCall, OwnCompliance
  <2> HIDE DEF t, p, Tuples, call
  <2> QED
    BY <1>3, <1>4, <1>5, <2>1, <2>2, <2>3, <2>4
<1>7. call.kind = "deposit" /\ call.note_commitment = note /\ call.amount = amount
      /\ call.new_root = newRoot
  BY DEF DepositTx
<1> HIDE DEF call
<1>8. /\ new \in Job /\ new.stage = "proved" /\ new.call = call
  BY <1>6 DEF Proved, Job, Call
<1>9. CallOk(commitments, nextBlinding', call)
  BY <1>4, <1>5, <1>6, <1>7 DEF CallOk, Outs, Call
<1> HIDE DEF new
<1>10. JobOk(commitments, spendNullifiers, nextBlinding', j, new)
  BY <1>8, <1>9 DEF JobOk
<1>11. \A n \in Outs(new.call) : n.blinding >= nextBlinding
  BY <1>2, <1>4, <1>7, <1>8 DEF Outs
<1> QED
  BY <1>1, <1>2, <1>8, <1>10, <1>11, WalletsAlone, ClientStep

\* A note that a wallet stores is on the chain and was drawn before.
LEMMA StoredNote ==
  ASSUME IInv, NEW w \in Wallets, NEW note \in saved[w]
  PROVE  note \in OnChain /\ note \in Note /\ note \in Drawn(nextBlinding)
  BY DEF IInv, TypeOK, WalletsAgreeWithChain, ChainOk

\* /api/prove/transfer keeps the invariant: both outputs are fresh and worth the note.
LEMMA ProveTransferStep ==
  ASSUME IInv, NEW j \in Jobs, NEW note \in saved[WalletOf[j]], NEW to \in Recipients,
         NEW amount \in PaidAmounts, ProveTransfer(j, note, to, amount)
  PROVE  IInv'
<1> DEFINE w == WalletOf[j]
           paid == NewNote(to, amount, nextBlinding)
           change == NewNote(note.owner, note.value - amount, nextBlinding + 1)
           newRoot == commitments \o <<paid, change>>
           proof == ShieldedProofFor(commitments, note, paid, change, 0)
           call == TransferTx(w, newRoot, proof)
           new == Proved(call)
<1>1. /\ Covers(note, amount) /\ Draw(2) /\ SetJob(j, new)
      /\ UNCHANGED <<root, commitments, spendNullifiers, tokens, attestations, inFlight, clientVars>>
  BY DEF ProveTransfer, SignRoot, poolVars
<1>2. /\ nextBlinding \in Nat /\ nextBlinding' = nextBlinding + 2
      /\ nextBlinding' \in Nat /\ nextBlinding <= nextBlinding' /\ nextBlinding' <= MaxBlindings
  BY <1>1, Drawing
<1>3. w \in Wallets /\ to \in Wallets /\ amount \in Nat
  BY CorridorAssumption DEF CorridorAssumption
<1>4. /\ note \in OnChain /\ note \in Note /\ note \in Drawn(nextBlinding)
      /\ note.owner \in Wallets /\ note.value \in 0 .. MaxAmount
  BY <1>3, StoredNote DEF Drawn
<1>5. amount \in 0 .. MaxAmount /\ note.value - amount \in 0 .. MaxAmount
  BY <1>1, <1>3, <1>4, CorridorAssumption DEF Covers, CorridorAssumption
<1>6. /\ paid \in Note /\ paid \in Drawn(nextBlinding')
      /\ change \in Note /\ change \in Drawn(nextBlinding')
      /\ paid.value = amount /\ change.value = note.value - amount
      /\ paid.blinding = nextBlinding /\ change.blinding = nextBlinding + 1
  <2>1. nextBlinding \in 0 .. nextBlinding' - 1 /\ nextBlinding + 1 \in 0 .. nextBlinding' - 1
    BY <1>2
  <2>2. paid \in Drawn(nextBlinding') /\ change \in Drawn(nextBlinding')
    BY <1>3, <1>4, <1>5, <2>1 DEF NewNote, Drawn
  <2> QED
    BY <1>2, <2>2, DrawnGrows DEF NewNote
<1> HIDE DEF paid, change
<1>7. /\ newRoot \in Seq(Note) /\ Len(newRoot) > 1 /\ newRoot[Len(newRoot) - 1] = paid
      /\ commitments \in Seq(Note)
  <2>1. commitments \in Seq(Note) /\ Len(commitments) \in Nat
    BY LenProperties DEF IInv, TypeOK
  <2> QED
    BY <1>6, <2>1, TwoMore
<1> HIDE DEF newRoot
<1>8. proof \in SpendProof({0})
  <2> DEFINE A == {0}
             x == 0
  <2>1. x \in A
    OBVIOUS
  <2> HIDE DEF A, x
  <2>2. ShieldedProofFor(commitments, note, paid, change, x) \in SpendProof(A)
    BY <1>4, <1>6, <1>7, <2>1, ShieldedProofIs
  <2> QED
    BY <2>2 DEF A, x
<1>a. /\ proof.merkle_root = commitments /\ proof.nullifier_hash = note
      /\ proof.new_commitment_1 = paid /\ proof.new_commitment_2 = change
  BY ShieldedProofSays
<1> HIDE DEF proof
<1>9. call \in TransferCall
  BY <1>3, <1>4, <1>6, <1>7, <1>8, <1>a DEF TransferTx, TransferCall
<1>10. /\ call.kind = "transfer" /\ call.spend_nullifier = note /\ call.new_root = newRoot
       /\ call.new_commitment_1 = paid /\ call.new_commitment_2 = change
       /\ call.shielded = proof
  BY <1>8, <1>a DEF TransferTx
<1> HIDE DEF call
<1>11. /\ new \in Job /\ new.stage = "proved" /\ new.call = call
  BY <1>9 DEF Proved, Job, Call
<1>12. CallOk(commitments, nextBlinding', call)
  <2>1. Outs(call) = {paid, change}
    BY <1>8, <1>a, <1>10 DEF Outs
  <2>2. Prefix(call.shielded.merkle_root, commitments)
    BY <1>7, <1>a, <1>10, PrefixOfItself
  <2>3. paid # change /\ paid.value + change.value = note.value
    BY <1>2, <1>3, <1>4, <1>6
  <2> QED
    BY <1>4, <1>6, <1>7, <1>a, <1>9, <1>10, <2>1, <2>2, <2>3 DEF CallOk, Call, OnChain
<1> HIDE DEF new
<1>13. JobOk(commitments, spendNullifiers, nextBlinding', j, new)
  BY <1>11, <1>12 DEF JobOk
<1>14. \A n \in Outs(new.call) : n.blinding >= nextBlinding
  BY <1>2, <1>6, <1>8, <1>a, <1>10, <1>11 DEF Outs
<1> QED
  BY <1>1, <1>2, <1>11, <1>13, <1>14, WalletsAlone, ClientStep

\* /api/prove/withdraw keeps the invariant while it looks for the note,
LEMMA LoadLeavesStep ==
  ASSUME IInv, NEW j \in Jobs, WalletOf[j] \in Recipients, NEW note \in saved[WalletOf[j]],
         LoadLeaves(j, note)
  PROVE  IInv'
<1> DEFINE new == [stage |-> "loaded", note |-> note, leaves |-> commitments]
<1>1. /\ SetJob(j, new)
      /\ UNCHANGED <<root, commitments, spendNullifiers, tokens, attestations, inFlight, clientVars,
                     nextBlinding>>
  BY DEF LoadLeaves, contractVars, poolVars, envVars
<1>2. note \in OnChain /\ note \in Note /\ commitments \in Seq(Note)
  BY StoredNote, CorridorAssumption DEF CorridorAssumption, IInv, TypeOK
<1>3. new \in Job
  BY <1>2 DEF Job
<1>4. JobOk(commitments, spendNullifiers, nextBlinding, j, new)
  BY <1>2, PrefixOfItself DEF JobOk, OnChain
<1>5. nextBlinding \in Nat /\ nextBlinding <= MaxBlindings /\ new.stage # "proved"
  BY CorridorAssumption DEF IInv, TypeOK, CorridorAssumption
<1> HIDE DEF new
<1> QED
  BY <1>1, <1>3, <1>4, <1>5, WalletsAlone, ClientStep

\* What is known of a job that has loaded the leaves.
LEMMA LoadedJob ==
  ASSUME IInv, NEW j \in Jobs, At(j, "loaded")
  PROVE  /\ job[j] \in Loaded /\ job[j].note \in Note /\ job[j].leaves \in Seq(Note)
         /\ WalletOf[j] \in Recipients
         /\ Prefix(job[j].leaves, commitments) /\ job[j].note \in OnChain
         /\ job[j].note \in Drawn(nextBlinding)
<1>1. job[j] \in Job /\ JobOk(commitments, spendNullifiers, nextBlinding, j, job[j])
  BY DEF IInv, TypeOK, JobsOk
<1>2. job[j] \in Loaded
  BY <1>1, JobKinds DEF At
<1> QED
  BY <1>1, <1>2 DEF JobOk, Loaded, At, IInv, ChainOk, OnChain

\* ... while it waits for the leaves to be those of the root,
LEMMA ReloadLeavesStep ==
  ASSUME IInv, NEW j \in Jobs, ReloadLeaves(j)
  PROVE  IInv'
<1> DEFINE new == [job[j] EXCEPT !.leaves = commitments]
<1>1. /\ At(j, "loaded") /\ SetJob(j, new)
      /\ UNCHANGED <<root, commitments, spendNullifiers, tokens, attestations, inFlight, clientVars,
                     nextBlinding>>
  BY DEF ReloadLeaves, contractVars, poolVars, envVars
<1>2. commitments \in Seq(Note)
  BY DEF IInv, TypeOK
<1>3. /\ new \in Loaded /\ new.stage = "loaded" /\ new.note = job[j].note
      /\ new.leaves = commitments
  BY <1>1, <1>2, LoadedJob DEF Loaded
<1> HIDE DEF new
<1>4. new \in Job
  BY <1>3 DEF Job, Loaded
<1>5. JobOk(commitments, spendNullifiers, nextBlinding, j, new)
  BY <1>1, <1>2, <1>3, LoadedJob, PrefixOfItself DEF JobOk, OnChain
<1>6. nextBlinding \in Nat /\ nextBlinding <= MaxBlindings
  BY CorridorAssumption DEF IInv, TypeOK, CorridorAssumption
<1> QED
  BY <1>1, <1>3, <1>4, <1>5, <1>6, WalletsAlone, ClientStep

\* ... and when it answers: its outputs are fresh, too.
LEMMA ProveWithdrawStep ==
  ASSUME IInv, NEW j \in Jobs, ProveWithdraw(j)
  PROVE  IInv'
<1> DEFINE w == WalletOf[j]
           note == job[j].note
           leaves == job[j].leaves
           out1 == NewNote(w, note.value, nextBlinding)
           out2 == NewNote(note.owner, 0, nextBlinding + 1)
           newRoot == leaves \o <<out1, out2>>
           proof == ShieldedProofFor(leaves, note, out1, out2, note.value)
           call == WithdrawTx(w, note, newRoot, proof)
           new == Proved(call)
<1>1. /\ At(j, "loaded") /\ Draw(2) /\ SetJob(j, new)
      /\ UNCHANGED <<root, commitments, spendNullifiers, tokens, attestations, inFlight, clientVars>>
  BY DEF ProveWithdraw, SignRoot, poolVars
<1>2. /\ nextBlinding \in Nat /\ nextBlinding' = nextBlinding + 2
      /\ nextBlinding' \in Nat /\ nextBlinding <= nextBlinding' /\ nextBlinding' <= MaxBlindings
  BY <1>1, Drawing
<1>3. /\ note \in OnChain /\ note \in Note /\ note.owner \in Wallets
      /\ note.value \in 0 .. MaxAmount /\ note.value \in Nat
      /\ leaves \in Seq(Note) /\ Prefix(leaves, commitments)
      /\ w \in Recipients /\ w \in Wallets
  BY <1>1, LoadedJob, CorridorAssumption DEF Drawn, Note, CorridorAssumption
<1> HIDE DEF note, leaves, w
<1>6. /\ out1 \in Note /\ out1 \in Drawn(nextBlinding')
      /\ out2 \in Note /\ out2 \in Drawn(nextBlinding')
      /\ out1.blinding = nextBlinding /\ out2.blinding = nextBlinding + 1
  <2>1. nextBlinding \in 0 .. nextBlinding' - 1 /\ nextBlinding + 1 \in 0 .. nextBlinding' - 1
        /\ 0 \in 0 .. MaxAmount
    BY <1>2, CorridorAssumption DEF CorridorAssumption
  <2>2. out1 \in Drawn(nextBlinding') /\ out2 \in Drawn(nextBlinding')
    BY <1>3, <2>1 DEF NewNote, Drawn
  <2> QED
    BY <1>2, <2>2, DrawnGrows DEF NewNote
<1> HIDE DEF out1, out2
<1>7. newRoot \in Seq(Note) /\ Len(newRoot) > 1 /\ newRoot[Len(newRoot) - 1] = out1
  BY <1>3, <1>6, TwoMore, LenProperties
<1> HIDE DEF newRoot
<1>8. proof \in SpendProof(Nat)
  <2> DEFINE A == Nat
             x == note.value
  <2>1. x \in A
    BY <1>3
  <2> HIDE DEF A, x
  <2>2. ShieldedProofFor(leaves, note, out1, out2, x) \in SpendProof(A)
    BY <1>3, <1>6, <2>1, ShieldedProofIs
  <2> QED
    BY <2>2 DEF A, x
<1>a. /\ proof.merkle_root = leaves /\ proof.nullifier_hash = note
      /\ proof.new_commitment_1 = out1 /\ proof.new_commitment_2 = out2
  BY ShieldedProofSays
<1> HIDE DEF proof
<1>9. call \in WithdrawCall
  <2> DEFINE A      == Nat
             x      == note.value
             Tuples == {Salt["receive"]} \X Wallets \X A
             t      == ComplianceNullifier("receive", note.owner, x)
             p      == ComplianceProofFor(w, x, t)
  <2>1. x \in A
    BY <1>3
  <2>2. call = [kind |-> "withdraw", caller |-> w, amount |-> x,
                spend_nullifier |-> note, new_root |-> newRoot, shielded |-> proof,
                compliance_nullifier |-> t, compliance |-> p, uid |-> w]
    BY <1>a DEF WithdrawTx
  <2>3. WithdrawCall =
          [kind : {"withdraw"}, caller : Recipients, amount : A, spend_nullifier : Note,
           new_root : Seq(Note), shielded : SpendProof(A), compliance_nullifier : Tuples,
           compliance : OwnCompliance("receive", A), uid : Wallets]
    BY DEF WithdrawCall, OwnCompliance
  <2>4. proof \in SpendProof(A)
    BY <1>8
  <2> HIDE DEF A, x, call
  <2>5. t \in Tuples
    BY <1>3, <2>1 DEF ComplianceNullifier
  <2>6. p \in OwnCompliance("receive", A)
    BY <1>3, <2>1, <2>5, ComplianceProofIs
  <2> HIDE DEF t, p, Tuples
  <2> QED
    BY <1>3, <1>7, <2>1, <2>2, <2>3, <2>4, <2>5, <2>6
<1>10. /\ call.kind = "withdraw" /\ call.spend_nullifier = note /\ call.new_root = newRoot
       /\ call.shielded = proof /\ call.amount = note.value
  BY <1>a DEF WithdrawTx
<1> HIDE DEF call
<1>11. /\ new \in Job /\ new.stage = "proved" /\ new.call = call
  BY <1>9 DEF Proved, Job, Call
<1>12. CallOk(commitments, nextBlinding', call)
  <2>1. Outs(call) = {out1, out2}
    BY <1>a, <1>10 DEF Outs
  <2> QED
    BY <1>3, <1>6, <1>7, <1>a, <1>9, <1>10, <2>1 DEF CallOk, Call, OnChain
<1> HIDE DEF new
<1>13. JobOk(commitments, spendNullifiers, nextBlinding', j, new)
  BY <1>11, <1>12 DEF JobOk
<1>14. \A n \in Outs(new.call) : n.blinding >= nextBlinding
  BY <1>2, <1>6, <1>a, <1>10, <1>11 DEF Outs
<1> QED
  BY <1>1, <1>2, <1>11, <1>13, <1>14, WalletsAlone, ClientStep

\* Abandon, GiveUp, and the last steps of the handlers.
LEMMA EndStep ==
  ASSUME IInv, NEW j \in Jobs, Abandon(j) \/ GiveUp(j)
  PROVE  IInv'
  BY WalletsAlone, BackToIdle DEF Abandon, GiveUp, contractVars, poolVars, envVars

\* What is known of a job whose call has landed.
LEMMA LandedJob ==
  ASSUME IInv, NEW j \in Jobs, At(j, "landed")
  PROVE  LandedOk(commitments, spendNullifiers, job[j].call) /\ job[j].call \in Call
<1>1. job[j] \in Job /\ JobOk(commitments, spendNullifiers, nextBlinding, j, job[j])
  BY DEF IInv, TypeOK, JobsOk
<1> QED
  BY <1>1, JobKinds DEF JobOk, At

\* What a handler writes down after its call landed is true of the chain.
LEMMA FinishStep ==
  ASSUME IInv, NEW j \in Jobs, FinishDeposit(j) \/ FinishTransfer(j) \/ FinishWithdraw(j)
  PROVE  IInv'
<1> DEFINE w == WalletOf[j]
           c == job[j].call
<1>1. /\ SetJob(j, Idle)
      /\ UNCHANGED <<root, commitments, spendNullifiers, tokens, attestations, inFlight, nextBlinding>>
  BY DEF FinishDeposit, FinishTransfer, FinishWithdraw, contractVars, poolVars, envVars
<1>2. LandedOk(commitments, spendNullifiers, c) /\ c \in Call
  BY LandedJob DEF FinishDeposit, FinishTransfer, FinishWithdraw
<1>3. /\ w \in Wallets
      /\ saved \in [Wallets -> SUBSET Note] /\ markedSpent \in [Wallets -> SUBSET Note]
      /\ receipts \subseteq Note /\ WalletsAgreeWithChain
  BY CorridorAssumption DEF CorridorAssumption, IInv, TypeOK
<1> HIDE DEF w, c
<1>4. CASE FinishDeposit(j)
  <2>1. /\ saved' = [saved EXCEPT ![w] = @ \cup {c.note_commitment}]
        /\ UNCHANGED <<markedSpent, receipts>> /\ c.kind = "deposit"
    BY <1>4 DEF FinishDeposit, saveNote, w, c
  <2>2. c.note_commitment \in Note /\ c.note_commitment \in OnChain
    BY <1>2, <2>1, CallKinds DEF LandedOk, DepositCall, OnChain
  <2>3. saved' \in [Wallets -> SUBSET Note] /\ WalletsAgreeWithChain'
    BY <1>1, <1>3, <2>1, <2>2 DEF WalletsAgreeWithChain, OnChain
  <2> QED
    BY <1>1, <1>3, <2>1, <2>3, BackToIdle
<1>5. CASE FinishTransfer(j)
  <2>1. /\ markedSpent' = [markedSpent EXCEPT ![w] = @ \cup {c.spend_nullifier}]
        /\ receipts' = receipts \cup {c.new_commitment_1}
        /\ UNCHANGED saved /\ c.kind = "transfer"
    BY <1>5 DEF FinishTransfer, markNoteSpent, w, c
  <2>2. /\ c.new_commitment_1 \in Note /\ c.new_commitment_1 \in OnChain
        /\ c.spend_nullifier \in Note /\ c.spend_nullifier \in spendNullifiers
    BY <1>2, <2>1, CallKinds DEF LandedOk, OnChain
  <2>3. /\ markedSpent' \in [Wallets -> SUBSET Note] /\ receipts' \subseteq Note
        /\ WalletsAgreeWithChain'
    BY <1>1, <1>3, <2>1, <2>2 DEF WalletsAgreeWithChain, OnChain
  <2> QED
    BY <1>1, <1>3, <2>1, <2>3, BackToIdle
<1>6. CASE FinishWithdraw(j)
  <2>1. /\ markedSpent' = [markedSpent EXCEPT ![w] = @ \cup {c.spend_nullifier}]
        /\ UNCHANGED <<saved, receipts>> /\ c.kind = "withdraw"
    BY <1>6 DEF FinishWithdraw, markNoteSpent, w, c
  <2>2. c.spend_nullifier \in Note /\ c.spend_nullifier \in spendNullifiers
    BY <1>2, <2>1, CallKinds DEF LandedOk
  <2>3. markedSpent' \in [Wallets -> SUBSET Note] /\ WalletsAgreeWithChain'
    BY <1>1, <1>3, <2>1, <2>2 DEF WalletsAgreeWithChain, OnChain
  <2> QED
    BY <1>1, <1>3, <2>1, <2>3, BackToIdle
<1> QED
  BY <1>4, <1>5, <1>6

-----------------------------------------------------------------------------

\* A call in flight is apart from the others because the job that had it moved on.
LEMMA SubmitStep ==
  ASSUME IInv, NEW j \in Jobs, Submit(j)
  PROVE  IInv'
<1> DEFINE c == job[j].call
           new == [job[j] EXCEPT !.stage = "submitted"]
<1>1. /\ At(j, "proved") /\ inFlight' = inFlight \cup {c} /\ SetJob(j, new)
      /\ UNCHANGED <<root, commitments, spendNullifiers, tokens, attestations, clientVars, nextBlinding>>
  BY DEF Submit, contractVars, poolVars, envVars
<1>2. job \in [Jobs -> Job] /\ job[j] \in Calling /\ c \in Call
  BY <1>1, JobKinds DEF IInv, TypeOK, At
<1>3. new \in Job /\ new.stage = "submitted"
  BY <1>2 DEF Calling, Job
<1>4. CallOk(commitments, nextBlinding, c)
  BY <1>1 DEF IInv, JobsOk, JobOk, At
<1> HIDE DEF c, new
<1>5. /\ job' \in [Jobs -> Job] /\ job'[j] = new /\ \A k \in Jobs : k # j => job'[k] = job[k]
  BY <1>1, <1>2, <1>3 DEF SetJob
<1>6. TypeOK' /\ ChainOk' /\ WalletsAgreeWithChain'
  BY <1>1, <1>2, <1>5 DEF IInv, TypeOK, ChainOk, RootOk, WalletsAgreeWithChain, clientVars, OnChain
<1>7. JobsOk'
  BY <1>1, <1>3, <1>5 DEF IInv, JobsOk, JobOk
<1>8. FlightOk'
  BY <1>1, <1>4 DEF IInv, FlightOk
<1>9. Apart'
  <2>1. /\ \A d \in inFlight : Disjoint(c, d) /\ Disjoint(d, c)
        /\ \A k \in Jobs : k # j /\ At(k, "proved") => Disjoint(job[k].call, c)
        /\ \A n \in Outs(c) : n \notin OnChain
    BY <1>1 DEF IInv, Apart, Disjoint, c
  <2>2. \A k \in Jobs : At(k, "proved")' => k # j /\ At(k, "proved") /\ job'[k].call = job[k].call
    BY <1>3, <1>5 DEF At
  <2>3. OnChain' = OnChain
    BY <1>1 DEF OnChain
  <2> QED
    BY <1>1, <2>1, <2>2, <2>3 DEF IInv, Apart
<1> QED
  BY <1>1, <1>6, <1>7, <1>8, <1>9 DEF IInv, OwnUids

\* A recipient that claims a note claims one that is on the chain.
LEMMA ClaimStep ==
  ASSUME IInv, NEW w \in Wallets, NEW note \in receipts, Claim(w, note)
  PROVE  IInv'
<1>1. /\ saved' = [saved EXCEPT ![w] = @ \cup {note}]
      /\ UNCHANGED <<root, commitments, spendNullifiers, tokens, attestations, markedSpent, receipts,
                     nextBlinding, job, inFlight>>
  BY DEF Claim, saveNote, contractVars, poolVars, envVars
<1>2. TypeOK' /\ WalletsAgreeWithChain'
  BY <1>1 DEF IInv, TypeOK, WalletsAgreeWithChain, OnChain
<1> QED
  BY <1>1, <1>2 DEF IInv, OwnUids, ChainOk, RootOk, JobsOk, FlightOk, Apart, OnChain, At

\* A revocation leaves the attestation about the same wallet.
LEMMA RevokeStep ==
  ASSUME IInv, NEW w \in Wallets, RevokeKyc(w)
  PROVE  IInv'
<1> DEFINE Attestation == [subject : Wallets, genuine : BOOLEAN, revoked : BOOLEAN,
                           expires : {NoExpiry}, claim : {SendClaim, ReceiveClaim}]
<1>1. /\ attestations' = [attestations EXCEPT ![w].revoked = TRUE]
      /\ UNCHANGED <<root, commitments, spendNullifiers, tokens, saved, markedSpent, receipts,
                     nextBlinding, job, inFlight>>
  BY DEF RevokeKyc, poolVars, clientVars
<1>2. attestations \in [Senders \cup Recipients -> Attestation]
  BY DEF IInv, TypeOK
<1>3. attestations' \in [Senders \cup Recipients -> Attestation]
  BY <1>1, <1>2
<1>4. \A v \in Senders \cup Recipients : attestations'[v].subject = attestations[v].subject
  BY <1>1, <1>2
<1>5. TypeOK'
  BY <1>1, <1>3 DEF IInv, TypeOK
<1>6. OwnUids'
  BY <1>4 DEF IInv, OwnUids
<1> QED
  BY <1>1, <1>5, <1>6 DEF IInv, ChainOk, RootOk, WalletsAgreeWithChain, JobsOk, FlightOk, Apart,
                          OnChain, At

\* Fail and Lose.
LEMMA FewerInFlight ==
  ASSUME IInv, inFlight' \subseteq inFlight,
         UNCHANGED <<contractVars, clientVars, nextBlinding, job>>
  PROVE  IInv'
<1>1. UNCHANGED <<root, commitments, spendNullifiers, tokens, attestations, saved, markedSpent, receipts,
                  nextBlinding, job>>
  BY DEF contractVars, poolVars, envVars, clientVars
<1> QED
  BY <1>1 DEF IInv, OwnUids, TypeOK, ChainOk, RootOk, WalletsAgreeWithChain, JobsOk, FlightOk,
              Apart, OnChain, At

-----------------------------------------------------------------------------
(***************************************************************************)
(* The three calls.                                                        *)
(***************************************************************************)

\* What a call does to the pool.
Lands(c) ==
  /\ commitments' \in Seq(Note) /\ Prefix(commitments, commitments')
  /\ OnChain' \subseteq OnChain \cup Outs(c)
  /\ spendNullifiers \subseteq spendNullifiers' /\ spendNullifiers' \subseteq OnChain'
  /\ LandedOk(commitments', spendNullifiers', c)
  /\ root' \in Seq(Note) /\ RootOk'
  /\ tokens' \in [Accounts -> Nat] /\ UNCHANGED attestations

\* What is known of a call in flight.
LEMMA FlyingCall ==
  ASSUME IInv, NEW c \in inFlight
  PROVE  /\ c \in Call /\ CallOk(commitments, nextBlinding, c)
         /\ \A n \in Outs(c) : n \notin OnChain /\ n \in Note
         /\ commitments \in Seq(Note) /\ Len(commitments) \in Nat
         /\ c.new_root \in Seq(Note) /\ Len(c.new_root) \in Nat
<1>1. c \in Call /\ CallOk(commitments, nextBlinding, c) /\ commitments \in Seq(Note)
      /\ \A n \in Outs(c) : n \notin OnChain
  BY DEF IInv, TypeOK, FlightOk, Apart
<1>2. c.new_root \in Seq(Note)
  BY <1>1, CallKinds
<1>3. \A n \in Outs(c) : n \in Note
  BY <1>1, CallKinds DEF Outs, DepositCall
<1> QED
  BY <1>1, <1>2, <1>3, LenProperties

\* Whole units are sub-units.
LEMMA SubUnits == \A a \in Nat : a * Scale \in Nat
  BY PoolAssumption DEF PoolAssumption

\* An element of the chain.
LEMMA AtPlace ==
  ASSUME IInv, NEW i \in 1 .. Len(commitments)
  PROVE  commitments[i] \in OnChain
  BY SetOfSeq DEF IInv, TypeOK, OnChain

\* A deposit inserts its fresh note; the root it stores is no earlier one.
LEMMA DepositLands ==
  ASSUME IInv, NEW c \in inFlight, c.kind = "deposit", Deposit(c)
  PROVE  /\ Lands(c)
         /\ c.amount \in Nat /\ c.note_commitment.value = c.amount
         /\ c.note_commitment \in Drawn(nextBlinding) /\ c.note_commitment \notin OnChain
         /\ OnChain' = OnChain \cup {c.note_commitment}
         /\ UNCHANGED spendNullifiers
         /\ tokens'[Pool] = tokens[Pool] + c.amount * Scale
<1> DEFINE note == c.note_commitment
           k == Len(c.new_root)
<1>1. /\ commitments' = commitments \o <<note>> /\ root' = c.new_root
      /\ Pay(c.caller, Pool, c.amount) /\ CanPay(c.caller, c.amount)
      /\ UNCHANGED spendNullifiers
  BY DEF Deposit, DepositAccepted, InsertAll
<1>2. c \in DepositCall /\ note \in Note /\ c.amount \in Nat /\ c.caller \in Wallets
  BY FlyingCall, CallKinds, CorridorAssumption DEF DepositCall, CorridorAssumption
<1>3. /\ note \in Drawn(nextBlinding) /\ note \notin OnChain /\ note.value = c.amount
      /\ k > 0 /\ c.new_root[k] = note
  BY FlyingCall DEF CallOk, Outs
<1> HIDE DEF note
<1>4. /\ commitments' \in Seq(Note) /\ Len(commitments') = Len(commitments) + 1
      /\ commitments'[Len(commitments) + 1] = note
      /\ Prefix(commitments, commitments')
      /\ ToSet(commitments') = ToSet(commitments) \cup {note}
  BY <1>1, <1>2, FlyingCall, OneMore
<1>5. RootOk'
  <2> SUFFICES ASSUME Prefix(c.new_root, commitments')
               PROVE  c.new_root = commitments'
    BY <1>1 DEF RootOk
  <2>1. k \in Nat /\ k <= Len(commitments) + 1 /\ commitments'[k] = note
    BY <1>3, <1>4, FlyingCall DEF Prefix
  <2>2. k \notin 1 .. Len(commitments)
    BY <1>3, <1>4, <2>1, AtPlace DEF Prefix
  <2>3. k = Len(commitments')
    BY <1>3, <1>4, <2>1, <2>2, FlyingCall
  <2> QED
    BY <1>4, <2>3, FlyingCall, PrefixOfSameLength
<1>6. /\ tokens' \in [Accounts -> Nat]
      /\ tokens'[Pool] = tokens[Pool] + c.amount * Scale
  <2> DEFINE x == c.amount * Scale
  <2>1. /\ tokens' = [tokens EXCEPT ![c.caller] = @ - x, ![Pool] = @ + x]
        /\ tokens[c.caller] >= x /\ x \in Nat
    BY <1>1, <1>2, SubUnits DEF Pay, CanPay
  <2> HIDE DEF x
  <2>2. /\ tokens \in [Accounts -> Nat] /\ c.caller \in Accounts /\ Pool \in Accounts
        /\ c.caller # Pool
    BY <1>2, PoolAssumption DEF IInv, TypeOK, Accounts, PoolAssumption
  <2>3. tokens' \in [Accounts -> Nat] /\ tokens'[Pool] = tokens[Pool] + x
    BY <2>1, <2>2
  <2> QED
    BY <2>3 DEF x
<1>7. /\ OnChain' = OnChain \cup {note}
      /\ spendNullifiers' \subseteq OnChain' /\ note \in Outs(c)
      /\ LandedOk(commitments', spendNullifiers', c)
  BY <1>1, <1>4 DEF OnChain, Outs, LandedOk, IInv, ChainOk, note
<1>8. root' \in Seq(Note) /\ UNCHANGED attestations
  BY <1>1, FlyingCall DEF Deposit, envVars
<1> QED
  BY <1>1, <1>2, <1>3, <1>4, <1>5, <1>6, <1>7, <1>8 DEF Lands, note

\* What is known of a spend in flight.
LEMMA FlyingSpend ==
  ASSUME IInv, NEW c \in inFlight, c.kind # "deposit"
  PROVE  /\ c.spend_nullifier \in OnChain /\ c.spend_nullifier \in Note
         /\ Outs(c) = {c.shielded.new_commitment_1, c.shielded.new_commitment_2}
         /\ \A n \in Outs(c) : n \in Note /\ n \in Drawn(nextBlinding) /\ n \notin OnChain
         /\ Len(c.new_root) > 1
         /\ c.new_root[Len(c.new_root) - 1] = c.shielded.new_commitment_1
         /\ c.shielded.merkle_root = root => root = commitments
         /\ c.kind = "transfer" => /\ c.new_commitment_1 = c.shielded.new_commitment_1
                                   /\ c.new_commitment_2 = c.shielded.new_commitment_2
<1>1. Outs(c) = {c.shielded.new_commitment_1, c.shielded.new_commitment_2}
  BY DEF Outs
<1>2. CallOk(commitments, nextBlinding, c) /\ c \in Call
  BY FlyingCall
<1>3. c.shielded.merkle_root = root => root = commitments
  BY <1>2, CallKinds DEF CallOk, IInv, ChainOk, RootOk
<1>4. c.spend_nullifier \in OnChain
  BY <1>2 DEF CallOk, OnChain
<1>5. /\ Outs(c) \subseteq Drawn(nextBlinding)
      /\ Len(c.new_root) > 1
      /\ c.new_root[Len(c.new_root) - 1] = c.shielded.new_commitment_1
      /\ c.kind = "transfer" => /\ c.new_commitment_1 = c.shielded.new_commitment_1
                                /\ c.new_commitment_2 = c.shielded.new_commitment_2
  BY <1>2 DEF CallOk
<1>6. \A n \in Outs(c) : n \notin OnChain
  BY FlyingCall
<1> QED
  BY <1>1, <1>2, <1>3, <1>4, <1>5, <1>6, CallKinds

\* A transfer lands only in sync; it inserts its fresh outputs and spends its note.
LEMMA TransferLands ==
  ASSUME IInv, NEW c \in inFlight, c.kind = "transfer", Transfer(c)
  PROVE  /\ Lands(c)
         /\ root = commitments
         /\ c.spend_nullifier \notin spendNullifiers
         /\ OnChain' = OnChain \cup {c.new_commitment_1, c.new_commitment_2}
         /\ spendNullifiers' = spendNullifiers \cup {c.spend_nullifier}
         /\ UNCHANGED tokens
<1> DEFINE a == c.new_commitment_1
           b == c.new_commitment_2
           k == Len(c.new_root)
<1>1. /\ commitments' = commitments \o <<a, b>> /\ root' = c.new_root
      /\ spendNullifiers' = spendNullifiers \cup {c.spend_nullifier}
      /\ UNCHANGED tokens
      /\ c.spend_nullifier \notin spendNullifiers /\ c.shielded.merkle_root = root
  BY DEF Transfer, TransferAccepted, InsertAll, MarkSpendNullifier, PoolRootMatches
<1>2. a \in Note /\ b \in Note /\ a # b /\ a \notin OnChain
  BY FlyingCall, FlyingSpend DEF CallOk
<1>3. k > 1 /\ c.new_root[k - 1] = a /\ root = commitments
  BY <1>1, FlyingSpend
<1> HIDE DEF a, b
<1>4. /\ commitments' \in Seq(Note) /\ Len(commitments') = Len(commitments) + 2
      /\ commitments'[Len(commitments) + 1] = a /\ commitments'[Len(commitments) + 2] = b
      /\ Prefix(commitments, commitments')
      /\ ToSet(commitments') = ToSet(commitments) \cup {a, b}
  BY <1>1, <1>2, FlyingCall, TwoMore
<1>5. RootOk'
  <2> SUFFICES ASSUME Prefix(c.new_root, commitments')
               PROVE  c.new_root = commitments'
    BY <1>1 DEF RootOk
  <2>1. k \in Nat /\ k <= Len(commitments) + 2 /\ commitments'[k - 1] = a
    BY <1>3, <1>4, FlyingCall DEF Prefix
  <2>2. k - 1 \notin 1 .. Len(commitments)
    BY <1>2, <1>4, <2>1, AtPlace DEF Prefix
  <2>3. k = Len(commitments')
    BY <1>2, <1>3, <1>4, <2>1, <2>2, FlyingCall
  <2> QED
    BY <1>4, <2>3, FlyingCall, PrefixOfSameLength
<1>6. /\ OnChain' = OnChain \cup {a, b}
      /\ spendNullifiers' \subseteq OnChain' /\ Outs(c) = {a, b}
      /\ LandedOk(commitments', spendNullifiers', c)
  BY <1>1, <1>4, FlyingSpend DEF OnChain, LandedOk, IInv, ChainOk, a, b
<1>7. root' \in Seq(Note) /\ tokens' \in [Accounts -> Nat] /\ UNCHANGED attestations
  BY <1>1, FlyingCall DEF IInv, TypeOK, Transfer, envVars
<1> QED
  BY <1>1, <1>3, <1>4, <1>5, <1>6, <1>7 DEF Lands, a, b

\* A withdrawal lands only in sync; the root it stores is ahead of the leaves.
LEMMA WithdrawLands ==
  ASSUME IInv, NEW c \in inFlight, c.kind = "withdraw", Withdraw(c)
  PROVE  /\ Lands(c)
         /\ root = commitments
         /\ c.spend_nullifier \notin spendNullifiers
         /\ UNCHANGED commitments
         /\ spendNullifiers' = spendNullifiers \cup {c.spend_nullifier}
         /\ c.amount \in Nat /\ c.amount = c.spend_nullifier.value
         /\ tokens'[Pool] = tokens[Pool] - c.amount * Scale
<1> DEFINE a == c.shielded.new_commitment_1
           k == Len(c.new_root)
<1>1. /\ commitments' = commitments \o <<>> /\ root' = c.new_root
      /\ spendNullifiers' = spendNullifiers \cup {c.spend_nullifier}
      /\ Pay(Pool, c.caller, c.amount) /\ CanPay(Pool, c.amount)
      /\ c.spend_nullifier \notin spendNullifiers /\ c.shielded.merkle_root = root
  BY DEF Withdraw, WithdrawAccepted, InsertAll, MarkSpendNullifier, PoolRootMatches
<1>2. c \in WithdrawCall /\ c.amount \in Nat /\ c.caller \in Wallets
  BY FlyingCall, CallKinds, CorridorAssumption DEF WithdrawCall, CorridorAssumption
<1>3. k > 1 /\ c.new_root[k - 1] = a /\ root = commitments /\ a \notin OnChain
  BY <1>1, FlyingSpend
<1> HIDE DEF a
<1>4. commitments' = commitments /\ commitments \in Seq(Note)
  BY <1>1, FlyingCall, ConcatEmptySeq
<1>5. RootOk'
  <2> SUFFICES ASSUME Prefix(c.new_root, commitments)
               PROVE  FALSE
    BY <1>1, <1>4 DEF RootOk
  <2>1. k - 1 \in 1 .. Len(commitments) /\ commitments[k - 1] = a
    BY <1>3, FlyingCall DEF Prefix
  <2> QED
    BY <1>3, <2>1, AtPlace
<1>6. /\ tokens' \in [Accounts -> Nat]
      /\ tokens'[Pool] = tokens[Pool] - c.amount * Scale
  <2> DEFINE x == c.amount * Scale
  <2>1. /\ tokens' = [tokens EXCEPT ![Pool] = @ - x, ![c.caller] = @ + x]
        /\ tokens[Pool] >= x /\ x \in Nat
    BY <1>1, <1>2, SubUnits DEF Pay, CanPay
  <2> HIDE DEF x
  <2>2. /\ tokens \in [Accounts -> Nat] /\ c.caller \in Accounts /\ Pool \in Accounts
        /\ c.caller # Pool
    BY <1>2, PoolAssumption DEF IInv, TypeOK, Accounts, PoolAssumption
  <2>3. tokens' \in [Accounts -> Nat] /\ tokens'[Pool] = tokens[Pool] - x
    BY <2>1, <2>2
  <2> QED
    BY <2>3 DEF x
<1>7. /\ OnChain' = OnChain /\ spendNullifiers' \subseteq OnChain'
      /\ LandedOk(commitments', spendNullifiers', c)
  BY <1>1, <1>4, FlyingSpend DEF OnChain, LandedOk, IInv, ChainOk
<1>8. root' \in Seq(Note) /\ Prefix(commitments, commitments') /\ UNCHANGED attestations
  BY <1>1, <1>4, FlyingCall, PrefixOfItself DEF Withdraw, envVars
<1>9. c.amount = c.spend_nullifier.value
  BY FlyingCall DEF CallOk
<1> QED
  BY <1>1, <1>2, <1>3, <1>4, <1>5, <1>6, <1>7, <1>8, <1>9 DEF Lands

\* A call that lands has the effect of its kind.
LEMMA LandIsOne ==
  ASSUME IInv, NEW c \in inFlight, Land(c)
  PROVE  \/ c.kind = "deposit" /\ Deposit(c)
         \/ c.kind = "transfer" /\ Transfer(c)
         \/ c.kind = "withdraw" /\ Withdraw(c)
  BY FlyingCall, CallKinds DEF Land

\* A call that lands keeps the invariant: what others wait to do stays in order.
LEMMA LandStep ==
  ASSUME IInv, NEW c \in inFlight, Land(c)
  PROVE  IInv'
<1>1. Lands(c)
  BY LandIsOne, DepositLands, TransferLands, WithdrawLands
<1>2. /\ inFlight' = {d \in inFlight : d.caller # c.caller}
      /\ job' = [j \in Jobs |->
                   IF At(j, "submitted") /\ job[j].call = c
                     THEN [job[j] EXCEPT !.stage = "landed"]
                     ELSE job[j]]
      /\ UNCHANGED <<saved, markedSpent, receipts, nextBlinding>>
  BY DEF Land, Settle, clientVars
<1>3. inFlight' \subseteq inFlight /\ c \notin inFlight'
  BY <1>2
<1>4. /\ commitments \in Seq(Note) /\ commitments' \in Seq(Note)
      /\ Prefix(commitments, commitments') /\ nextBlinding \in Nat
      /\ job \in [Jobs -> Job]
  BY <1>1, CorridorAssumption DEF Lands, IInv, TypeOK, CorridorAssumption
<1>5. \A j \in Jobs :
        /\ job'[j] \in Job
        /\ \/ job'[j] = job[j]
           \/ job'[j].stage = "landed" /\ job'[j].call = c
  <2> TAKE j \in Jobs
  <2>1. CASE At(j, "submitted") /\ job[j].call = c
    <3>1. job[j] \in Calling
      BY <1>4, <2>1, JobKinds DEF At
    <3>2. job'[j] = [job[j] EXCEPT !.stage = "landed"]
      BY <1>2, <2>1
    <3>3. job'[j] \in Calling /\ job'[j].stage = "landed" /\ job'[j].call = c
      BY <2>1, <3>1, <3>2 DEF Calling
    <3> QED
      BY <3>3 DEF Job, Calling
  <2>2. CASE ~ (At(j, "submitted") /\ job[j].call = c)
    BY <1>2, <1>4, <2>2
  <2> QED
    BY <2>1, <2>2
<1>6. TypeOK'
  <2>1. job' \in [Jobs -> Job]
    BY <1>2, <1>5
  <2>2. spendNullifiers' \subseteq Note
    BY <1>1, <1>4, SetOfSeq DEF Lands, OnChain
  <2> QED
    BY <1>1, <1>2, <1>3, <2>1, <2>2 DEF Lands, IInv, TypeOK
<1>7. ChainOk'
  <2>1. Outs(c) \subseteq Drawn(nextBlinding)
    BY FlyingCall DEF CallOk
  <2> QED
    BY <1>1, <1>2, <2>1 DEF Lands, IInv, ChainOk
<1>8. OnChain \subseteq OnChain'
  BY <1>4, PrefixIsSubset DEF OnChain
<1>9. WalletsAgreeWithChain'
  BY <1>1, <1>2, <1>8 DEF Lands, IInv, WalletsAgreeWithChain
<1>10. JobsOk'
  <2> SUFFICES ASSUME NEW j \in Jobs
               PROVE  JobOk(commitments', spendNullifiers', nextBlinding, j, job'[j])
    BY <1>2 DEF JobsOk
  <2>1. CASE job'[j] = job[j]
    <3>1. JobOk(commitments, spendNullifiers, nextBlinding, j, job[j]) /\ job[j] \in Job
      BY <1>4 DEF IInv, JobsOk
    <3>2. spendNullifiers \subseteq spendNullifiers'
      BY <1>1 DEF Lands
    <3> QED
      BY <1>4, <2>1, <3>1, <3>2, JobStaysOk
  <2>2. CASE job'[j].stage = "landed" /\ job'[j].call = c
    BY <1>1, <2>2 DEF Lands, JobOk
  <2> QED
    BY <1>5, <2>1, <2>2
<1>11. FlightOk'
  <2>1. \A d \in inFlight : CallOk(commitments', nextBlinding, d)
    BY <1>4, CallStaysOk DEF IInv, FlightOk
  <2> QED
    BY <1>2, <1>3, <2>1 DEF FlightOk
<1>12. Apart'
  <2>1. \A j \in Jobs : At(j, "proved")' => At(j, "proved") /\ job'[j] = job[j]
    BY <1>5 DEF At
  <2>2. \A d \in inFlight' : \A n \in Outs(d) : n \notin OnChain'
    BY <1>1, <1>3 DEF Lands, IInv, Apart, Disjoint
  <2>3. \A j \in Jobs : At(j, "proved")' => \A n \in Outs(job'[j].call) : n \notin OnChain'
    BY <1>1, <2>1 DEF Lands, IInv, Apart, Disjoint
  <2> QED
    BY <1>3, <2>1, <2>2, <2>3 DEF IInv, Apart
<1> QED
  BY <1>1, <1>6, <1>7, <1>9, <1>10, <1>11, <1>12 DEF Lands, IInv, OwnUids

-----------------------------------------------------------------------------

\* An empty tree has no notes.
LEMMA EmptyChain ==
  ASSUME commitments = <<>>
  PROVE  commitments \in Seq(Note) /\ Len(commitments) = 0 /\ OnChain = {}
<1>1. commitments \in Seq(Note) /\ Len(commitments) = 0
  BY EmptySeq
<1>2. ToSet(commitments) = {}
  <2>1. DOMAIN commitments = 1 .. 0
    BY <1>1, LenProperties
  <2> QED
    BY <2>1 DEF ToSet
<1> QED
  BY <1>1, <1>2 DEF OnChain

\* The invariant holds before any call.
LEMMA InitOk == Init => IInv
<1> SUFFICES ASSUME Init PROVE IInv
  OBVIOUS
<1>1. /\ root = InitialRoot /\ commitments = <<>> /\ spendNullifiers = {}
      /\ tokens = [a \in Accounts |-> IF a = Pool THEN 0 ELSE Funds[a]]
      /\ nextBlinding = 0 /\ receipts = {} /\ inFlight = {}
      /\ saved = [w \in Wallets |-> {}] /\ markedSpent = [w \in Wallets |-> {}]
      /\ job = [j \in Jobs |-> Idle]
      /\ attestations = [w \in Senders \cup Recipients |->
           [subject |-> w, genuine |-> TRUE, revoked |-> FALSE, expires |-> NoExpiry,
            claim   |-> IF w \in Senders THEN SendClaim ELSE ReceiveClaim]]
  BY DEF Init, PoolInit
<1>2. commitments \in Seq(Note) /\ Len(commitments) = 0 /\ OnChain = {}
  BY <1>1, EmptyChain
<1>3. TypeOK
  <2>1. tokens \in [Accounts -> Nat]
    BY <1>1, CorridorAssumption DEF CorridorAssumption, Accounts
  <2>2. job \in [Jobs -> Job]
    BY <1>1 DEF Job
  <2>3. nextBlinding \in 0 .. MaxBlindings
    BY <1>1, CorridorAssumption DEF CorridorAssumption
  <2>4. attestations \in [Senders \cup Recipients ->
          [subject : Wallets, genuine : BOOLEAN, revoked : BOOLEAN, expires : {NoExpiry},
           claim : {SendClaim, ReceiveClaim}]]
    BY <1>1, CorridorAssumption DEF CorridorAssumption
  <2> QED
    BY <1>1, <1>2, <2>1, <2>2, <2>3, <2>4 DEF TypeOK
<1>4. RootOk
  <2> SUFFICES ASSUME root \in Seq(Note), Prefix(root, commitments)
               PROVE  root = commitments
    BY DEF RootOk
  <2>1. Len(root) = 0
    BY <1>2, LenProperties DEF Prefix
  <2> QED
    BY <1>2, <2>1, PrefixOfSameLength
<1>5. JobsOk /\ FlightOk /\ Apart
  BY <1>1 DEF JobsOk, JobOk, FlightOk, Apart, At, Idle
<1>6. OwnUids
  BY <1>1 DEF OwnUids
<1> QED
  BY <1>1, <1>2, <1>3, <1>4, <1>5, <1>6 DEF IInv, ChainOk, WalletsAgreeWithChain

\* Every step keeps it.
LEMMA StepOk ==
  ASSUME IInv, [Next]_vars
  PROVE  IInv'
<1>1. ASSUME NEW j \in Jobs, Prove(j)
      PROVE  IInv'
  BY <1>1, ProveDepositStep, ProveTransferStep, LoadLeavesStep, ReloadLeavesStep,
     ProveWithdrawStep DEF Prove
<1>2. ASSUME NEW j \in Jobs, Browse(j)
      PROVE  IInv'
  BY <1>2, SubmitStep, EndStep, FinishStep DEF Browse
<1>3. ASSUME NEW c \in inFlight, Fail(c) \/ Lose(c)
      PROVE  IInv'
  BY <1>3, FewerInFlight DEF Fail, Lose, Settle
<1>4. CASE UNCHANGED vars
  BY <1>4, FewerInFlight DEF vars
<1> QED
  BY <1>1, <1>2, <1>3, <1>4, ClaimStep, RevokeStep, LandStep DEF Next, Network

\* The inductive invariant holds throughout: a note is an output of one call,
\* what a call was proved from is still there, and the root is no old one.
THEOREM Invariance == Spec => []IInv
  BY InitOk, StepOk, PTL DEF Spec

\* Every variable stays in its type: calls are complete, notes are notes, and no
\* balance of the token contract gets negative.
THEOREM TypeCorrect == Spec => []TypeOK
<1>1. IInv => TypeOK
  BY DEF IInv
<1> QED
  BY <1>1, Invariance, PTL

\* What the browsers store and what receipts say is true of the contract
\* (noteWallet.ts, handleShield, handleSendPrivate, handleClaimNote): a stored or
\* claimed note is on the chain, one marked spent is spent there.
THEOREM WalletsTrue == Spec => []WalletsAgreeWithChain
<1>1. IInv => WalletsAgreeWithChain
  BY DEF IInv
<1> QED
  BY <1>1, Invariance, PTL

\* Whatever else a client or the network does leaves the pool alone.
LEMMA OnlyLandingMatters ==
  ASSUME IInv, [Next]_vars
  PROVE  \/ \E c \in inFlight : Land(c)
         \/ UNCHANGED <<root, commitments, spendNullifiers, tokens>>
<1>1. ASSUME NEW j \in Jobs, Prove(j) \/ Browse(j)
      PROVE  UNCHANGED <<root, commitments, spendNullifiers, tokens>>
  BY <1>1 DEF Prove, ProveDeposit, ProveTransfer, LoadLeaves, ReloadLeaves, ProveWithdraw,
              Browse, Submit, Abandon, GiveUp, FinishDeposit, FinishTransfer, FinishWithdraw,
              SignRoot, contractVars, poolVars
<1>2. ASSUME NEW w \in Wallets, NEW note \in receipts, Claim(w, note)
      PROVE  UNCHANGED <<root, commitments, spendNullifiers, tokens>>
  BY <1>2 DEF Claim, contractVars, poolVars
<1>3. ASSUME NEW c \in inFlight, Fail(c) \/ Lose(c)
      PROVE  UNCHANGED <<root, commitments, spendNullifiers, tokens>>
  BY <1>3 DEF Fail, Lose, contractVars, poolVars
<1>4. ASSUME NEW w \in Wallets, RevokeKyc(w)
      PROVE  UNCHANGED <<root, commitments, spendNullifiers, tokens>>
  BY <1>4 DEF RevokeKyc, poolVars
<1>5. CASE UNCHANGED vars
  BY <1>5 DEF vars, contractVars, poolVars
<1> QED
  BY <1>1, <1>2, <1>3, <1>4, <1>5 DEF Next, Network

\* However stale the leaves that a proof was made from, transfer() and withdraw()
\* take effect only when the stored root is that of the stored leaves.
THEOREM SpendsAreInSync == Spec => SpendsInSync
<1>1. ASSUME IInv, [Next]_vars, spendNullifiers' # spendNullifiers
      PROVE  root = commitments
  <2>1. PICK c \in inFlight : Land(c)
    BY <1>1, OnlyLandingMatters
  <2> QED
    BY <1>1, <2>1, LandIsOne, DepositLands, TransferLands, WithdrawLands
<1>2. IInv /\ [Next]_vars =>
        [spendNullifiers' # spendNullifiers => root = commitments]_vars
  BY <1>1
<1> QED
  BY <1>2, Invariance, PTL DEF Spec, SpendsInSync

-----------------------------------------------------------------------------

\* NotePool's coins.
Coins == [owner : Wallets, value : 0 .. MaxAmount, blinding : 0 .. MaxBlindings]

\* Every note drawn is one of them.
LEMMA DrawnAreCoins == ASSUME IInv PROVE Drawn(nextBlinding) \subseteq Coins
<1>1. 0 .. nextBlinding - 1 \subseteq 0 .. MaxBlindings
  BY CorridorAssumption DEF IInv, TypeOK, CorridorAssumption
<1> QED
  BY <1>1 DEF Drawn, Coins

\* The constructor leaves no coin and nothing in escrow.
LEMMA CoinsBeginEmpty == Init => NP!Empty
<1> SUFFICES ASSUME Init PROVE NP!Empty
  OBVIOUS
<1>1. commitments = <<>> /\ spendNullifiers = {} /\ tokens[Pool] = 0
  BY DEF Init, PoolInit, Accounts
<1>2. OnChain = {}
  BY <1>1, EmptyChain
<1> QED
  BY <1>1, <1>2 DEF NP!Empty, Unspent

\* deposit() makes a coin that never was and escrows its value.
LEMMA DepositMints ==
  ASSUME IInv, NEW c \in inFlight, c.kind = "deposit", Deposit(c)
  PROVE  NP!Mint(c.note_commitment) /\ c.note_commitment \in Coins
<1>1. /\ c.note_commitment \in Coins /\ c.note_commitment \notin OnChain
      /\ spendNullifiers \subseteq OnChain
      /\ OnChain' = OnChain \cup {c.note_commitment} /\ UNCHANGED spendNullifiers
      /\ tokens'[Pool] = tokens[Pool] + c.note_commitment.value * Scale
  BY DepositLands, DrawnAreCoins DEF IInv, ChainOk
<1> QED
  BY <1>1 DEF NP!Mint, NP!Fresh, Unspent, Coins

\* transfer() splits a coin that can be spent.
LEMMA TransferSplits ==
  ASSUME IInv, NEW c \in inFlight, c.kind = "transfer", Transfer(c)
  PROVE  NP!Split(c.spend_nullifier) /\ c.spend_nullifier \in Coins
<1> DEFINE n == c.spend_nullifier
           a == c.new_commitment_1
           b == c.new_commitment_2
<1>1. /\ n \in OnChain \ spendNullifiers /\ a \notin OnChain /\ b \notin OnChain
      /\ n \in Coins /\ a \in Coins /\ b \in Coins
      /\ spendNullifiers \subseteq OnChain
      /\ OnChain' = OnChain \cup {a, b}
      /\ spendNullifiers' = spendNullifiers \cup {n}
      /\ UNCHANGED tokens
  BY TransferLands, FlyingSpend, DrawnAreCoins DEF IInv, ChainOk
<1>2. a # b /\ a.value + b.value = n.value
  BY FlyingCall DEF CallOk
<1> HIDE DEF n, a, b
<1>3. Unspent' = (Unspent \ {n}) \cup {a, b}
  BY <1>1 DEF Unspent
<1> QED
  BY <1>1, <1>2, <1>3 DEF NP!Split, NP!Retire, NP!Fresh, Unspent, Coins, n

\* withdraw() pays out exactly what the coin it retires is worth.
LEMMA WithdrawRedeems ==
  ASSUME IInv, NEW c \in inFlight, c.kind = "withdraw", Withdraw(c)
  PROVE  NP!Redeem(c.spend_nullifier) /\ c.spend_nullifier \in Coins
<1> DEFINE n == c.spend_nullifier
<1>1. /\ n \in OnChain \ spendNullifiers /\ n \in Coins
      /\ OnChain' = OnChain
      /\ spendNullifiers' = spendNullifiers \cup {n}
      /\ tokens'[Pool] = tokens[Pool] - n.value * Scale
  BY WithdrawLands, FlyingSpend, DrawnAreCoins DEF IInv, ChainOk, OnChain
<1> HIDE DEF n
<1>2. Unspent' = Unspent \ {n}
  BY <1>1 DEF Unspent
<1> QED
  BY <1>1, <1>2 DEF NP!Redeem, NP!Retire, Unspent, n

\* The contract with all that its clients and the network may do is a ledger of
\* coins: every call that lands mints, splits or redeems one coin, nothing else
\* changes the coins or the escrow, and a spent coin never comes back.
THEOREM CorridorImplementsNotePool == Spec => ImplementsNotePool
<1>1. ASSUME IInv, [Next]_vars
      PROVE  [NP!Move]_<<Unspent, spendNullifiers, tokens[Pool]>>
  <2>1. CASE UNCHANGED <<root, commitments, spendNullifiers, tokens>>
    BY <2>1 DEF Unspent, OnChain
  <2>2. ASSUME NEW c \in inFlight, Land(c)
        PROVE  NP!Move
    <3>1. \/ c.kind = "deposit" /\ Deposit(c)
          \/ c.kind = "transfer" /\ Transfer(c)
          \/ c.kind = "withdraw" /\ Withdraw(c)
      BY <1>1, <2>2, LandIsOne
    <3> QED
      BY <1>1, <3>1, DepositMints, TransferSplits, WithdrawRedeems DEF NP!Move, Coins
  <2> QED
    BY <1>1, <2>1, <2>2, OnlyLandingMatters
<1>2. IInv /\ [Next]_vars => [NP!Move]_(NP!noteVars)
  BY <1>1 DEF NP!noteVars
<1> QED
  BY <1>2, Invariance, CoinsBeginEmpty, PTL DEF Spec, ImplementsNotePool, NP!Ledger

-----------------------------------------------------------------------------
(***************************************************************************)
(* The escrow covers the notes.                                            *)
(***************************************************************************)

\* There are finitely many notes to add up, each worth a number.
LEMMA NotesCount ==
  ASSUME IInv
  PROVE  IsFiniteSet(Unspent) /\ \A n \in Unspent : n.value \in Nat
<1>1. commitments \in Seq(Note)
  BY DEF IInv, TypeOK
<1>2. IsFiniteSet(OnChain) /\ OnChain \subseteq Note
  BY <1>1, ToSetIsFinite, SetOfSeq DEF OnChain
<1>3. IsFiniteSet(Unspent)
  BY <1>2, FS_Subset DEF Unspent
<1> QED
  BY <1>2, <1>3 DEF Unspent, Note

\* The sum that Solvent speaks of.
LEMMA WorthIsTotal == \A S : Worth(S) = Total(S)
  BY DEF Worth, Total

\* One note more is worth its value more.
LEMMA WorthWith ==
  ASSUME NEW S, IsFiniteSet(S), \A x \in S : x.value \in Nat,
         NEW n, n \notin S, n.value \in Nat
  PROVE  /\ IsFiniteSet(S \cup {n}) /\ \A x \in S \cup {n} : x.value \in Nat
         /\ Worth(S) \in Nat /\ Worth(S \cup {n}) = Worth(S) + n.value
<1> DEFINE T == S \cup {n}
<1>1. IsFiniteSet(T)
  BY FS_AddElement
<1>2. T \ {n} = S /\ n \in T /\ \A x \in T : x.value \in Nat
  OBVIOUS
<1>3. Total(S) \in Nat
  BY TotalOf
<1> HIDE DEF T
<1>4. Total(T) = n.value + Total(T \ {n})
  BY <1>1, <1>2, TotalOf
<1>5. Total(T) = n.value + Total(S)
  BY <1>2, <1>4
<1>6. Worth(T) = Worth(S) + n.value
  BY <1>3, <1>5, WorthIsTotal
<1> QED
  BY <1>1, <1>2, <1>3, <1>6, WorthIsTotal DEF T

\* One note less is worth its value less.
LEMMA WorthWithout ==
  ASSUME NEW S, IsFiniteSet(S), \A x \in S : x.value \in Nat, NEW n \in S
  PROVE  /\ IsFiniteSet(S \ {n}) /\ \A x \in S \ {n} : x.value \in Nat
         /\ Worth(S) \in Nat /\ Worth(S \ {n}) \in Nat
         /\ Worth(S) = Worth(S \ {n}) + n.value
<1>1. IsFiniteSet(S \ {n})
  BY FS_RemoveElement
<1>2. Total(S) \in Nat /\ Total(S) = n.value + Total(S \ {n})
  BY TotalOf
<1>3. Total(S \ {n}) \in Nat
  BY <1>1, TotalOf
<1> QED
  BY <1>1, <1>2, <1>3, WorthIsTotal

\* deposit() escrows what its note is worth.
LEMMA MintPays ==
  ASSUME IInv, Solvent, NEW n \in Coins, NP!Mint(n)
  PROVE  Solvent'
<1>1. /\ n \notin Unspent /\ n.value \in Nat
      /\ Unspent' = Unspent \cup {n}
      /\ tokens'[Pool] = tokens[Pool] + n.value * Scale
  BY CorridorAssumption DEF NP!Mint, NP!Fresh, Coins, CorridorAssumption
<1>2. Worth(Unspent) \in Nat /\ Worth(Unspent') = Worth(Unspent) + n.value
  BY <1>1, NotesCount, WorthWith
<1> QED
  BY <1>1, <1>2, PoolAssumption DEF Solvent, PoolAssumption

\* transfer() spends what its outputs are worth.
LEMMA SplitIsEven ==
  ASSUME IInv, Solvent, NEW n \in Coins, NP!Split(n)
  PROVE  Solvent'
<1> DEFINE rest == Unspent \ {n}
<1>1. PICK a \in Coins, b \in Coins :
        /\ n \in Unspent /\ a \notin Unspent /\ b \notin Unspent /\ a # b
        /\ a.value + b.value = n.value
        /\ Unspent' = (Unspent \ {n}) \cup {a, b}
        /\ tokens'[Pool] = tokens[Pool]
  BY DEF NP!Split, NP!Retire, NP!Fresh, Coins
<1>2. a.value \in Nat /\ b.value \in Nat /\ n.value \in Nat
  BY CorridorAssumption DEF Coins, CorridorAssumption
<1>3. Unspent' = (rest \cup {a}) \cup {b} /\ a \notin rest /\ b \notin rest \cup {a}
  BY <1>1
<1>4. /\ IsFiniteSet(rest) /\ \A x \in rest : x.value \in Nat
      /\ Worth(rest) \in Nat /\ Worth(Unspent) = Worth(rest) + n.value
  BY <1>1, NotesCount, WorthWithout
<1> HIDE DEF rest
<1>5. /\ IsFiniteSet(rest \cup {a}) /\ \A x \in rest \cup {a} : x.value \in Nat
      /\ Worth(rest \cup {a}) = Worth(rest) + a.value
  BY <1>2, <1>3, <1>4, WorthWith
<1>6. Worth(Unspent') = Worth(rest \cup {a}) + b.value
  BY <1>2, <1>3, <1>5, WorthWith
<1>7. Worth(Unspent') = Worth(Unspent)
  BY <1>1, <1>2, <1>4, <1>5, <1>6
<1> QED
  BY <1>1, <1>7 DEF Solvent

\* withdraw() pays out what its note is worth.
LEMMA RedeemPays ==
  ASSUME IInv, Solvent, NEW n \in Coins, NP!Redeem(n)
  PROVE  Solvent'
<1>1. /\ n \in Unspent /\ n.value \in Nat
      /\ Unspent' = Unspent \ {n}
      /\ tokens'[Pool] = tokens[Pool] - n.value * Scale
  BY CorridorAssumption DEF NP!Redeem, NP!Retire, Coins, CorridorAssumption
<1>2. /\ Worth(Unspent) \in Nat /\ Worth(Unspent') \in Nat
      /\ Worth(Unspent) = Worth(Unspent') + n.value
  BY <1>1, NotesCount, WorthWithout
<1> QED
  BY <1>1, <1>2, PoolAssumption DEF Solvent, PoolAssumption

\* However many wallets deposit, pay and withdraw, and whatever the network does to
\* their calls, the escrow is worth exactly the notes that can still be spent.
THEOREM CorridorIsSolvent == Spec => []Solvent
<1>1. Init => Solvent
  <2> SUFFICES ASSUME Init PROVE Solvent
    OBVIOUS
  <2>1. Unspent = {} /\ tokens[Pool] = 0
    BY CoinsBeginEmpty DEF NP!Empty
  <2>2. Worth(Unspent) = 0
    BY <2>1, TotalTaken, WorthIsTotal
  <2> QED
    BY <2>1, <2>2, PoolAssumption DEF Solvent, PoolAssumption
<1>2. ASSUME IInv, Solvent, [Next]_vars
      PROVE  Solvent'
  <2>1. CASE UNCHANGED <<root, commitments, spendNullifiers, tokens>>
    <3>1. Unspent' = Unspent /\ tokens' = tokens
      BY <2>1 DEF Unspent, OnChain
    <3> QED
      BY <1>2, <3>1 DEF Solvent
  <2>2. ASSUME NEW c \in inFlight, Land(c)
        PROVE  Solvent'
    <3>1. CASE c.kind = "deposit" /\ Deposit(c)
      BY <1>2, <3>1, DepositMints, MintPays
    <3>2. CASE c.kind = "transfer" /\ Transfer(c)
      BY <1>2, <3>2, TransferSplits, SplitIsEven
    <3>3. CASE c.kind = "withdraw" /\ Withdraw(c)
      BY <1>2, <3>3, WithdrawRedeems, RedeemPays
    <3> QED
      BY <1>2, <2>2, <3>1, <3>2, <3>3, LandIsOne
  <2> QED
    BY <1>2, <2>1, <2>2, OnlyLandingMatters
<1> QED
  BY <1>1, <1>2, Invariance, PTL DEF Spec

-----------------------------------------------------------------------------

\* The arguments of any call: the corridor's are some of these.
AnyRoot == {InitialRoot} \cup Seq(Note)
AnyTuple == {Salt["send"], Salt["receive"]} \X Wallets \X Nat
AnyCompliance ==
  [merkle_root : {InitialRegistryRoot}, amount : Int, compliance_nullifier : AnyTuple,
   uid : Wallets, valid : BOOLEAN]
AnyShielded ==
  [merkle_root : AnyRoot, nullifier_hash : Note, new_commitment_1 : Note,
   new_commitment_2 : Note, withdraw_amount : Int, valid : BOOLEAN]

\* The contract, whatever is called.
PC == INSTANCE PoolCallsProofs WITH
        Commitments          <- Note,
        SpendNullifiers      <- Note,
        ComplianceNullifiers <- AnyTuple,
        Roots                <- AnyRoot,
        RegistryRoots        <- {InitialRegistryRoot},
        Uids                 <- Wallets,
        Claims               <- {SendClaim, ReceiveClaim},
        DepositCalls         <- [caller : Wallets, amount : Int, note_commitment : Note,
                                 new_root : AnyRoot, compliance_nullifier : AnyTuple,
                                 compliance : AnyCompliance, uid : Wallets],
        TransferCalls        <- [spend_nullifier : Note, new_commitment_1 : Note,
                                 new_commitment_2 : Note, new_root : AnyRoot,
                                 shielded : AnyShielded],
        WithdrawCalls        <- [caller : Wallets, amount : Int, spend_nullifier : Note,
                                 new_root : AnyRoot, shielded : AnyShielded,
                                 compliance_nullifier : AnyTuple,
                                 compliance : AnyCompliance, uid : Wallets],
        Issuable             <- [subject : Wallets, genuine : BOOLEAN, revoked : BOOLEAN,
                                 expires : Nat \cup {NoExpiry},
                                 claim : {SendClaim, ReceiveClaim}],
        MaxTime              <- 0,
        MaxEvents            <- 0

\* What the contract's own theorems assume of these constants.
LEMMA AnyCallsAssumed == PC!PoolAssumption /\ PC!CallsAssumption
<1>1. PC!PoolAssumption
  BY PoolAssumption DEF PoolAssumption, PC!PoolAssumption
<1>2. PC!CallsAssumption
  BY CorridorAssumption
     DEF CorridorAssumption, PC!CallsAssumption, PC!DepositCall, PC!TransferCall,
         PC!WithdrawCall, PC!ComplianceProof, PC!ShieldedProof, PC!Attestation, AnyRoot,
         AnyCompliance, AnyShielded
<1> QED
  BY <1>1, <1>2

\* What the contract sees of a call of the corridor.
AsDeposit(c) ==
  [caller               |-> c.caller,
   amount               |-> c.amount,
   note_commitment      |-> c.note_commitment,
   new_root             |-> c.new_root,
   compliance_nullifier |-> c.compliance_nullifier,
   compliance           |-> c.compliance,
   uid                  |-> c.uid]

AsTransfer(c) ==
  [spend_nullifier  |-> c.spend_nullifier,
   new_commitment_1 |-> c.new_commitment_1,
   new_commitment_2 |-> c.new_commitment_2,
   new_root         |-> c.new_root,
   shielded         |-> c.shielded]

AsWithdraw(c) ==
  [caller               |-> c.caller,
   amount               |-> c.amount,
   spend_nullifier      |-> c.spend_nullifier,
   new_root             |-> c.new_root,
   shielded             |-> c.shielded,
   compliance_nullifier |-> c.compliance_nullifier,
   compliance           |-> c.compliance,
   uid                  |-> c.uid]

\* A proof about some amount, and one about some tree, are such as any caller may send.
LEMMA SomeCompliance ==
  ASSUME NEW a \in Int, NEW n \in AnyTuple, NEW u \in Wallets
  PROVE  [merkle_root |-> InitialRegistryRoot, amount |-> a, compliance_nullifier |-> n,
          uid |-> u, valid |-> TRUE] \in AnyCompliance
BY DEF AnyCompliance

LEMMA SomeShielded ==
  ASSUME NEW r \in AnyRoot, NEW n \in Note, NEW a \in Note, NEW b \in Note, NEW x \in Int
  PROVE  [merkle_root |-> r, nullifier_hash |-> n, new_commitment_1 |-> a,
          new_commitment_2 |-> b, withdraw_amount |-> x, valid |-> TRUE] \in AnyShielded
BY DEF AnyShielded

\* The proofs, roots and nullifiers that the wallets send are therefore among them.
LEMMA SentIsAny ==
  ASSUME NEW A \in SUBSET Nat, NEW x \in {"send", "receive"}
  PROVE  /\ Seq(Note) \subseteq AnyRoot
         /\ \A p \in OwnCompliance(x, A) : p \in AnyCompliance
         /\ \A p \in SpendProof(A) : p \in AnyShielded
         /\ \A t \in {Salt[x]} \X Wallets \X A : t \in AnyTuple
<1>1. Seq(Note) \subseteq AnyRoot /\ A \subseteq Int
  BY DEF AnyRoot
<1>2. ASSUME NEW t \in {Salt[x]} \X Wallets \X A
      PROVE  t \in AnyTuple
  BY DEF AnyTuple
<1>3. ASSUME NEW p \in OwnCompliance(x, A)
      PROVE  p \in AnyCompliance
  <2>1. p = [merkle_root |-> InitialRegistryRoot, amount |-> p.amount,
             compliance_nullifier |-> p.compliance_nullifier, uid |-> p.uid, valid |-> TRUE]
    BY DEF OwnCompliance
  <2>2. /\ p.amount \in A /\ p.uid \in Wallets
        /\ p.compliance_nullifier \in {Salt[x]} \X Wallets \X A
    BY DEF OwnCompliance
  <2>3. p.amount \in Int /\ p.compliance_nullifier \in AnyTuple
    BY <1>1, <1>2, <2>2, Zenon
  <2>4. [merkle_root |-> InitialRegistryRoot, amount |-> p.amount,
         compliance_nullifier |-> p.compliance_nullifier, uid |-> p.uid, valid |-> TRUE]
          \in AnyCompliance
    BY <2>2, <2>3, SomeCompliance, Zenon
  <2> QED
    BY <2>1, <2>4, Zenon
<1>4. ASSUME NEW p \in SpendProof(A)
      PROVE  p \in AnyShielded
  <2>1. p = [merkle_root |-> p.merkle_root, nullifier_hash |-> p.nullifier_hash,
             new_commitment_1 |-> p.new_commitment_1, new_commitment_2 |-> p.new_commitment_2,
             withdraw_amount |-> p.withdraw_amount, valid |-> TRUE]
    BY DEF SpendProof
  <2>2. /\ p.merkle_root \in Seq(Note) /\ p.withdraw_amount \in A
        /\ p.nullifier_hash \in Note /\ p.new_commitment_1 \in Note
        /\ p.new_commitment_2 \in Note
    BY DEF SpendProof
  <2>3. p.merkle_root \in AnyRoot /\ p.withdraw_amount \in Int
    BY <1>1, <2>2, Zenon
  <2>4. [merkle_root |-> p.merkle_root, nullifier_hash |-> p.nullifier_hash,
         new_commitment_1 |-> p.new_commitment_1, new_commitment_2 |-> p.new_commitment_2,
         withdraw_amount |-> p.withdraw_amount, valid |-> TRUE] \in AnyShielded
    BY <2>2, <2>3, SomeShielded, Zenon
  <2> QED
    BY <2>1, <2>4, Zenon
<1> QED
  BY <1>1, <1>2, <1>3, <1>4

LEMMA DepositIsACall ==
  ASSUME NEW c \in DepositCall, Deposit(c)
  PROVE  PC!Call
<1>1. AsDeposit(c) \in [caller : Wallets, amount : Int, note_commitment : Note,
                        new_root : AnyRoot, compliance_nullifier : AnyTuple,
                        compliance : AnyCompliance, uid : Wallets]
  <2>1. Senders \subseteq Wallets /\ Amounts \in SUBSET Nat /\ Amounts \subseteq Int
    BY CorridorAssumption DEF CorridorAssumption
  <2>2. /\ c.caller \in Senders /\ c.amount \in Amounts /\ c.note_commitment \in Note
        /\ c.new_root \in Seq(Note) /\ c.uid \in Wallets
        /\ c.compliance_nullifier \in {Salt["send"]} \X Wallets \X Amounts
        /\ c.compliance \in OwnCompliance("send", Amounts)
    BY DEF DepositCall, OwnCompliance
  <2>3. /\ c.caller \in Wallets /\ c.amount \in Int
        /\ c.new_root \in AnyRoot /\ c.compliance \in AnyCompliance
    BY <2>1, <2>2, SentIsAny, Zenon
  <2>4. c.compliance_nullifier \in AnyTuple
    BY <2>1, <2>2, SentIsAny, Zenon
  <2> QED
    BY <2>2, <2>3, <2>4 DEF AsDeposit
<1>2. PC!Deposit(AsDeposit(c))
  <2> DEFINE d == AsDeposit(c)
  <2>1. /\ d.caller = c.caller /\ d.amount = c.amount /\ d.uid = c.uid
        /\ d.note_commitment = c.note_commitment /\ d.new_root = c.new_root
        /\ d.compliance_nullifier = c.compliance_nullifier /\ d.compliance = c.compliance
    BY DEF AsDeposit
  <2> HIDE DEF d
  <2>2. PC!DepositAccepted(d)
    BY <2>1 DEF Deposit, DepositAccepted, KycAttested, BindsUid, RootSigned,
         ComplianceRootMatches, Verified, CanPay, PC!DepositAccepted, PC!KycAttested,
         PC!BindsUid, PC!RootSigned, PC!ComplianceRootMatches, PC!Verified, PC!CanPay
  <2>3. PC!Pay(d.caller, Pool, d.amount)
    BY <2>1, Zenon DEF Deposit, Pay, PC!Pay
  <2>4. /\ PC!MarkComplianceNullifier(d.compliance_nullifier)
        /\ PC!InsertAll(<<d.note_commitment>>, d.new_root)
        /\ spendNullifiers' = spendNullifiers /\ PC!envVars' = PC!envVars
    BY <2>1 DEF Deposit, MarkComplianceNullifier, InsertAll, envVars,
                PC!MarkComplianceNullifier, PC!InsertAll, PC!envVars
  <2>5. PC!Publish([type |-> "DepositEvent", depositor |-> d.caller,
                    commitment |-> d.note_commitment,
                    compliance_nullifier |-> d.compliance_nullifier])
    BY <2>1 DEF Deposit, Publish, PC!Publish
  <2>6. PC!Deposit(d)
    BY <2>2, <2>3, <2>4, <2>5 DEF PC!Deposit
  <2> QED
    BY <2>6 DEF d
<1> QED
  BY <1>1, <1>2 DEF PC!Call

LEMMA TransferIsACall ==
  ASSUME NEW c \in TransferCall, Transfer(c)
  PROVE  PC!Call
<1>1. AsTransfer(c) \in [spend_nullifier : Note, new_commitment_1 : Note,
                         new_commitment_2 : Note, new_root : AnyRoot, shielded : AnyShielded]
  <2>1. /\ c.spend_nullifier \in Note /\ c.new_commitment_1 \in Note
        /\ c.new_commitment_2 \in Note /\ c.new_root \in Seq(Note)
        /\ c.shielded \in SpendProof({0})
    BY DEF TransferCall
  <2>2. {0} \in SUBSET Nat
    OBVIOUS
  <2>3. c.new_root \in AnyRoot /\ c.shielded \in AnyShielded
    BY <2>1, <2>2, SentIsAny, Zenon
  <2> QED
    BY <2>1, <2>3 DEF AsTransfer
<1>2. PC!Transfer(AsTransfer(c))
  <2> DEFINE d == AsTransfer(c)
  <2>1. /\ d.spend_nullifier = c.spend_nullifier /\ d.new_root = c.new_root
        /\ d.new_commitment_1 = c.new_commitment_1
        /\ d.new_commitment_2 = c.new_commitment_2 /\ d.shielded = c.shielded
    BY DEF AsTransfer
  <2> HIDE DEF d
  <2>2. PC!TransferAccepted(d)
    BY <2>1 DEF Transfer, TransferAccepted, RootSigned, PoolRootMatches, Verified,
         PC!TransferAccepted, PC!RootSigned, PC!PoolRootMatches, PC!Verified
  <2>3. /\ PC!MarkSpendNullifier(d.spend_nullifier)
        /\ PC!InsertAll(<<d.new_commitment_1, d.new_commitment_2>>, d.new_root)
        /\ complianceNullifiers' = complianceNullifiers
        /\ tokens' = tokens /\ PC!envVars' = PC!envVars
    BY <2>1 DEF Transfer, MarkSpendNullifier, InsertAll, envVars, PC!MarkSpendNullifier,
                PC!InsertAll, PC!envVars
  <2>4. PC!Publish([type |-> "TransferEvent", spend_nullifier |-> d.spend_nullifier,
                    new_commitment_1 |-> d.new_commitment_1,
                    new_commitment_2 |-> d.new_commitment_2])
    BY <2>1 DEF Transfer, Publish, PC!Publish
  <2>5. PC!Transfer(d)
    BY <2>2, <2>3, <2>4 DEF PC!Transfer
  <2> QED
    BY <2>5 DEF d
<1> QED
  BY <1>1, <1>2 DEF PC!Call

LEMMA WithdrawIsACall ==
  ASSUME NEW c \in WithdrawCall, Withdraw(c)
  PROVE  PC!Call
<1>1. AsWithdraw(c) \in [caller : Wallets, amount : Int, spend_nullifier : Note,
                         new_root : AnyRoot, shielded : AnyShielded,
                         compliance_nullifier : AnyTuple,
                         compliance : AnyCompliance, uid : Wallets]
  <2>1. Recipients \subseteq Wallets /\ Nat \in SUBSET Nat /\ Nat \subseteq Int
    BY CorridorAssumption DEF CorridorAssumption
  <2>2. /\ c.caller \in Recipients /\ c.amount \in Nat /\ c.spend_nullifier \in Note
        /\ c.new_root \in Seq(Note) /\ c.uid \in Wallets
        /\ c.shielded \in SpendProof(Nat)
        /\ c.compliance_nullifier \in {Salt["receive"]} \X Wallets \X Nat
        /\ c.compliance \in OwnCompliance("receive", Nat)
    BY DEF WithdrawCall, OwnCompliance
  <2>3. /\ c.caller \in Wallets /\ c.amount \in Int
        /\ c.new_root \in AnyRoot /\ c.shielded \in AnyShielded
    BY <2>1, <2>2, SentIsAny, Zenon
  <2>4. c.compliance \in AnyCompliance
    BY <2>1, <2>2, SentIsAny, Zenon
  <2>5. c.compliance_nullifier \in AnyTuple
    BY <2>1, <2>2, SentIsAny, Zenon
  <2> QED
    BY <2>2, <2>3, <2>4, <2>5 DEF AsWithdraw
<1>2. PC!Withdraw(AsWithdraw(c))
  <2> DEFINE d == AsWithdraw(c)
  <2>1. /\ d.caller = c.caller /\ d.amount = c.amount /\ d.uid = c.uid
        /\ d.spend_nullifier = c.spend_nullifier /\ d.new_root = c.new_root
        /\ d.shielded = c.shielded /\ d.compliance = c.compliance
        /\ d.compliance_nullifier = c.compliance_nullifier
    BY DEF AsWithdraw
  <2> HIDE DEF d
  <2>2. PC!WithdrawAccepted(d)
    BY <2>1 DEF Withdraw, WithdrawAccepted, KycAttested, BindsUid, RootSigned,
         PoolRootMatches, ComplianceRootMatches, Verified, CanPay, PC!WithdrawAccepted,
         PC!KycAttested, PC!BindsUid, PC!RootSigned, PC!PoolRootMatches,
         PC!ComplianceRootMatches, PC!Verified, PC!CanPay
  <2>3. PC!Pay(Pool, d.caller, d.amount)
    BY <2>1, Zenon DEF Withdraw, Pay, PC!Pay
  <2>4. /\ PC!MarkSpendNullifier(d.spend_nullifier)
        /\ PC!MarkComplianceNullifier(d.compliance_nullifier)
        /\ PC!InsertAll(<<>>, d.new_root) /\ PC!envVars' = PC!envVars
    BY <2>1 DEF Withdraw, MarkSpendNullifier, MarkComplianceNullifier, InsertAll, envVars,
                PC!MarkSpendNullifier, PC!MarkComplianceNullifier, PC!InsertAll, PC!envVars
  <2>5. PC!Publish([type |-> "WithdrawEvent", recipient |-> d.caller, amount |-> d.amount,
                    spend_nullifier |-> d.spend_nullifier,
                    compliance_nullifier |-> d.compliance_nullifier])
    BY <2>1 DEF Withdraw, Publish, PC!Publish
  <2>6. PC!Withdraw(d)
    BY <2>2, <2>3, <2>4, <2>5 DEF PC!Withdraw
  <2> QED
    BY <2>6 DEF d
<1> QED
  BY <1>1, <1>2 DEF PC!Call

\* A root that the server signs is the new root of the call that its page has then.
LEMMA RootIsSigned ==
  ASSUME IInv', NEW j \in Jobs, NEW c, SetJob(j, Proved(c)), DOMAIN job = Jobs, SignRoot(c.new_root)
  PROVE  PC!Environment
<1>1. job'[j] = Proved(c) /\ job'[j] \in Job
  BY DEF SetJob, IInv, TypeOK
<1>2. c \in Call
  BY <1>1, JobKinds DEF Proved
<1>3. c.new_root \in AnyRoot
  BY <1>2, CallKinds DEF AnyRoot
<1>4. PC!SignRoot(c.new_root)
  BY DEF SignRoot, poolVars, PC!SignRoot, PC!poolVars
<1> QED
  BY <1>3, <1>4 DEF PC!Environment

\* Every step of the corridor is a call, a signature, or nothing to the contract.
LEMMA CorridorCalls ==
  ASSUME IInv, IInv', [Next]_vars
  PROVE  [PC!Call \/ PC!Environment]_(PC!contractVars)
<1>1. contractVars' = contractVars => PC!contractVars' = PC!contractVars
  BY DEF contractVars, poolVars, envVars, PC!contractVars, PC!poolVars, PC!envVars
<1>2. ASSUME NEW c \in inFlight, Land(c)
      PROVE  PC!Call
  BY <1>2, LandIsOne, FlyingCall, CallKinds, DepositIsACall, TransferIsACall, WithdrawIsACall
<1>3. ASSUME NEW j \in Jobs, NEW amount \in Amounts, ProveDeposit(j, amount)
      PROVE  PC!Environment
  <2> DEFINE w       == WalletOf[j]
             note    == NewNote(w, amount, nextBlinding)
             newRoot == Append(commitments, note)
             c       == DepositTx(w, amount, note, newRoot)
  <2>1. SetJob(j, Proved(c)) /\ SignRoot(newRoot)
    BY <1>3 DEF ProveDeposit
  <2>2. c.new_root = newRoot
    BY DEF DepositTx
  <2> QED
    BY <2>1, <2>2, RootIsSigned DEF IInv, TypeOK
<1>4. ASSUME NEW j \in Jobs, NEW note, NEW to, NEW amount, ProveTransfer(j, note, to, amount)
      PROVE  PC!Environment
  <2> DEFINE paid    == NewNote(to, amount, nextBlinding)
             change  == NewNote(note.owner, note.value - amount, nextBlinding + 1)
             newRoot == commitments \o <<paid, change>>
             c       == TransferTx(WalletOf[j], newRoot,
                                   ShieldedProofFor(commitments, note, paid, change, 0))
  <2>1. SetJob(j, Proved(c)) /\ SignRoot(newRoot)
    BY <1>4 DEF ProveTransfer
  <2>2. c.new_root = newRoot
    BY DEF TransferTx
  <2> QED
    BY <2>1, <2>2, RootIsSigned DEF IInv, TypeOK
<1>5. ASSUME NEW j \in Jobs, ProveWithdraw(j)
      PROVE  PC!Environment
  <2> DEFINE w       == WalletOf[j]
             note    == job[j].note
             leaves  == job[j].leaves
             out1    == NewNote(w, note.value, nextBlinding)
             out2    == NewNote(note.owner, 0, nextBlinding + 1)
             newRoot == leaves \o <<out1, out2>>
             c       == WithdrawTx(w, note, newRoot,
                                   ShieldedProofFor(leaves, note, out1, out2, note.value))
  <2>1. SetJob(j, Proved(c)) /\ SignRoot(newRoot)
    BY <1>5 DEF ProveWithdraw
  <2>2. c.new_root = newRoot
    BY DEF WithdrawTx
  <2> QED
    BY <2>1, <2>2, RootIsSigned DEF IInv, TypeOK
<1>6. ASSUME NEW j \in Jobs, ReloadLeaves(j) \/ Browse(j) \/ \E note : LoadLeaves(j, note)
      PROVE  contractVars' = contractVars
  BY <1>6 DEF ReloadLeaves, LoadLeaves, Browse, Submit, Abandon, GiveUp, FinishDeposit,
              FinishTransfer, FinishWithdraw
<1>7. ASSUME NEW j \in Jobs, Prove(j)
      PROVE  PC!Environment \/ contractVars' = contractVars
  BY <1>3, <1>4, <1>5, <1>6, <1>7 DEF Prove
<1>8. ASSUME NEW c \in inFlight, Fail(c) \/ Lose(c)
      PROVE  contractVars' = contractVars
  BY <1>8 DEF Fail, Lose
<1>9. ASSUME NEW w \in Wallets, NEW note \in receipts, Claim(w, note)
      PROVE  contractVars' = contractVars
  BY <1>9 DEF Claim
<1>10. ASSUME NEW w \in Wallets, RevokeKyc(w)
       PROVE  PC!Environment
  <2>1. PC!Revoke(w)
    BY <1>10 DEF RevokeKyc, poolVars, PC!Revoke, PC!poolVars
  <2> QED
    BY <2>1 DEF PC!Environment
<1>11. CASE UNCHANGED vars
  BY <1>1, <1>11 DEF vars
<1> QED
  BY <1>1, <1>2, <1>6, <1>7, <1>8, <1>9, <1>10, <1>11 DEF Next, Network

\* The corridor uses the contract as PoolCalls has it, where any call may come at any
\* time: honest pages, the server and the network make some of those.
THEOREM CorridorUsesThePool == Spec => PC!AnyCalls
<1>1. Init => PC!Init
  <2> SUFFICES ASSUME Init PROVE PC!Init
    OBVIOUS
  <2> DEFINE us == Senders \cup Recipients
  <2>1. /\ us \in SUBSET Wallets
        /\ attestations \in [us -> [subject : Wallets, genuine : BOOLEAN, revoked : BOOLEAN,
                                    expires : Nat \cup {NoExpiry},
                                    claim : {SendClaim, ReceiveClaim}]]
    BY CorridorAssumption DEF CorridorAssumption, Init
  <2> HIDE DEF us
  <2> QED
    BY <2>1 DEF Init, PoolInit, Accounts, PC!Init, PC!PoolInit, PC!Accounts
<1> QED
  BY <1>1, CorridorCalls, Invariance, PTL DEF Spec, PC!AnyCalls

\* So the contract's guarantees are the corridor's: the events tell which nullifiers of
\* either kind storage holds, and the tree.
THEOREM CorridorIsGuarded == Spec => [](PC!NullifiersFromEvents /\ PC!EventsRebuildTree)
<1>1. PC!AnyCalls => []PC!IInv
  BY AnyCallsAssumed, PC!Invariance
<1>2. PC!IInv => PC!NullifiersFromEvents /\ PC!EventsRebuildTree
  BY DEF PC!IInv
<1> QED
  BY <1>1, <1>2, CorridorUsesThePool, PTL

-----------------------------------------------------------------------------
(***************************************************************************)
(* Where notes get lost.                                                   *)
(***************************************************************************)

\* A step that lands no call inserts no note, and only the end of a handler takes a
\* note out of its hands: it stores the note, sends it on, or gives up.
LEMMA HandsOn ==
  ASSUME IInv, [Next]_vars, UNCHANGED <<commitments, spendNullifiers>>,
         ~ \E c \in inFlight : Land(c), NEW note, Held(note)
  PROVE  Held(note)' \/ (\E j \in Jobs : Holds(j, note) /\ GiveUp(j))
<1>1. /\ WalletOf \in [Jobs -> Wallets] /\ saved \in [Wallets -> SUBSET Note]
      /\ job \in [Jobs -> Job]
  BY CorridorAssumption DEF CorridorAssumption, IInv, TypeOK
<1>2. ASSUME NEW j \in Jobs, NEW new, SetJob(j, new), saved' = saved, receipts' = receipts,
             \A n : ~Holds(j, n)
      PROVE  Held(note)'
  BY <1>1, <1>2 DEF Held, Holds, At, SetJob
<1>3. ASSUME NEW j \in Jobs, Prove(j)
      PROVE  Held(note)'
  <2>1. PICK new : SetJob(j, new)
    BY <1>3 DEF Prove, ProveDeposit, ProveTransfer, LoadLeaves, ReloadLeaves, ProveWithdraw
  <2>2. saved' = saved /\ receipts' = receipts /\ \A n : ~Holds(j, n)
    BY <1>3 DEF Prove, ProveDeposit, ProveTransfer, LoadLeaves, ReloadLeaves, ProveWithdraw,
                clientVars, Holds, At
  <2> QED
    BY <1>2, <2>1, <2>2
<1>4. ASSUME NEW j \in Jobs, Submit(j) \/ Abandon(j)
      PROVE  Held(note)'
  <2>1. PICK new : SetJob(j, new)
    BY <1>4 DEF Submit, Abandon
  <2>2. saved' = saved /\ receipts' = receipts /\ \A n : ~Holds(j, n)
    BY <1>4 DEF Submit, Abandon, clientVars, Holds, At
  <2> QED
    BY <1>2, <2>1, <2>2
<1>5. ASSUME NEW j \in Jobs, GiveUp(j)
      PROVE  Held(note)' \/ Holds(j, note)
  <2>1. SetJob(j, Idle) /\ saved' = saved /\ receipts' = receipts
    BY <1>5 DEF GiveUp, clientVars
  <2> QED
    BY <1>1, <2>1 DEF Held, Holds, At, SetJob
<1>6. ASSUME NEW j \in Jobs, FinishDeposit(j) \/ FinishTransfer(j) \/ FinishWithdraw(j)
      PROVE  Held(note)'
  <2>1. SetJob(j, Idle) /\ At(j, "landed")
    BY <1>6 DEF FinishDeposit, FinishTransfer, FinishWithdraw
  <2>2. \A w \in Wallets : saved[w] \subseteq saved'[w]
    BY <1>1, <1>6 DEF FinishDeposit, FinishTransfer, FinishWithdraw, saveNote
  <2>3. receipts \subseteq receipts'
    BY <1>6 DEF FinishDeposit, FinishTransfer, FinishWithdraw
  <2>4. Holds(j, note) => note \in receipts' \/ \E w \in Wallets : note \in saved'[w]
    <3>1. CASE FinishDeposit(j)
      BY <1>1, <3>1 DEF FinishDeposit, saveNote, Holds, Delivers
    <3>2. CASE FinishTransfer(j)
      BY <3>2 DEF FinishTransfer, Holds, Delivers
    <3>3. CASE FinishWithdraw(j)
      BY <3>3 DEF FinishWithdraw, Holds, Delivers
    <3> QED
      BY <1>6, <3>1, <3>2, <3>3
  <2>5. \A k \in Jobs : k # j /\ Holds(k, note) => Holds(k, note)'
    BY <1>1, <2>1 DEF Holds, At, SetJob
  <2> QED
    BY <2>2, <2>3, <2>4, <2>5 DEF Held
<1>7. ASSUME NEW w \in Wallets, NEW n \in receipts, Claim(w, n)
      PROVE  Held(note)'
  <2>1. saved' = [saved EXCEPT ![w] = @ \cup {n}] /\ receipts' = receipts /\ job' = job
    BY <1>7 DEF Claim, saveNote
  <2> QED
    BY <1>1, <2>1 DEF Held, Holds, At
<1>8. saved' = saved /\ receipts' = receipts /\ job' = job => Held(note)'
  BY DEF Held, Holds, At
<1>9. ASSUME NEW w \in Wallets, RevokeKyc(w)
      PROVE  Held(note)'
  BY <1>8, <1>9 DEF RevokeKyc, clientVars
<1>10. ASSUME NEW c \in inFlight, Fail(c) \/ Lose(c)
       PROVE  Held(note)'
  BY <1>8, <1>10 DEF Fail, Lose, clientVars
<1>11. CASE UNCHANGED vars
  BY <1>8, <1>11 DEF vars, clientVars
<1>12. ASSUME NEW j \in Jobs, Browse(j)
       PROVE  Held(note)' \/ (Holds(j, note) /\ GiveUp(j))
  BY <1>4, <1>5, <1>6, <1>12 DEF Browse
<1> QED
  BY <1>3, <1>7, <1>9, <1>10, <1>11, <1>12 DEF Next, Network

\* A call that lands takes no note out of anybody's hands, and puts the one that
\* its handler delivers into that handler's.
LEMMA LandingDelivers ==
  ASSUME IInv, NEW c \in inFlight, Land(c), NEW note
  PROVE  /\ Held(note) => Held(note)'
         /\ note \in Unspent' /\ note \notin Unspent => Held(note)' \/ LandsUnheld(c, note)
<1>1. /\ job' = [j \in Jobs |->
                   IF At(j, "submitted") /\ job[j].call = c
                     THEN [job[j] EXCEPT !.stage = "landed"]
                     ELSE job[j]]
      /\ UNCHANGED <<saved, receipts>>
  BY DEF Land, clientVars
<1>2. \A j \in Jobs : Holds(j, note) => Holds(j, note)'
  BY <1>1 DEF Holds, At
<1>3. Held(note) => Held(note)'
  BY <1>1, <1>2 DEF Held
<1>4. ASSUME NEW j \in Jobs, At(j, "submitted"), job[j].call = c, Delivers(c, note)
      PROVE  Held(note)'
  <2>1. job[j] \in Calling
    BY <1>4, JobKinds DEF IInv, TypeOK, At
  <2>2. job'[j] = [job[j] EXCEPT !.stage = "landed"]
    BY <1>1, <1>4
  <2>3. job'[j].stage = "landed" /\ job'[j].call = c
    BY <1>4, <2>1, <2>2 DEF Calling
  <2> QED
    BY <1>4, <2>3 DEF Held, Holds, At
<1>5. ASSUME note \in Unspent', note \notin Unspent
      PROVE  \/ Delivers(c, note)
             \/ c.kind = "transfer" /\ note = c.new_commitment_2
  <2>1. spendNullifiers \subseteq spendNullifiers' /\ note \in OnChain' /\ note \notin OnChain
    BY <1>5, LandIsOne, DepositLands, TransferLands, WithdrawLands DEF Lands, Unspent
  <2> QED
    BY <2>1, LandIsOne, DepositLands, TransferLands, WithdrawLands DEF Delivers, OnChain
<1> QED
  BY <1>3, <1>4, <1>5 DEF LandsUnheld

\* A note of some worth gets out of everybody's hands in three ways only, whatever the
\* wallets, the handlers and the network do: as the change of a payment, when its call
\* lands too late for its handler, or when its handler stops between the landing and
\* what follows it (submitSorobanTransaction, handleShield, handleSendPrivate).
THEOREM NotesAreLostForCause == Spec => LossesHaveCause
<1>1. ASSUME IInv, [Next]_vars, NEW note \in Unspent', ~Held(note)'
      PROVE  \/ note \in Unspent /\ ~Held(note)
             \/ \E j \in Jobs : Holds(j, note) /\ GiveUp(j)
             \/ \E c \in inFlight : LandsUnheld(c, note)
  <2>1. CASE \E c \in inFlight : Land(c)
    BY <1>1, <2>1, LandingDelivers
  <2>2. CASE ~ \E c \in inFlight : Land(c)
    <3>1. UNCHANGED <<commitments, spendNullifiers>>
      BY <1>1, <2>2, OnlyLandingMatters
    <3>2. note \in Unspent
      BY <1>1, <3>1 DEF Unspent, OnChain
    <3> QED
      BY <1>1, <2>2, <3>1, <3>2, HandsOn
  <2> QED
    BY <2>1, <2>2
<1>2. IInv /\ [Next]_vars =>
        [\A note \in Unspent' :
           note.value > 0 /\ ~Held(note)' =>
             \/ note \in Unspent /\ ~Held(note)
             \/ \E j \in Jobs : Holds(j, note) /\ GiveUp(j)
             \/ \E c \in inFlight : LandsUnheld(c, note)]_vars
  BY <1>1
<1> QED
  BY <1>2, Invariance, PTL DEF Spec, LossesHaveCause

-----------------------------------------------------------------------------

\* A deposit and a withdrawal move the tokens of the pool and of their caller, whose
\* own attestation is not revoked when they land.
LEMMA EdgeIsLive ==
  ASSUME IInv, NEW c \in inFlight, c.kind # "transfer", Deposit(c) \/ Withdraw(c),
         NEW w \in DOMAIN attestations, attestations[w].revoked
  PROVE  tokens'[w] = tokens[w]
<1>1. /\ DOMAIN attestations = Senders \cup Recipients
      /\ w \in Wallets /\ w # Pool
      /\ tokens \in [Accounts -> Nat] /\ w \in Accounts /\ Pool \in Accounts
  BY CorridorAssumption, PoolAssumption
     DEF CorridorAssumption, PoolAssumption, IInv, TypeOK, Accounts
<1>2. /\ c.uid \in DOMAIN attestations
      /\ attestations[c.uid].subject = c.caller
      /\ ~attestations[c.uid].revoked
  BY DEF Deposit, DepositAccepted, Withdraw, WithdrawAccepted, KycAttested
<1>3. c.uid = c.caller /\ c.caller # w
  BY <1>1, <1>2 DEF IInv, OwnUids
<1>4. Pay(c.caller, Pool, c.amount) \/ Pay(Pool, c.caller, c.amount)
  BY DEF Deposit, Withdraw
<1> DEFINE x == c.amount * Scale
<1>5. \/ tokens' = [tokens EXCEPT ![c.caller] = @ - x, ![Pool] = @ + x]
      \/ tokens' = [tokens EXCEPT ![Pool] = @ - x, ![c.caller] = @ + x]
  BY <1>4 DEF Pay
<1> HIDE DEF x
<1> QED
  BY <1>1, <1>3, <1>5

\* Once the authority has revoked a wallet's attestation, none of its calls moves
\* money across an edge, however far its handlers had come, and nobody else's
\* attestation helps it (verify_kyc_attestation, assert_compliance_binds_uid).
THEOREM RevokedWalletsAreFrozen == Spec => RevokedWalletsMoveNoMoney
<1>1. ASSUME IInv, [Next]_vars, NEW w \in DOMAIN attestations, attestations[w].revoked
      PROVE  tokens'[w] = tokens[w]
  <2>1. CASE tokens' = tokens
    BY <2>1
  <2>2. ASSUME NEW c \in inFlight, Land(c)
        PROVE  tokens'[w] = tokens[w]
    <3>1. CASE c.kind = "deposit" /\ Deposit(c)
      BY <1>1, <3>1, EdgeIsLive
    <3>2. CASE c.kind = "transfer" /\ Transfer(c)
      BY <3>2 DEF Transfer
    <3>3. CASE c.kind = "withdraw" /\ Withdraw(c)
      BY <1>1, <3>3, EdgeIsLive
    <3> QED
      BY <1>1, <2>2, <3>1, <3>2, <3>3, LandIsOne
  <2> QED
    BY <1>1, <2>1, <2>2, OnlyLandingMatters
<1>2. IInv /\ [Next]_vars =>
        [\A w \in DOMAIN attestations : attestations[w].revoked => tokens'[w] = tokens[w]]_vars
  BY <1>1
<1> QED
  BY <1>2, Invariance, PTL DEF Spec, RevokedWalletsMoveNoMoney
===============================================================================
