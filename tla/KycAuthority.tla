----------------------------- MODULE KycAuthority -----------------------------
(***************************************************************************)
(* The issuer as a KYC authority (mock-issuer/src/kyc-attest.ts and the    *)
(* /api/kyc routes of index.ts) against AttestProtocol, the contract that  *)
(* stores attestations (external).                                         *)
(*                                                                         *)
(* The issuer keeps one JSON file, wallet -> record, which every handler   *)
(* reads and rewrites whole.  A handler is a request; it yields at every   *)
(* await, so requests interleave there: between the check or the reading   *)
(* of the file and the reading of the nonce, and between the sending of    *)
(* the transaction and its result.  A request may die at any of them (an   *)
(* RPC error, a poll that runs out, a restart); what it sent may still     *)
(* land.  The SDK call returns only for a transaction that succeeded.      *)
(***************************************************************************)
EXTENDS Integers, FiniteSets

CONSTANTS
  Wallets,
  Requests,       \* requests that may be handled at the same time
  Denied,         \* the sanctions denylist
  Sides,          \* sides of the corridor that a claim may be for: "send", "receive"
  Validity,       \* lifetime of an attestation (365 days), in ticks of the clock
  MaxNonce,       \* bound: attestations issued
  MaxRevocations, \* bound: revocations made
  MaxTime         \* bound: last tick

ASSUME AuthorityAssumption ==
  /\ Denied \subseteq Wallets
  /\ Validity \in Nat \ {0}
  /\ MaxNonce \in Nat
  /\ MaxRevocations \in Nat
  /\ MaxTime \in Nat

VARIABLES
  attestations,   \* AttestProtocol: attestation of each issued UID
  attesterNonce,  \* AttestProtocol: the authority's next attester nonce
  revokerNonce,   \* AttestProtocol: the authority's next revoker nonce
  inFlight,       \* delegated transactions sent and not yet settled
  db,             \* .kyc-attestations.json: the record of each wallet
  request,        \* how far each request has come
  now

chainVars == <<attestations, attesterNonce, revokerNonce>>
vars == <<chainVars, inFlight, db, request, now>>

\* computeAttestationUid: a hash of the subject and the attester nonce.
Uid(subject, nonce) == <<subject, nonce>>
Uids == Wallets \X (0 .. MaxNonce)

Put(f, k, v) == [x \in DOMAIN f \cup {k} |-> IF x = k THEN v ELSE f[x]]

Idle == [stage |-> "idle"]
At(r, kind, stage) == /\ request[r].stage = stage
                      /\ request[r].stage # "idle" => request[r].kind = kind
Set(r, new) == request' = [request EXCEPT ![r] = new]

\* A request that starts has nothing in flight under its name.
Free(r) == request[r] = Idle /\ \A t \in inFlight : t.by # r

-----------------------------------------------------------------------------
(***************************************************************************)
(* POST /api/kyc/enroll                                                    *)
(***************************************************************************)

\* runKycCheck: the wallet is not on the denylist.
Approved(w) == w \notin Denied

\* enrollKyc up to its first await.
StartEnroll(r, w, side) ==
  /\ Free(r)
  /\ Approved(w)
  /\ Set(r, [kind |-> "enroll", stage |-> "started", subject |-> w, side |-> side])
  /\ UNCHANGED <<chainVars, inFlight, db, now>>

\* What the authority's key signs of an enrolment, with the nonce it may be used for.
AttestMessage(r, subject, side, nonce) ==
  [by      |-> r,
   kind    |-> "enroll",
   subject |-> subject,
   claim   |-> side,
   nonce   |-> nonce,
   uid     |-> Uid(subject, nonce),
   expires |-> now + Validity]

\* getAttesterNonce, then the message is signed and handed to the submitter.
SendAttestation(r) ==
  LET q == request[r]
      t == AttestMessage(r, q.subject, q.side, attesterNonce)
  IN
    /\ At(r, "enroll", "started")
    /\ attesterNonce < MaxNonce
    /\ inFlight' = inFlight \cup {t}
    /\ Set(r, [kind |-> "enroll", stage |-> "sent", tx |-> t])
    /\ UNCHANGED <<chainVars, db, now>>

\* Mutant: the record is written as soon as the transaction is sent.
RecordUnlanded(r) ==
  LET t == request[r].tx IN
    /\ At(r, "enroll", "sent")
    /\ db' = Put(db, t.subject, [uid |-> t.uid, revoked |-> FALSE])
    /\ Set(r, Idle)
    /\ UNCHANGED <<chainVars, inFlight, now>>

\* Mutant: a renewed record keeps what it said but for the mark.
RecordRenewal(r) ==
  LET t == request[r].tx IN
    /\ At(r, "enroll", "landed")
    /\ db' = Put(db, t.subject,
         [uid |-> IF t.subject \in DOMAIN db THEN db[t.subject].uid ELSE t.uid,
          revoked |-> FALSE])
    /\ Set(r, Idle)
    /\ UNCHANGED <<chainVars, inFlight, now>>

\* The rest of enrollKyc: the file is read and written without an await
\* between, and the wallet's earlier record, if any, is replaced.
RecordEnrolment(r) ==
  LET t == request[r].tx IN
    /\ At(r, "enroll", "landed")
    /\ db' = Put(db, t.subject, [uid |-> t.uid, revoked |-> FALSE])
    /\ Set(r, Idle)
    /\ UNCHANGED <<chainVars, inFlight, now>>

-----------------------------------------------------------------------------
(***************************************************************************)
(* POST /api/kyc/revoke                                                    *)
(***************************************************************************)

\* Mutant: a wallet that is not on file may be revoked.
StartRevokeUnknown(r, w) ==
  /\ Free(r)
  /\ Set(r, [kind |-> "revoke", stage |-> "started", subject |-> w, db |-> db])
  /\ UNCHANGED <<chainVars, inFlight, db, now>>

\* revokeKyc up to its first await: the whole file is read.
StartRevoke(r, w) ==
  /\ Free(r)
  /\ w \in DOMAIN db
  /\ Set(r, [kind |-> "revoke", stage |-> "started", subject |-> w, db |-> db])
  /\ UNCHANGED <<chainVars, inFlight, db, now>>

\* ... and of a revocation.
RevokeMessage(r, subject, uid, nonce) ==
  [by |-> r, kind |-> "revoke", subject |-> subject, nonce |-> nonce, uid |-> uid]

\* getRevokerNonce, then the message is signed and handed to the submitter.
SendRevocation(r) ==
  LET q == request[r]
      t == RevokeMessage(r, q.subject, q.db[q.subject].uid, revokerNonce)
  IN
    /\ At(r, "revoke", "started")
    /\ revokerNonce < MaxRevocations
    /\ inFlight' = inFlight \cup {t}
    /\ Set(r, [kind |-> "revoke", stage |-> "sent", tx |-> t, db |-> q.db])
    /\ UNCHANGED <<chainVars, db, now>>

\* The rest of revokeKyc: the file is written back as it was read at the start,
\* with the wallet's record marked.
RecordRevocation(r) ==
  LET q == request[r] IN
    /\ At(r, "revoke", "landed")
    /\ db' = [q.db EXCEPT ![q.tx.subject].revoked = TRUE]
    /\ Set(r, Idle)
    /\ UNCHANGED <<chainVars, inFlight, now>>

\* An await rejects, or the issuer restarts: the request ends where it is.
Die(r) ==
  /\ request[r] # Idle
  /\ Set(r, Idle)
  /\ UNCHANGED <<chainVars, inFlight, db, now>>

-----------------------------------------------------------------------------
(***************************************************************************)
(* AttestProtocol and the network (external).  A delegated message is      *)
(* accepted only with the authority's current nonce, so of two requests    *)
(* that read the same one, one fails.                                      *)
(***************************************************************************)

AttestAccepted(t) == t.kind = "enroll" /\ t.nonce = attesterNonce

RevokeAccepted(t) ==
  /\ t.kind = "revoke"
  /\ t.nonce = revokerNonce
  /\ t.uid \in DOMAIN attestations
  /\ ~attestations[t.uid].revoked

\* The transaction leaves the network, and its request learns the outcome.
Settle(t) ==
  /\ t \in inFlight
  /\ inFlight' = inFlight \ {t}
  /\ request' = [r \in Requests |->
                   IF request[r].stage = "sent" /\ request[r].tx = t
                     THEN [request[r] EXCEPT !.stage = "landed"]
                     ELSE request[r]]

LandAttestation(t) ==
  /\ Settle(t)
  /\ AttestAccepted(t)
  /\ attestations' = Put(attestations, t.uid,
       [subject |-> t.subject, claim |-> t.claim, revoked |-> FALSE, expires |-> t.expires])
  /\ attesterNonce' = attesterNonce + 1
  /\ UNCHANGED <<revokerNonce, db, now>>

LandRevocation(t) ==
  /\ Settle(t)
  /\ RevokeAccepted(t)
  /\ attestations' = [attestations EXCEPT ![t.uid].revoked = TRUE]
  /\ revokerNonce' = revokerNonce + 1
  /\ UNCHANGED <<attesterNonce, db, now>>

\* Rejected, or never included before its deadline (600 s).
Drop(t) ==
  /\ inFlight' = inFlight \ {t}
  /\ UNCHANGED <<chainVars, db, request, now>>

Tick ==
  /\ now < MaxTime
  /\ now' = now + 1
  /\ UNCHANGED <<chainVars, inFlight, db, request>>

-----------------------------------------------------------------------------

Empty == [x \in {} |-> x]

Init ==
  /\ attestations = Empty
  /\ attesterNonce = 0
  /\ revokerNonce = 0
  /\ inFlight = {}
  /\ db = Empty
  /\ request = [r \in Requests |-> Idle]
  /\ now = 0

Handle(r) ==
  \/ \E w \in Wallets, side \in Sides : StartEnroll(r, w, side)
  \/ \E w \in Wallets : StartRevoke(r, w)
  \/ SendAttestation(r)
  \/ SendRevocation(r)
  \/ RecordEnrolment(r)
  \/ RecordRevocation(r)
  \/ Die(r)

Network == \E t \in inFlight : LandAttestation(t) \/ LandRevocation(t) \/ Drop(t)

Next == (\E r \in Requests : Handle(r)) \/ Network \/ Tick

Spec == Init /\ [][Next]_vars

-----------------------------------------------------------------------------
(***************************************************************************)
(* Properties.                                                             *)
(***************************************************************************)

Attestation ==
  [subject : Wallets, claim : Sides, revoked : BOOLEAN, expires : Nat]
Record == [uid : Uids, revoked : BOOLEAN]
IsFile(f) == DOMAIN f \subseteq Wallets /\ \A w \in DOMAIN f : f[w] \in Record

Transaction ==
  [by : Requests, kind : {"enroll"}, subject : Wallets, claim : Sides,
   nonce : 0 .. MaxNonce, uid : Uids, expires : Nat]
  \cup
  [by : Requests, kind : {"revoke"}, subject : Wallets,
   nonce : 0 .. MaxRevocations, uid : Uids]

IsRequest(q) ==
  \/ q = Idle
  \/ q \in [kind : {"enroll"}, stage : {"started"}, subject : Wallets, side : Sides]
  \/ q \in [kind : {"enroll"}, stage : {"sent", "landed"}, tx : Transaction]
  \/ /\ q.kind = "revoke"
     /\ IsFile(q.db)
     /\ \/ q.stage = "started" /\ q.subject \in DOMAIN q.db
        \/ /\ q.stage \in {"sent", "landed"}
           /\ q.tx \in Transaction
           /\ q.tx.subject \in DOMAIN q.db

RequestsTyped ==
  /\ DOMAIN request = Requests
  /\ \A r \in Requests : IsRequest(request[r])

\* Every variable stays in its type.
TypeOK ==
  /\ DOMAIN attestations \subseteq Uids
  /\ \A u \in DOMAIN attestations : attestations[u] \in Attestation
  /\ attesterNonce \in 0 .. MaxNonce
  /\ revokerNonce \in 0 .. MaxRevocations
  /\ inFlight \subseteq Transaction
  /\ IsFile(db)
  /\ RequestsTyped
  /\ now \in 0 .. MaxTime

\* The issuer's file only tells the truth: a wallet's record is of an
\* attestation that is on the chain and about that wallet, and a record marked
\* revoked is of one that is revoked.  This in spite of colliding nonces, of
\* requests that died half way and of files written back late.
RecordsAreTrue ==
  \A w \in DOMAIN db :
    /\ db[w].uid \in DOMAIN attestations
    /\ attestations[db[w].uid].subject = w
    /\ db[w].revoked => attestations[db[w].uid].revoked

\* A wallet whose attestation is revoked while its record does not say so.  Its
\* status is as good as the `revoked` that the SDK's decode surfaces, which
\* getKycStatus does not rely on (kyc-attest.ts:592-593).
Overlooked(w) ==
  /\ w \in DOMAIN db
  /\ ~db[w].revoked
  /\ db[w].uid \in DOMAIN attestations
  /\ attestations[db[w].uid].revoked

\* A revocation comes to be overlooked in two ways only: it lands, and its request
\* has yet to write the file, or is dead; or the revocation of another wallet
\* writes back a file that it read before.  No enrolment, however late it is
\* recorded, brings a revoked attestation back.
OverlookedForCause ==
  [][\A w \in Wallets :
       ~Overlooked(w) /\ Overlooked(w)' =>
         \/ \E t \in inFlight : LandRevocation(t) /\ t.uid = db[w].uid
         \/ \E r \in Requests :
              RecordRevocation(r) /\ request[r].tx.subject # w /\ request[r].db # db]_vars

\* "so status survives issuer restarts" (kyc-attest.ts:353): a wallet once on
\* file stays on file.
NoWalletForgotten == [][DOMAIN db \subseteq DOMAIN db']_vars

\* "After this propagates, the pool's on-chain gate rejects the wallet"
\* (index.ts:1157): once the file says that a wallet is revoked, no
\* attestation about the wallet is live.
RevokedWalletIsShutOut ==
  \A w \in DOMAIN db :
    db[w].revoked =>
      \A u \in DOMAIN attestations :
        attestations[u].subject = w => \/ attestations[u].revoked
                                       \/ attestations[u].expires <= now
=============================================================================
