------------------------------- MODULE KycProofs -------------------------------
(***************************************************************************)
(* What the KYC authority guarantees for every number of wallets, requests *)
(* and nonces, whatever dies, collides or lands late, and what the page in *)
(* front of it adds.                                                       *)
(*                                                                         *)
(* RecordsAreTrue is not inductive: it needs that a request which has seen *)
(* its transaction land names an attestation that is there, that the file  *)
(* a revocation still holds is as true as the one on disk, and that an     *)
(* attestation once issued is never issued again under the same UID, for   *)
(* the nonce of a UID is behind the authority's own (IInv).                *)
(*                                                                         *)
(* The page's steps are steps of the authority or none at all, so what is  *)
(* proved of the authority holds of the two together, and what the page    *)
(* says and lets through is so.  PanelIInv adds that every record the page *)
(* has been told of names an attestation about the wallet it asked for,    *)
(* and that the request it waits for is the one it made.                   *)
(***************************************************************************)
EXTENDS KycPanel, TLAPS

-----------------------------------------------------------------------------
(***************************************************************************)
(* The authority.                                                          *)
(***************************************************************************)

\* The attestations `att` hold one with this UID about this wallet.
OnChain(att, u, w) == u \in DOMAIN att /\ att[u].subject = w

FileTrue(att, f) ==
  \A w \in DOMAIN f :
    /\ OnChain(att, f[w].uid, w)
    /\ f[w].revoked => att[f[w].uid].revoked

RequestTrue(att, q) ==
  \/ q = Idle
  \/ q.kind = "enroll" /\ q.stage = "started" /\ q.subject \notin Denied
  \/ /\ q.kind = "enroll" /\ q.stage \in {"sent", "landed"}
     /\ q.tx.kind = "enroll"
     /\ q.stage = "landed" => OnChain(att, q.tx.uid, q.tx.subject)
  \/ q.kind = "revoke" /\ q.stage = "started" /\ FileTrue(att, q.db)
  \/ /\ q.kind = "revoke" /\ q.stage \in {"sent", "landed"} /\ FileTrue(att, q.db)
     /\ q.tx.kind = "revoke"
     /\ q.tx.uid = q.db[q.tx.subject].uid
     /\ q.stage = "landed" => att[q.tx.uid].revoked

RequestsTrue == \A r \in Requests : RequestTrue(attestations, request[r])

\* What is in flight was sent under a nonce of the authority.
TransactionTrue(t) ==
  /\ t.kind = "enroll" => t.nonce < MaxNonce
  /\ t.kind = "revoke" => t.nonce < MaxRevocations
  /\ t.kind = "enroll" => t.uid = Uid(t.subject, t.nonce) /\ t.subject \notin Denied

TransactionsTrue == \A t \in inFlight : TransactionTrue(t)

\* The nonces of issued UIDs are used up, and the authority vouches for nobody on
\* its denylist.
UidsUsed ==
  \A u \in DOMAIN attestations :
    /\ attestations[u].subject = u[1]
    /\ u[2] < attesterNonce
    /\ attestations[u].subject \notin Denied

IInv ==
  /\ TypeOK
  /\ RecordsAreTrue
  /\ RequestsTrue
  /\ TransactionsTrue
  /\ UidsUsed

\* Attestations stay, about whom they are, and revoked ones stay revoked.
Grows(old, new) ==
  /\ DOMAIN old \subseteq DOMAIN new
  /\ \A u \in DOMAIN old :
       /\ new[u].subject = old[u].subject
       /\ old[u].revoked => new[u].revoked

-----------------------------------------------------------------------------

LEMMA GrowthKeepsFiles ==
  ASSUME NEW old, NEW new, Grows(old, new), NEW f, FileTrue(old, f)
  PROVE  FileTrue(new, f)
  BY DEF Grows, FileTrue, OnChain

LEMMA GrowthKeepsRequests ==
  ASSUME NEW old, NEW new, Grows(old, new), NEW q, RequestTrue(old, q),
         q # Idle /\ q.kind = "revoke" /\ q.stage \in {"sent", "landed"}
           => q.tx.subject \in DOMAIN q.db
  PROVE  RequestTrue(new, q)
<1>1. \A u, w : OnChain(old, u, w) => OnChain(new, u, w)
  BY DEF Grows, OnChain
<1>2. \A f : FileTrue(old, f) => FileTrue(new, f)
  BY GrowthKeepsFiles
<1>3. \A f, w : FileTrue(old, f) /\ w \in DOMAIN f => f[w].uid \in DOMAIN old
  BY DEF FileTrue, OnChain
<1>4. \A u \in DOMAIN old : old[u].revoked => new[u].revoked
  BY DEF Grows
<1>5. CASE q = Idle
  BY <1>5 DEF RequestTrue
<1>6. CASE q # Idle
  BY <1>1, <1>2, <1>3, <1>4, <1>6, Zenon DEF RequestTrue
<1> QED
  BY <1>5, <1>6

\* A request in the type of requests.
LEMMA RequestKinds ==
  ASSUME TypeOK, NEW r \in Requests, request[r] # Idle
  PROVE  /\ request[r].kind = "revoke" => IsFile(request[r].db)
         /\ request[r].kind = "revoke" /\ request[r].stage \in {"sent", "landed"}
              => request[r].tx.subject \in DOMAIN request[r].db
         /\ request[r].stage \in {"sent", "landed"} => request[r].tx \in Transaction
  BY DEF TypeOK, RequestsTyped, IsRequest

\* A record put into a true file, if it is true itself.
LEMMA TrueRecord ==
  ASSUME NEW att, NEW f, FileTrue(att, f), NEW w, NEW rec, OnChain(att, rec.uid, w),
         rec.revoked => att[rec.uid].revoked
  PROVE  FileTrue(att, Put(f, w, rec))
<1>1. /\ DOMAIN Put(f, w, rec) = DOMAIN f \cup {w}
      /\ Put(f, w, rec)[w] = rec
      /\ \A x \in DOMAIN f : x # w => Put(f, w, rec)[x] = f[x]
  BY DEF Put
<1> QED
  BY <1>1 DEF FileTrue

LEMMA FileOfRecords ==
  ASSUME NEW f, IsFile(f), NEW w \in Wallets, NEW rec \in Record
  PROVE  IsFile(Put(f, w, rec))
  BY DEF IsFile, Put

LEMMA SetRequest ==
  ASSUME TypeOK, RequestsTrue, NEW r \in Requests, NEW new, Set(r, new),
         IsRequest(new), RequestTrue(attestations, new), attestations' = attestations
  PROVE  RequestsTyped' /\ RequestsTrue'
<1>1. \A x \in Requests : request'[x] = new \/ request'[x] = request[x]
  BY DEF Set, TypeOK, RequestsTyped
<1>2. \A x \in Requests : IsRequest(request[x]) /\ RequestTrue(attestations, request[x])
  BY DEF TypeOK, RequestsTyped, RequestsTrue
<1>3. DOMAIN request' = Requests
  BY DEF TypeOK, RequestsTyped, Set
<1> QED
  BY <1>1, <1>2, <1>3 DEF RequestsTyped, RequestsTrue

-----------------------------------------------------------------------------
(***************************************************************************)
(* The handlers: the chain stays as it is.                                 *)
(***************************************************************************)

LEMMA StartEnrollStep ==
  ASSUME IInv, NEW r \in Requests, NEW w \in Wallets, NEW side \in Sides,
         StartEnroll(r, w, side)
  PROVE  IInv'
<1> DEFINE q == [kind |-> "enroll", stage |-> "started", subject |-> w, side |-> side]
<1>1. IsRequest(q) /\ RequestTrue(attestations, q)
  BY DEF IsRequest, RequestTrue, StartEnroll, Approved
<1>2. RequestsTyped' /\ RequestsTrue'
  BY <1>1, SetRequest DEF IInv, StartEnroll, chainVars
<1> QED
  BY <1>2 DEF IInv, TypeOK, RecordsAreTrue, TransactionsTrue, UidsUsed, StartEnroll, chainVars

LEMMA SendAttestationStep ==
  ASSUME IInv, NEW r \in Requests, SendAttestation(r)
  PROVE  IInv'
<1> DEFINE t == [by |-> r, kind |-> "enroll", subject |-> request[r].subject,
                 claim |-> request[r].side, nonce |-> attesterNonce,
                 uid |-> Uid(request[r].subject, attesterNonce),
                 expires |-> now + Validity]
           q == [kind |-> "enroll", stage |-> "sent", tx |-> t]
<1>1. request[r].stage = "started" /\ request[r].kind = "enroll" /\ request[r] # Idle
  BY DEF SendAttestation, At, Idle
<1>2. request[r].subject \in Wallets /\ request[r].side \in Sides
  BY <1>1 DEF IInv, TypeOK, RequestsTyped, IsRequest
<1>3. request[r].subject \notin Denied
  BY <1>1 DEF IInv, RequestsTrue, RequestTrue
<1>4. attesterNonce \in 0 .. MaxNonce /\ attesterNonce < MaxNonce
  BY DEF IInv, TypeOK, SendAttestation
<1>5. now + Validity \in Nat
  BY AuthorityAssumption DEF IInv, TypeOK, AuthorityAssumption
<1>6. t \in Transaction
  BY <1>2, <1>4, <1>5 DEF Transaction, Uids, Uid
<1>7. TransactionTrue(t)
  BY <1>3, <1>4 DEF TransactionTrue
<1>8. inFlight' = inFlight \cup {t} /\ Set(r, q) /\ UNCHANGED <<chainVars, db, now>>
  BY DEF SendAttestation, AttestMessage
<1>9. t.kind = "enroll"
  OBVIOUS
<1> HIDE DEF t
<1>10. IsRequest(q) /\ RequestTrue(attestations, q)
  BY <1>6, <1>9 DEF IsRequest, RequestTrue
<1>11. RequestsTyped' /\ RequestsTrue'
  BY <1>8, <1>10, SetRequest DEF IInv, chainVars
<1>12. TransactionsTrue'
  BY <1>7, <1>8 DEF IInv, TransactionsTrue, TransactionTrue
<1> QED
  BY <1>6, <1>8, <1>11, <1>12 DEF IInv, TypeOK, RecordsAreTrue, UidsUsed, chainVars

LEMMA RecordEnrolmentStep ==
  ASSUME IInv, NEW r \in Requests, RecordEnrolment(r)
  PROVE  IInv'
<1> DEFINE t == request[r].tx
           rec == [uid |-> t.uid, revoked |-> FALSE]
<1>1. request[r].stage = "landed" /\ request[r].kind = "enroll" /\ request[r] # Idle
  BY DEF RecordEnrolment, At, Idle
<1>2. t \in Transaction
  BY <1>1, RequestKinds DEF IInv
<1>3. OnChain(attestations, t.uid, t.subject)
  BY <1>1 DEF IInv, RequestsTrue, RequestTrue
<1>4. t.subject \in Wallets /\ rec \in Record
  BY <1>2 DEF Transaction, Record
<1>5. FileTrue(attestations, db)
  BY DEF IInv, RecordsAreTrue, FileTrue, OnChain
<1>6. db' = Put(db, t.subject, rec) /\ Set(r, Idle) /\ UNCHANGED <<chainVars, inFlight, now>>
  BY DEF RecordEnrolment
<1>7. rec.uid = t.uid /\ rec.revoked = FALSE
  OBVIOUS
<1> HIDE DEF t, rec
<1>8. IsFile(db')
  BY <1>4, <1>6, FileOfRecords DEF IInv, TypeOK
<1>9. FileTrue(attestations, db')
  BY <1>3, <1>5, <1>6, <1>7, TrueRecord
<1>10. RecordsAreTrue'
  BY <1>6, <1>9 DEF RecordsAreTrue, FileTrue, OnChain, chainVars
<1>11. IsRequest(Idle) /\ RequestTrue(attestations, Idle)
  BY DEF IsRequest, RequestTrue
<1>12. RequestsTyped' /\ RequestsTrue'
  BY <1>6, <1>11, SetRequest DEF IInv, chainVars
<1> QED
  BY <1>6, <1>8, <1>10, <1>12 DEF IInv, TypeOK, TransactionsTrue, UidsUsed, chainVars

LEMMA StartRevokeStep ==
  ASSUME IInv, NEW r \in Requests, NEW w \in Wallets, StartRevoke(r, w)
  PROVE  IInv'
<1> DEFINE q == [kind |-> "revoke", stage |-> "started", subject |-> w, db |-> db]
<1>1. FileTrue(attestations, db)
  BY DEF IInv, RecordsAreTrue, FileTrue, OnChain
<1>2. IsRequest(q) /\ RequestTrue(attestations, q)
  BY <1>1 DEF IInv, TypeOK, IsRequest, RequestTrue, StartRevoke
<1>3. RequestsTyped' /\ RequestsTrue'
  BY <1>2, SetRequest DEF IInv, StartRevoke, chainVars
<1> QED
  BY <1>3 DEF IInv, TypeOK, RecordsAreTrue, TransactionsTrue, UidsUsed, StartRevoke, chainVars

LEMMA SendRevocationStep ==
  ASSUME IInv, NEW r \in Requests, SendRevocation(r)
  PROVE  IInv'
<1> DEFINE w == request[r].subject
           file == request[r].db
           t == [by |-> r, kind |-> "revoke", subject |-> w, nonce |-> revokerNonce,
                 uid |-> file[w].uid]
           q == [kind |-> "revoke", stage |-> "sent", tx |-> t, db |-> file]
<1>1. request[r].stage = "started" /\ request[r].kind = "revoke" /\ request[r] # Idle
  BY DEF SendRevocation, At, Idle
<1>2. IsFile(file) /\ w \in DOMAIN file
  BY <1>1 DEF IInv, TypeOK, RequestsTyped, IsRequest
<1>3. FileTrue(attestations, file)
  BY <1>1 DEF IInv, RequestsTrue, RequestTrue
<1>4. revokerNonce \in 0 .. MaxRevocations /\ revokerNonce < MaxRevocations
  BY DEF IInv, TypeOK, SendRevocation
<1>5. w \in Wallets /\ file[w].uid \in Uids
  BY <1>2 DEF IsFile, Record
<1>6. inFlight' = inFlight \cup {t} /\ Set(r, q) /\ UNCHANGED <<chainVars, db, now>>
  BY DEF SendRevocation, RevokeMessage
<1> HIDE DEF w, file
<1>7. t \in Transaction
  BY <1>4, <1>5 DEF Transaction
<1>8. t.kind = "revoke" /\ t.subject = w /\ t.uid = file[w].uid /\ t.nonce = revokerNonce
  OBVIOUS
<1> HIDE DEF t
<1>9. TransactionTrue(t)
  BY <1>4, <1>8 DEF TransactionTrue
<1>10. IsRequest(q) /\ RequestTrue(attestations, q)
  BY <1>2, <1>3, <1>7, <1>8 DEF IsRequest, RequestTrue
<1>11. RequestsTyped' /\ RequestsTrue'
  BY <1>6, <1>10, SetRequest DEF IInv, chainVars
<1>12. TransactionsTrue'
  BY <1>6, <1>9 DEF IInv, TransactionsTrue, TransactionTrue
<1> QED
  BY <1>6, <1>7, <1>11, <1>12 DEF IInv, TypeOK, RecordsAreTrue, UidsUsed, chainVars

LEMMA RecordRevocationStep ==
  ASSUME IInv, NEW r \in Requests, RecordRevocation(r)
  PROVE  IInv'
<1> DEFINE file == request[r].db
           w == request[r].tx.subject
           new == [file EXCEPT ![w].revoked = TRUE]
<1>1. request[r].stage = "landed" /\ request[r].kind = "revoke" /\ request[r] # Idle
  BY DEF RecordRevocation, At, Idle
<1>2. IsFile(file) /\ w \in DOMAIN file
  BY <1>1, RequestKinds DEF IInv
<1>3. FileTrue(attestations, file) /\ attestations[file[w].uid].revoked
  BY <1>1 DEF IInv, RequestsTrue, RequestTrue
<1>4. db' = new /\ Set(r, Idle) /\ UNCHANGED <<chainVars, inFlight, now>>
  BY DEF RecordRevocation
<1> HIDE DEF file, w
<1>5. \A x \in DOMAIN file : file[x] \in Record
  BY <1>2 DEF IsFile
<1>6. /\ DOMAIN new = DOMAIN file
      /\ \A x \in DOMAIN file : x # w => new[x] = file[x]
      /\ new[w] \in Record /\ new[w].uid = file[w].uid
  BY <1>2, <1>5 DEF Record
<1> HIDE DEF new
<1>7. IsFile(new)
  BY <1>2, <1>5, <1>6 DEF IsFile
<1>8. FileTrue(attestations, new)
  BY <1>3, <1>6 DEF FileTrue
<1>9. RecordsAreTrue'
  BY <1>4, <1>8 DEF RecordsAreTrue, FileTrue, OnChain, chainVars
<1>10. IsRequest(Idle) /\ RequestTrue(attestations, Idle)
  BY DEF IsRequest, RequestTrue
<1>11. RequestsTyped' /\ RequestsTrue'
  BY <1>4, <1>10, SetRequest DEF IInv, chainVars
<1> QED
  BY <1>4, <1>7, <1>9, <1>11 DEF IInv, TypeOK, TransactionsTrue, UidsUsed, chainVars

LEMMA DieStep ==
  ASSUME IInv, NEW r \in Requests, Die(r)
  PROVE  IInv'
<1>1. IsRequest(Idle) /\ RequestTrue(attestations, Idle)
  BY DEF IsRequest, RequestTrue
<1>2. RequestsTyped' /\ RequestsTrue'
  BY <1>1, SetRequest DEF IInv, Die, chainVars
<1> QED
  BY <1>2 DEF IInv, TypeOK, RecordsAreTrue, TransactionsTrue, UidsUsed, Die, chainVars

-----------------------------------------------------------------------------
(***************************************************************************)
(* The network: a transaction settles, the chain grows.                    *)
(***************************************************************************)

\* What the chain is after `t` has landed.
LEMMA AttestationLands ==
  ASSUME IInv, NEW t \in inFlight, LandAttestation(t)
  PROVE  /\ Grows(attestations, attestations')
         /\ OnChain(attestations', t.uid, t.subject)
         /\ UidsUsed'
         /\ DOMAIN attestations' \subseteq Uids
         /\ \A u \in DOMAIN attestations' : attestations'[u] \in Attestation
         /\ attesterNonce' \in 0 .. MaxNonce
<1> DEFINE a == [subject |-> t.subject, claim |-> t.claim, revoked |-> FALSE,
                 expires |-> t.expires]
<1>1. /\ t.kind = "enroll" /\ t.nonce = attesterNonce
      /\ attestations' = Put(attestations, t.uid, a)
      /\ attesterNonce' = attesterNonce + 1
  BY DEF LandAttestation, AttestAccepted
<1>2. t \in Transaction /\ attesterNonce \in 0 .. MaxNonce
  BY DEF IInv, TypeOK
<1>3. t.uid = <<t.subject, t.nonce>> /\ t.nonce < MaxNonce /\ t.subject \notin Denied
  BY <1>1 DEF IInv, TransactionsTrue, TransactionTrue, Uid
<1>4. /\ t.subject \in Wallets /\ t.uid \in Uids
      /\ a \in Attestation /\ a.subject = t.subject
  BY <1>1, <1>2 DEF Transaction, Attestation
<1> HIDE DEF a
<1>5. /\ DOMAIN attestations' = DOMAIN attestations \cup {t.uid}
      /\ attestations'[t.uid] = a
      /\ \A u \in DOMAIN attestations : u # t.uid => attestations'[u] = attestations[u]
  BY <1>1 DEF Put
<1>6. t.uid \notin DOMAIN attestations
  BY <1>1, <1>2, <1>3 DEF IInv, UidsUsed
<1>7. Grows(attestations, attestations')
  BY <1>5, <1>6 DEF Grows
<1>8. UidsUsed'
  BY <1>1, <1>2, <1>3, <1>4, <1>5 DEF IInv, TypeOK, UidsUsed, Uids
<1>9. OnChain(attestations', t.uid, t.subject)
  BY <1>4, <1>5 DEF OnChain
<1>10. DOMAIN attestations' \subseteq Uids
  BY <1>4, <1>5 DEF IInv, TypeOK
<1>11. \A u \in DOMAIN attestations' : attestations'[u] \in Attestation
  BY <1>4, <1>5 DEF IInv, TypeOK
<1>12. attesterNonce' \in 0 .. MaxNonce
  BY <1>1, <1>2, <1>3, AuthorityAssumption DEF AuthorityAssumption
<1> QED
  BY <1>7, <1>8, <1>9, <1>10, <1>11, <1>12

LEMMA RevocationLands ==
  ASSUME IInv, NEW t \in inFlight, LandRevocation(t)
  PROVE  /\ Grows(attestations, attestations')
         /\ attestations'[t.uid].revoked
         /\ UidsUsed'
         /\ DOMAIN attestations' \subseteq Uids
         /\ \A u \in DOMAIN attestations' : attestations'[u] \in Attestation
         /\ revokerNonce' \in 0 .. MaxRevocations
<1>1. /\ t.kind = "revoke" /\ t.nonce = revokerNonce /\ t.uid \in DOMAIN attestations
      /\ attestations' = [attestations EXCEPT ![t.uid].revoked = TRUE]
      /\ revokerNonce' = revokerNonce + 1 /\ attesterNonce' = attesterNonce
  BY DEF LandRevocation, RevokeAccepted
<1>2. t.nonce < MaxRevocations /\ revokerNonce \in 0 .. MaxRevocations
  BY <1>1 DEF IInv, TypeOK, TransactionsTrue, TransactionTrue
<1>3. /\ DOMAIN attestations' = DOMAIN attestations
      /\ \A u \in DOMAIN attestations : attestations[u] \in Attestation
      /\ \A u \in DOMAIN attestations : u # t.uid => attestations'[u] = attestations[u]
      /\ attestations'[t.uid] = [attestations[t.uid] EXCEPT !.revoked = TRUE]
  BY <1>1 DEF IInv, TypeOK
<1>4. /\ attestations'[t.uid] \in Attestation /\ attestations'[t.uid].revoked
      /\ attestations'[t.uid].subject = attestations[t.uid].subject
  BY <1>1, <1>3 DEF Attestation
<1>5. Grows(attestations, attestations')
  BY <1>3, <1>4 DEF Grows
<1>6. UidsUsed'
  BY <1>1, <1>3, <1>4 DEF IInv, UidsUsed
<1>7. DOMAIN attestations' \subseteq Uids
  BY <1>3 DEF IInv, TypeOK
<1>8. \A u \in DOMAIN attestations' : attestations'[u] \in Attestation
  BY <1>3, <1>4
<1>9. revokerNonce' \in 0 .. MaxRevocations
  BY <1>1, <1>2, AuthorityAssumption DEF AuthorityAssumption
<1> QED
  BY <1>4, <1>5, <1>6, <1>7, <1>8, <1>9

\* A request that learns that its transaction has landed, on a chain that has
\* grown by it.
LEMMA SettleStep ==
  ASSUME IInv, NEW t \in inFlight, Settle(t), Grows(attestations, attestations'),
         t.kind = "enroll" => OnChain(attestations', t.uid, t.subject),
         t.kind = "revoke" => attestations'[t.uid].revoked
  PROVE  /\ RequestsTrue' /\ TransactionsTrue'
         /\ inFlight' \subseteq Transaction
         /\ RequestsTyped'
<1>1. inFlight' \subseteq Transaction /\ TransactionsTrue'
  BY DEF IInv, TypeOK, Settle, TransactionsTrue, TransactionTrue
<1>2. ASSUME NEW r \in Requests
      PROVE  IsRequest(request'[r]) /\ RequestTrue(attestations', request'[r])
  <2> DEFINE q == request[r]
  <2>1. IsRequest(q) /\ RequestTrue(attestations, q)
    BY DEF IInv, TypeOK, RequestsTyped, RequestsTrue
  <2>2. RequestTrue(attestations', q)
    <3>1. q # Idle /\ q.kind = "revoke" /\ q.stage \in {"sent", "landed"}
            => q.tx.subject \in DOMAIN q.db
      BY RequestKinds DEF IInv
    <3> QED
      BY <2>1, <3>1, GrowthKeepsRequests
  <2>3. CASE ~(q.stage = "sent" /\ q.tx = t)
    BY <2>1, <2>2, <2>3 DEF Settle
  <2>4. CASE q.stage = "sent" /\ q.tx = t
    <3>1. request'[r] = [q EXCEPT !.stage = "landed"]
      BY <2>4 DEF Settle
    <3>2. q # Idle
      BY <2>4 DEF Idle
    <3> HIDE DEF q
    <3>3. CASE q.kind = "enroll"
      <4>1. q \in [kind : {"enroll"}, stage : {"sent", "landed"}, tx : Transaction]
        BY <2>1, <2>4, <3>2, <3>3 DEF IsRequest
      <4>2. request'[r] = [kind |-> "enroll", stage |-> "landed", tx |-> t]
        BY <2>4, <3>1, <4>1
      <4>3. t.kind = "enroll"
        BY <2>1, <2>4, <3>2, <3>3 DEF RequestTrue
      <4> QED
        BY <2>4, <4>1, <4>2, <4>3 DEF IsRequest, RequestTrue
    <3>4. CASE q.kind = "revoke"
      <4>1. t.kind = "revoke" /\ t.uid = q.db[t.subject].uid
        BY <2>1, <2>4, <3>2, <3>4 DEF RequestTrue
      <4>2. FileTrue(attestations', q.db)
        BY <2>2, <2>4, <3>2, <3>4 DEF RequestTrue
      <4>3. IsFile(q.db) /\ t \in Transaction /\ t.subject \in DOMAIN q.db
        BY <2>1, <2>4, <3>2, <3>4 DEF IsRequest
      <4> QED
        BY <2>4, <3>1, <3>4, <4>1, <4>2, <4>3 DEF IsRequest, RequestTrue
    <3> QED
      BY <2>1, <3>2, <3>3, <3>4 DEF RequestTrue
  <2> QED
    BY <2>3, <2>4
<1>3. DOMAIN request' = Requests
  BY DEF Settle
<1> QED
  BY <1>1, <1>2, <1>3 DEF RequestsTrue, RequestsTyped

LEMMA LandAttestationStep ==
  ASSUME IInv, NEW t \in inFlight, LandAttestation(t)
  PROVE  IInv'
<1>1. /\ Grows(attestations, attestations') /\ OnChain(attestations', t.uid, t.subject)
      /\ UidsUsed' /\ DOMAIN attestations' \subseteq Uids
      /\ \A u \in DOMAIN attestations' : attestations'[u] \in Attestation
      /\ attesterNonce' \in 0 .. MaxNonce
  BY AttestationLands
<1>2. /\ RequestsTrue' /\ TransactionsTrue' /\ inFlight' \subseteq Transaction
      /\ RequestsTyped'
  BY <1>1, SettleStep DEF LandAttestation, AttestAccepted
<1>3. RecordsAreTrue'
  <2>1. FileTrue(attestations, db) /\ db' = db
    BY DEF IInv, RecordsAreTrue, FileTrue, OnChain, LandAttestation
  <2>2. FileTrue(attestations', db)
    BY <1>1, <2>1, GrowthKeepsFiles
  <2> QED
    BY <2>1, <2>2 DEF RecordsAreTrue, FileTrue, OnChain
<1> QED
  BY <1>1, <1>2, <1>3 DEF IInv, TypeOK, LandAttestation

LEMMA LandRevocationStep ==
  ASSUME IInv, NEW t \in inFlight, LandRevocation(t)
  PROVE  IInv'
<1>1. /\ Grows(attestations, attestations') /\ attestations'[t.uid].revoked
      /\ UidsUsed' /\ DOMAIN attestations' \subseteq Uids
      /\ \A u \in DOMAIN attestations' : attestations'[u] \in Attestation
      /\ revokerNonce' \in 0 .. MaxRevocations
  BY RevocationLands
<1>2. /\ RequestsTrue' /\ TransactionsTrue' /\ inFlight' \subseteq Transaction
      /\ RequestsTyped'
  BY <1>1, SettleStep DEF LandRevocation, RevokeAccepted
<1>3. RecordsAreTrue'
  <2>1. FileTrue(attestations, db) /\ db' = db
    BY DEF IInv, RecordsAreTrue, FileTrue, OnChain, LandRevocation
  <2>2. FileTrue(attestations', db)
    BY <1>1, <2>1, GrowthKeepsFiles
  <2> QED
    BY <2>1, <2>2 DEF RecordsAreTrue, FileTrue, OnChain
<1> QED
  BY <1>1, <1>2, <1>3 DEF IInv, TypeOK, LandRevocation

LEMMA DropStep ==
  ASSUME IInv, NEW t \in inFlight, Drop(t)
  PROVE  IInv'
  BY DEF IInv, TypeOK, RecordsAreTrue, RequestsTrue, TransactionsTrue, UidsUsed,
         RequestsTyped, Drop, chainVars

LEMMA TickStep ==
  ASSUME IInv, Tick
  PROVE  IInv'
<1>1. now' \in 0 .. MaxTime
  BY AuthorityAssumption DEF AuthorityAssumption, IInv, TypeOK, Tick
<1> QED
  BY <1>1
     DEF IInv, TypeOK, RecordsAreTrue, RequestsTrue, TransactionsTrue, UidsUsed,
         RequestsTyped, Tick, chainVars

-----------------------------------------------------------------------------

LEMMA InitIInv == Init => IInv
<1> SUFFICES ASSUME Init PROVE IInv
  OBVIOUS
<1>1. DOMAIN Empty = {}
  BY DEF Empty
<1>2. TypeOK
  BY <1>1, AuthorityAssumption
     DEF Init, TypeOK, RequestsTyped, AuthorityAssumption, IsFile, IsRequest
<1> QED
  BY <1>1, <1>2
     DEF Init, IInv, RecordsAreTrue, RequestsTrue, RequestTrue, TransactionsTrue, UidsUsed

LEMMA NextIInv == IInv /\ [Next]_vars => IInv'
<1> SUFFICES ASSUME IInv, [Next]_vars PROVE IInv'
  OBVIOUS
<1>1. CASE UNCHANGED vars
  BY <1>1 DEF vars, chainVars, IInv, TypeOK, RequestsTyped, RecordsAreTrue, RequestsTrue,
     TransactionsTrue, UidsUsed
<1>2. ASSUME NEW r \in Requests, Handle(r) PROVE IInv'
  BY <1>2, StartEnrollStep, StartRevokeStep, SendAttestationStep, SendRevocationStep,
     RecordEnrolmentStep, RecordRevocationStep, DieStep, Zenon DEF Handle
<1>3. CASE Network
  BY <1>3, LandAttestationStep, LandRevocationStep, DropStep, Zenon DEF Network
<1>4. CASE Tick
  BY <1>4, TickStep
<1> QED
  BY <1>1, <1>2, <1>3, <1>4 DEF Next

\* The invariant of the authority, which the theorems below take apart.
LEMMA AuthorityInvariant == Spec => []IInv
  BY InitIInv, NextIInv, PTL DEF Spec

\* Every variable keeps its type: no request is left half way in a form that the
\* rest of its handler (kyc-attest.ts:410-566) could not work on.
THEOREM TypeCorrect == Spec => []TypeOK
  BY AuthorityInvariant, PTL DEF IInv

\* The issuer's file only tells the truth, whatever requests collide on a nonce,
\* die half way or write back a file they read long ago (kyc-attest.ts:480-566).
THEOREM RecordsTrue == Spec => []RecordsAreTrue
  BY AuthorityInvariant, PTL DEF IInv

\* The chain only grows, whatever the step.
LEMMA ChainGrows == IInv /\ [Next]_vars => Grows(attestations, attestations')
<1> SUFFICES ASSUME IInv, [Next]_vars PROVE Grows(attestations, attestations')
  OBVIOUS
<1>1. CASE attestations' = attestations
  BY <1>1 DEF Grows
<1>2. ASSUME NEW t \in inFlight, LandAttestation(t) PROVE Grows(attestations, attestations')
  BY <1>2, AttestationLands
<1>3. ASSUME NEW t \in inFlight, LandRevocation(t) PROVE Grows(attestations, attestations')
  BY <1>3, RevocationLands
<1> QED
  BY <1>1, <1>2, <1>3
     DEF Next, Handle, Network, vars, chainVars, Drop, Tick, StartEnroll, SendAttestation,
         RecordEnrolment, StartRevoke, SendRevocation, RecordRevocation, Die

-----------------------------------------------------------------------------
(***************************************************************************)
(* Revocations that are overlooked.                                        *)
(*                                                                         *)
(* An attestation that has landed and is not recorded yet is named         *)
(* nowhere: neither in a file nor in a revocation.  So nothing can revoke  *)
(* it before it is recorded, and recording it never brings back a revoked  *)
(* one (Unrecorded).                                                       *)
(***************************************************************************)

\* The request has an attestation to record.
Awaits(r) == request[r] # Idle /\ request[r].kind = "enroll" /\ request[r].stage = "landed"

\* The file `f` names the attestation with UID `u`.
Names(f, u) == \E w \in DOMAIN f : f[w].uid = u

Revoking(r) == request[r] # Idle /\ request[r].kind = "revoke"

\* A file, one that a revocation holds, or a revocation names it.
Known(u) ==
  \/ Names(db, u)
  \/ \E r \in Requests : Revoking(r) /\ Names(request[r].db, u)
  \/ \E t \in inFlight : t.kind = "revoke" /\ t.uid = u

\* A transaction is of the request that sent it.
Owned == \A r \in Requests : request[r].stage \in {"sent", "landed"} => request[r].tx.by = r

RevocationsOnChain ==
  \A t \in inFlight : t.kind = "revoke" => t.uid \in DOMAIN attestations

Unrecorded ==
  \A r \in Requests : Awaits(r) =>
    /\ ~Known(request[r].tx.uid)
    /\ ~attestations[request[r].tx.uid].revoked
    /\ \A s \in Requests : Awaits(s) /\ s # r => request[s].tx.uid # request[r].tx.uid

UInv == Owned /\ RevocationsOnChain /\ Unrecorded

\* What a step leaves of the requests that it is not about.
LEMMA OthersStay ==
  ASSUME TypeOK, NEW r \in Requests, NEW new, Set(r, new)
  PROVE  /\ request'[r] = new
         /\ \A s \in Requests : s # r => request'[s] = request[s]
  BY DEF Set, TypeOK, RequestsTyped

\* What is known is on the chain.
LEMMA KnownOnChain ==
  ASSUME IInv, RevocationsOnChain, NEW u, Known(u)
  PROVE  u \in DOMAIN attestations
<1>1. Names(db, u) => u \in DOMAIN attestations
  BY DEF Names, IInv, RecordsAreTrue
<1>2. ASSUME NEW r \in Requests, Revoking(r), Names(request[r].db, u)
      PROVE  u \in DOMAIN attestations
  <2>1. FileTrue(attestations, request[r].db)
    BY <1>2 DEF IInv, RequestsTrue, RequestTrue, Revoking
  <2> QED
    BY <1>2, <2>1 DEF FileTrue, OnChain, Names
<1> QED
  BY <1>1, <1>2 DEF Known, RevocationsOnChain

\* An attestation that is to be recorded is on the chain.
LEMMA AwaitedOnChain ==
  ASSUME IInv, NEW r \in Requests, Awaits(r)
  PROVE  OnChain(attestations, request[r].tx.uid, request[r].tx.subject)
  BY DEF IInv, RequestsTrue, RequestTrue, Awaits

\* A step that leaves the chain alone, and names nothing that was not named but what
\* it records.
LEMMA QuietStep ==
  ASSUME UInv, attestations' = attestations, Owned', RevocationsOnChain',
         \A r \in Requests : Awaits(r)' => Awaits(r) /\ request'[r].tx = request[r].tx,
         \A u : Known(u)' =>
           \/ Known(u)
           \/ \E r \in Requests : Awaits(r) /\ ~Awaits(r)' /\ u = request[r].tx.uid
  PROVE  UInv'
<1>1. ASSUME NEW r \in Requests, Awaits(r)', NEW u, u = request'[r].tx.uid
      PROVE  /\ ~Known(u)'
             /\ ~attestations'[u].revoked
             /\ \A s \in Requests : Awaits(s)' /\ s # r => request'[s].tx.uid # u
  BY <1>1 DEF UInv, Unrecorded
<1>2. \A r \in Requests : Awaits(r)' =>
        \A u : u = request'[r].tx.uid =>
          /\ ~Known(u)'
          /\ ~attestations'[u].revoked
          /\ \A s \in Requests : Awaits(s)' /\ s # r => request'[s].tx.uid # u
  BY <1>1
<1>3. Unrecorded'
  BY <1>2 DEF Unrecorded, Known, Names, Revoking
<1> QED
  BY <1>3 DEF UInv

\* A handler that goes on without recording anything.
LEMMA HandlerQuiet ==
  ASSUME IInv, UInv, NEW r \in Requests, NEW new, Set(r, new),
         attestations' = attestations, db' = db,
         \/ new = Idle
         \/ new.kind = "enroll" /\ new.stage # "landed"
         \/ new.kind = "revoke" /\ (new.db = db \/ (Revoking(r) /\ new.db = request[r].db)),
         new.stage \in {"sent", "landed"} => new.tx.by = r,
         \A t \in inFlight' :
           t \in inFlight \/ t.kind = "enroll" \/ (t.kind = "revoke" /\ Known(t.uid))
  PROVE  UInv'
<1>1. request'[r] = new /\ \A s \in Requests : s # r => request'[s] = request[s]
  BY OthersStay DEF IInv
<1>2. Owned'
  BY <1>1 DEF UInv, Owned
<1>3. RevocationsOnChain'
  BY KnownOnChain DEF UInv, RevocationsOnChain
<1>4. \A s \in Requests : Awaits(s)' => Awaits(s) /\ request'[s].tx = request[s].tx
  BY <1>1 DEF Awaits
<1>5. ASSUME NEW u, Known(u)' PROVE Known(u)
  <2>1. CASE Names(db, u)'
    BY <2>1 DEF Known, Names
  <2>2. ASSUME NEW s \in Requests, Revoking(s)', Names(request[s].db, u)'
        PROVE  Known(u)
    <3>1. CASE s = r
      BY <1>1, <2>2, <3>1 DEF Known, Names, Revoking
    <3>2. CASE s # r
      BY <1>1, <2>2, <3>2 DEF Known, Names, Revoking
    <3> QED
      BY <3>1, <3>2
  <2>3. ASSUME NEW t \in inFlight', t.kind = "revoke", t.uid = u
        PROVE  Known(u)
    BY <2>3 DEF Known
  <2> QED
    BY <1>5, <2>1, <2>2, <2>3 DEF Known
<1> QED
  BY <1>2, <1>3, <1>4, <1>5, QuietStep

LEMMA RecordEnrolmentQuiet ==
  ASSUME IInv, UInv, NEW r \in Requests, RecordEnrolment(r)
  PROVE  UInv'
<1> DEFINE t == request[r].tx
           rec == [uid |-> t.uid, revoked |-> FALSE]
<1>1. /\ db' = Put(db, t.subject, rec) /\ Set(r, Idle) /\ attestations' = attestations
      /\ inFlight' = inFlight
      /\ Awaits(r)
  BY DEF RecordEnrolment, chainVars, At, Awaits, Idle
<1>2. request'[r] = Idle /\ \A s \in Requests : s # r => request'[s] = request[s]
  BY <1>1, OthersStay DEF IInv
<1>3. Owned' /\ RevocationsOnChain'
  BY <1>1, <1>2 DEF UInv, Owned, RevocationsOnChain, Idle
<1>4. \A s \in Requests : Awaits(s)' => Awaits(s) /\ request'[s].tx = request[s].tx
  BY <1>2 DEF Awaits
<1>5. rec.uid = t.uid
  OBVIOUS
<1> HIDE DEF t, rec
<1>6. ASSUME NEW u, Names(db, u)' PROVE Names(db, u) \/ u = t.uid
  <2>1. PICK w \in DOMAIN db' : db'[w].uid = u
    BY <1>6 DEF Names
  <2>2. db'[w] = rec \/ (w \in DOMAIN db /\ db'[w] = db[w])
    BY <1>1, <2>1 DEF Put
  <2> QED
    BY <1>5, <2>1, <2>2 DEF Names
<1>7. ASSUME NEW u, Known(u)' PROVE Known(u) \/ u = t.uid
  <2>1. ASSUME NEW s \in Requests, Revoking(s)', Names(request[s].db, u)'
        PROVE  Known(u)
    BY <1>2, <2>1 DEF Known, Names, Revoking
  <2> QED
    BY <1>1, <1>6, <1>7, <2>1 DEF Known
<1>8. ~Awaits(r)'
  BY <1>2 DEF Awaits
<1> QED
  BY <1>1, <1>3, <1>4, <1>7, <1>8, QuietStep DEF t

LEMMA RecordRevocationQuiet ==
  ASSUME IInv, UInv, NEW r \in Requests, RecordRevocation(r)
  PROVE  UInv'
<1> DEFINE file == request[r].db
           w == request[r].tx.subject
<1>1. /\ Set(r, Idle) /\ attestations' = attestations /\ inFlight' = inFlight
      /\ db' = [file EXCEPT ![w].revoked = TRUE]
      /\ Revoking(r)
  BY DEF RecordRevocation, chainVars, At, Revoking, Idle
<1>2. request'[r] = Idle /\ \A s \in Requests : s # r => request'[s] = request[s]
  BY <1>1, OthersStay DEF IInv
<1>3. Owned' /\ RevocationsOnChain'
  BY <1>1, <1>2 DEF UInv, Owned, RevocationsOnChain, Idle
<1>4. \A s \in Requests : Awaits(s)' => Awaits(s) /\ request'[s].tx = request[s].tx
  BY <1>2 DEF Awaits
<1>5. IsFile(file)
  BY <1>1, RequestKinds DEF IInv, Revoking
<1> HIDE DEF file, w
<1>6. ASSUME NEW u, Names(db, u)' PROVE Names(file, u)
  <2>1. PICK x \in DOMAIN db' : db'[x].uid = u
    BY <1>6 DEF Names
  <2>2. x \in DOMAIN file /\ file[x] \in Record
    BY <1>1, <1>5, <2>1 DEF IsFile
  <2>3. db'[x].uid = file[x].uid
    BY <1>1, <2>2 DEF Record
  <2> QED
    BY <2>1, <2>2, <2>3 DEF Names
<1>7. ASSUME NEW u, Known(u)' PROVE Known(u)
  <2>1. ASSUME NEW s \in Requests, Revoking(s)', Names(request[s].db, u)'
        PROVE  Known(u)
    BY <1>2, <2>1 DEF Known, Names, Revoking
  <2>2. CASE Names(db, u)'
    BY <1>1, <1>6, <2>2 DEF Known, file
  <2> QED
    BY <1>1, <1>7, <2>1, <2>2 DEF Known
<1> QED
  BY <1>1, <1>3, <1>4, <1>7, QuietStep

LEMMA HandleUInv ==
  ASSUME IInv, UInv, NEW r \in Requests, Handle(r)
  PROVE  UInv'
<1>1. ASSUME NEW w \in Wallets, NEW side \in Sides, StartEnroll(r, w, side) PROVE UInv'
  BY <1>1, HandlerQuiet DEF StartEnroll, chainVars
<1>2. ASSUME NEW w \in Wallets, StartRevoke(r, w) PROVE UInv'
  BY <1>2, HandlerQuiet DEF StartRevoke, chainVars
<1>3. ASSUME SendAttestation(r) PROVE UInv'
  <2> DEFINE t == AttestMessage(r, request[r].subject, request[r].side, attesterNonce)
             new == [kind |-> "enroll", stage |-> "sent", tx |-> t]
  <2>1. t.kind = "enroll" /\ t.by = r
    BY DEF AttestMessage
  <2>2. /\ inFlight' = inFlight \cup {t} /\ Set(r, new)
        /\ attestations' = attestations /\ db' = db
    BY <1>3 DEF SendAttestation, chainVars
  <2> HIDE DEF t
  <2> QED
    BY <2>1, <2>2, HandlerQuiet
<1>4. ASSUME SendRevocation(r) PROVE UInv'
  <2> DEFINE q == request[r]
             t == RevokeMessage(r, q.subject, q.db[q.subject].uid, revokerNonce)
             new == [kind |-> "revoke", stage |-> "sent", tx |-> t, db |-> q.db]
  <2>1. q.kind = "revoke" /\ q.stage = "started" /\ q # Idle
    BY <1>4 DEF SendRevocation, At, Idle
  <2>2. q.subject \in DOMAIN q.db
    BY <2>1 DEF IInv, TypeOK, RequestsTyped, IsRequest
  <2>3. t.kind = "revoke" /\ t.by = r /\ t.uid = q.db[q.subject].uid
    BY DEF RevokeMessage
  <2>4. Known(t.uid) /\ Revoking(r)
    BY <2>1, <2>2, <2>3 DEF Known, Names, Revoking
  <2>5. /\ inFlight' = inFlight \cup {t} /\ Set(r, new)
        /\ attestations' = attestations /\ db' = db
    BY <1>4 DEF SendRevocation, chainVars
  <2> HIDE DEF t
  <2> QED
    BY <2>3, <2>4, <2>5, HandlerQuiet
<1>5. ASSUME Die(r) PROVE UInv'
  BY <1>5, HandlerQuiet DEF Die, chainVars, Idle
<1> QED
  BY <1>1, <1>2, <1>3, <1>4, <1>5, RecordEnrolmentQuiet, RecordRevocationQuiet, Zenon
     DEF Handle

\* A request that learns that its transaction has landed: nothing is named that was
\* not, and it may have an attestation to record.
LEMMA SettleQuiet ==
  ASSUME IInv, UInv, NEW t \in inFlight, Settle(t), db' = db
  PROVE  /\ Owned'
         /\ \A u : Known(u)' => Known(u)
         /\ \A r \in Requests : Awaits(r)' =>
              /\ request'[r].tx = request[r].tx
              /\ Awaits(r) \/ (request[r].tx = t /\ t.by = r /\ t.kind = "enroll")
<1>1. ASSUME NEW r \in Requests, request[r].stage = "sent", request[r].tx = t
      PROVE  /\ request'[r].stage = "landed" /\ request'[r].tx = t /\ request'[r] # Idle
             /\ request[r] # Idle /\ request'[r].kind = request[r].kind
             /\ request[r].kind = "revoke" => request'[r].db = request[r].db
             /\ request[r].kind = "enroll" => t.kind = "enroll"
  <2>1. request'[r] = [request[r] EXCEPT !.stage = "landed"]
    BY <1>1 DEF Settle
  <2>2. request[r] # Idle
    BY <1>1 DEF Idle
  <2>3. IsRequest(request[r]) /\ RequestTrue(attestations, request[r])
    BY DEF IInv, TypeOK, RequestsTyped, RequestsTrue
  <2>4. request[r].kind = "enroll" => t.kind = "enroll"
    BY <1>1, <2>2, <2>3 DEF RequestTrue
  <2>5. request'[r].stage = "landed"
    <3>1. CASE request[r].kind = "enroll"
      <4>1. request[r] \in [kind : {"enroll"}, stage : {"sent", "landed"}, tx : Transaction]
        BY <1>1, <2>2, <2>3, <3>1 DEF IsRequest
      <4> QED
        BY <2>1, <4>1
    <3>2. CASE request[r].kind = "revoke"
      BY <1>1, <2>1, <2>2, <2>3, <3>2 DEF IsRequest
    <3> QED
      BY <2>2, <2>3, <3>1, <3>2 DEF IsRequest
  <2> QED
    BY <1>1, <2>1, <2>2, <2>4, <2>5 DEF Idle
<1>2. \A r \in Requests :
        ~(request[r].stage = "sent" /\ request[r].tx = t) => request'[r] = request[r]
  BY DEF Settle
<1>3. Owned'
  BY <1>1, <1>2 DEF UInv, Owned
<1>4. ASSUME NEW u, Known(u)' PROVE Known(u)
  <2>1. ASSUME NEW r \in Requests, Revoking(r)', Names(request[r].db, u)'
        PROVE  Known(u)
    <3>1. Revoking(r) /\ request'[r].db = request[r].db
      BY <1>1, <1>2, <2>1 DEF Revoking
    <3> QED
      BY <2>1, <3>1 DEF Known, Names
  <2>2. inFlight' \subseteq inFlight
    BY DEF Settle
  <2> QED
    BY <1>4, <2>1, <2>2 DEF Known, Names
<1>5. ASSUME NEW r \in Requests, Awaits(r)'
      PROVE  /\ request'[r].tx = request[r].tx
             /\ Awaits(r) \/ (request[r].tx = t /\ t.by = r /\ t.kind = "enroll")
  BY <1>1, <1>2, <1>5 DEF Awaits, UInv, Owned
<1> QED
  BY <1>3, <1>4, <1>5

\* What an attestation that lands is to the others.
LEMMA NewAttestation ==
  ASSUME IInv, NEW t \in inFlight, LandAttestation(t)
  PROVE  /\ t.uid \notin DOMAIN attestations
         /\ DOMAIN attestations' = DOMAIN attestations \cup {t.uid}
         /\ ~attestations'[t.uid].revoked
         /\ \A u \in DOMAIN attestations : attestations'[u] = attestations[u]
<1> DEFINE a == [subject |-> t.subject, claim |-> t.claim, revoked |-> FALSE,
                 expires |-> t.expires]
<1>1. /\ t.kind = "enroll" /\ t.nonce = attesterNonce
      /\ attestations' = Put(attestations, t.uid, a)
  BY DEF LandAttestation, AttestAccepted
<1>2. t.uid \notin DOMAIN attestations
  <2>1. t.uid = <<t.subject, t.nonce>>
    BY <1>1 DEF IInv, TransactionsTrue, TransactionTrue, Uid
  <2> QED
    BY <1>1, <2>1 DEF IInv, TypeOK, UidsUsed
<1>3. ~a.revoked
  OBVIOUS
<1> HIDE DEF a
<1> QED
  BY <1>1, <1>2, <1>3 DEF Put

\* An attestation lands: its UID is new, so nothing names it.
LEMMA LandAttestationUInv ==
  ASSUME IInv, UInv, NEW t \in inFlight, LandAttestation(t)
  PROVE  UInv'
<1>1. t.kind = "enroll" /\ Settle(t) /\ db' = db
  BY DEF LandAttestation, AttestAccepted
<1>2. t.uid \notin DOMAIN attestations
  BY NewAttestation
<1>3. /\ DOMAIN attestations' = DOMAIN attestations \cup {t.uid}
      /\ ~attestations'[t.uid].revoked
      /\ \A u \in DOMAIN attestations : attestations'[u] = attestations[u]
  BY NewAttestation
<1>4. /\ Owned'
      /\ \A u : Known(u)' => Known(u)
      /\ \A r \in Requests : Awaits(r)' =>
           /\ request'[r].tx = request[r].tx
           /\ Awaits(r) \/ (request[r].tx = t /\ t.by = r /\ t.kind = "enroll")
  BY <1>1, SettleQuiet
<1>5. RevocationsOnChain'
  BY <1>1, <1>3 DEF UInv, RevocationsOnChain, Settle
<1>6. ~Known(t.uid)
  BY <1>2, KnownOnChain DEF UInv
<1>7. \A r \in Requests : Awaits(r) => request[r].tx.uid \in DOMAIN attestations
  BY AwaitedOnChain DEF OnChain
<1>8. ASSUME NEW r \in Requests, Awaits(r)', NEW u, u = request'[r].tx.uid
      PROVE  /\ ~Known(u)'
             /\ ~attestations'[u].revoked
             /\ \A s \in Requests : Awaits(s)' /\ s # r => request'[s].tx.uid # u
  <2>1. CASE Awaits(r)
    BY <1>2, <1>3, <1>4, <1>7, <1>8, <2>1 DEF UInv, Unrecorded
  <2>2. CASE ~Awaits(r)
    <3>1. u = t.uid /\ t.by = r
      BY <1>4, <1>8, <2>2
    <3>2. ~Known(u)' /\ ~attestations'[u].revoked
      BY <1>3, <1>4, <1>6, <3>1
    <3>3. ASSUME NEW s \in Requests, Awaits(s)', s # r PROVE request'[s].tx.uid # u
      BY <1>2, <1>4, <1>7, <3>1, <3>3
    <3> QED
      BY <3>2, <3>3
  <2> QED
    BY <2>1, <2>2
<1>9. \A r \in Requests : Awaits(r)' =>
         \A u : u = request'[r].tx.uid =>
           /\ ~Known(u)'
           /\ ~attestations'[u].revoked
           /\ \A s \in Requests : Awaits(s)' /\ s # r => request'[s].tx.uid # u
  BY <1>8
<1>10. Unrecorded'
  BY <1>9 DEF Unrecorded, Known, Names, Revoking
<1> QED
  BY <1>4, <1>5, <1>10 DEF UInv

\* A revocation lands: it is of an attestation that is named, so of none that is to
\* be recorded.
LEMMA LandRevocationUInv ==
  ASSUME IInv, UInv, NEW t \in inFlight, LandRevocation(t)
  PROVE  UInv'
<1>1. /\ t.kind = "revoke" /\ Settle(t) /\ db' = db
      /\ t.uid \in DOMAIN attestations
      /\ attestations' = [attestations EXCEPT ![t.uid].revoked = TRUE]
  BY DEF LandRevocation, RevokeAccepted
<1>2. /\ DOMAIN attestations' = DOMAIN attestations
      /\ \A u \in DOMAIN attestations : u # t.uid => attestations'[u] = attestations[u]
  BY <1>1
<1>3. /\ Owned'
      /\ \A u : Known(u)' => Known(u)
      /\ \A r \in Requests : Awaits(r)' => request'[r].tx = request[r].tx /\ Awaits(r)
  BY <1>1, SettleQuiet
<1>4. RevocationsOnChain'
  BY <1>1, <1>2 DEF UInv, RevocationsOnChain, Settle
<1>5. Known(t.uid)
  BY <1>1 DEF Known
<1>6. \A r \in Requests : Awaits(r) => request[r].tx.uid \in DOMAIN attestations
  BY AwaitedOnChain DEF OnChain
<1>7. ASSUME NEW r \in Requests, Awaits(r)', NEW u, u = request'[r].tx.uid
      PROVE  /\ ~Known(u)'
             /\ ~attestations'[u].revoked
             /\ \A s \in Requests : Awaits(s)' /\ s # r => request'[s].tx.uid # u
  <2>1. u = request[r].tx.uid /\ Awaits(r) /\ ~Known(u) /\ u \in DOMAIN attestations
    BY <1>3, <1>6, <1>7 DEF UInv, Unrecorded
  <2>2. ~attestations'[u].revoked
    BY <1>2, <1>5, <2>1 DEF UInv, Unrecorded
  <2> QED
    BY <1>3, <2>1, <2>2 DEF UInv, Unrecorded
<1>8. \A r \in Requests : Awaits(r)' =>
        \A u : u = request'[r].tx.uid =>
          /\ ~Known(u)'
          /\ ~attestations'[u].revoked
          /\ \A s \in Requests : Awaits(s)' /\ s # r => request'[s].tx.uid # u
  BY <1>7
<1>9. Unrecorded'
  BY <1>8 DEF Unrecorded, Known, Names, Revoking
<1> QED
  BY <1>3, <1>4, <1>9 DEF UInv

LEMMA NextUInv == IInv /\ UInv /\ [Next]_vars => UInv'
<1> SUFFICES ASSUME IInv, UInv, [Next]_vars PROVE UInv'
  OBVIOUS
<1>1. ASSUME NEW r \in Requests, Handle(r) PROVE UInv'
  BY <1>1, HandleUInv
<1>2. ASSUME NEW t \in inFlight, LandAttestation(t) PROVE UInv'
  BY <1>2, LandAttestationUInv
<1>3. ASSUME NEW t \in inFlight, LandRevocation(t) PROVE UInv'
  BY <1>3, LandRevocationUInv
<1>4. CASE /\ request' = request /\ db' = db /\ attestations' = attestations
           /\ inFlight' \subseteq inFlight
  BY <1>4 DEF UInv, Owned, RevocationsOnChain, Unrecorded, Awaits, Known, Names, Revoking
<1>5. ASSUME NEW t \in inFlight, Drop(t) PROVE UInv'
  BY <1>4, <1>5 DEF Drop, chainVars
<1>6. CASE Tick \/ UNCHANGED vars
  BY <1>4, <1>6 DEF Tick, vars, chainVars
<1> QED
  BY <1>1, <1>2, <1>3, <1>5, <1>6 DEF Next, Network

\* What a step may never do: let the file overlook a revocation, unless by one that
\* has just landed, or by the revocation of another wallet that writes back an old
\* file (kyc-attest.ts:480-566).
THEOREM RevocationsOverlookedForCause == Spec => OverlookedForCause
<1>1. Init => UInv
  BY DEF Init, UInv, Owned, RevocationsOnChain, Unrecorded, Awaits, Idle
<1>2. IInv /\ UInv /\ [Next]_vars
        => [\A w \in Wallets :
              ~Overlooked(w) /\ Overlooked(w)' =>
                \/ \E t \in inFlight : LandRevocation(t) /\ t.uid = db[w].uid
                \/ \E r \in Requests :
                     RecordRevocation(r) /\ request[r].tx.subject # w /\ request[r].db # db]_vars
  <2> SUFFICES ASSUME IInv, UInv, [Next]_vars, NEW w \in Wallets,
                      ~Overlooked(w), Overlooked(w)'
               PROVE  \/ \E t \in inFlight : LandRevocation(t) /\ t.uid = db[w].uid
                      \/ \E r \in Requests :
                           /\ RecordRevocation(r)
                           /\ request[r].tx.subject # w /\ request[r].db # db
    OBVIOUS
  <2>1. CASE db' = db /\ attestations' = attestations
    BY <2>1 DEF Overlooked
  <2>2. w \in DOMAIN db => db[w].uid \in DOMAIN attestations
    BY DEF IInv, RecordsAreTrue
  <2>3. ASSUME NEW t \in inFlight, LandAttestation(t) PROVE FALSE
    <3>1. db' = db
      BY <2>3 DEF LandAttestation
    <3> QED
      BY <2>2, <2>3, <3>1, NewAttestation DEF Overlooked
  <2>4. ASSUME NEW t \in inFlight, LandRevocation(t) PROVE t.uid = db[w].uid
    <3>1. db' = db /\ attestations' = [attestations EXCEPT ![t.uid].revoked = TRUE]
      BY <2>4 DEF LandRevocation
    <3> QED
      BY <3>1 DEF Overlooked
  <2>5. ASSUME NEW r \in Requests, RecordEnrolment(r) PROVE FALSE
    <3> DEFINE t == request[r].tx
               rec == [uid |-> t.uid, revoked |-> FALSE]
    <3>1. /\ db' = Put(db, t.subject, rec) /\ attestations' = attestations
          /\ Awaits(r)
      BY <2>5 DEF RecordEnrolment, chainVars, At, Awaits, Idle
    <3>2. ~attestations[t.uid].revoked
      BY <3>1 DEF UInv, Unrecorded
    <3>3. rec.uid = t.uid
      OBVIOUS
    <3> HIDE DEF t, rec
    <3>4. CASE w = t.subject
      BY <3>1, <3>2, <3>3, <3>4 DEF Overlooked, Put
    <3>5. CASE w # t.subject
      BY <3>1, <3>5 DEF Overlooked, Put
    <3> QED
      BY <3>4, <3>5
  <2>6. ASSUME NEW r \in Requests, RecordRevocation(r)
        PROVE  request[r].tx.subject # w /\ request[r].db # db
    <3> DEFINE file == request[r].db
               x == request[r].tx.subject
    <3>1. /\ db' = [file EXCEPT ![x].revoked = TRUE] /\ attestations' = attestations
          /\ request[r].kind = "revoke" /\ request[r] # Idle
      BY <2>6 DEF RecordRevocation, chainVars, At, Idle
    <3>2. IsFile(file)
      BY <3>1, RequestKinds DEF IInv
    <3> HIDE DEF file, x
    <3>3. w \in DOMAIN file => file[w] \in Record
      BY <3>2 DEF IsFile
    <3>4. x # w
      BY <3>1, <3>3 DEF Overlooked, Record
    <3>5. file # db
      BY <3>1, <3>4 DEF Overlooked
    <3> QED
      BY <3>4, <3>5 DEF file, x
  <2>7. ASSUME NEW r \in Requests, Handle(r), ~RecordEnrolment(r), ~RecordRevocation(r)
        PROVE  db' = db /\ attestations' = attestations
    BY <2>7
       DEF Handle, StartEnroll, StartRevoke, SendAttestation, SendRevocation, Die, chainVars
  <2>8. ASSUME NEW t \in inFlight, Drop(t) PROVE db' = db /\ attestations' = attestations
    BY <2>8 DEF Drop, chainVars
  <2>9. CASE Tick \/ UNCHANGED vars
    BY <2>1, <2>9 DEF Tick, vars, chainVars
  <2>10. CASE \E r \in Requests : Handle(r)
    BY <2>1, <2>5, <2>6, <2>7, <2>10
  <2>11. CASE Network
    BY <2>1, <2>3, <2>4, <2>8, <2>11 DEF Network
  <2> QED
    BY <2>9, <2>10, <2>11 DEF Next
<1> QED
  BY <1>1, <1>2, NextUInv, AuthorityInvariant, PTL DEF Spec, OverlookedForCause

-----------------------------------------------------------------------------
(***************************************************************************)
(* The page.                                                               *)
(***************************************************************************)

\* A record that a read has found is of an attestation about the wallet it is of.
ReadsTrue == \A q \in reads : \A rec \in q.found : OnChain(attestations, rec.uid, q.of)

CallTrue == call.stage = "ensured" => OnChain(attestations, call.uid, call.of)

\* The wallet that a request is about.
SubjectOf(q) == IF q.stage = "started" THEN q.subject ELSE q.tx.subject

\* The request that the panel waits for is under way, of the kind and about the
\* wallet that its user asked for.
BusyTrue ==
  busy.stage = "waiting" =>
    LET q == request[busy.request] IN
      q # Idle /\ q.kind = busy.kind /\ SubjectOf(q) = busy.of

PanelIInv ==
  /\ IInv
  /\ PanelTypeOK
  /\ ReadsTrue
  /\ CallTrue
  /\ BusyTrue
  /\ PanelTellsTheTruth

-----------------------------------------------------------------------------

\* Each step of the two together is one of the authority, or leaves it alone.
LEMMA PanelSteps ==
  ASSUME PanelTypeOK, [PanelNext]_panelVars
  PROVE  [Next]_vars
<1>1. ASSUME NEW r \in Requests, Serve(r) \/ Succeed(r) \/ Fail(r) PROVE Next
  BY <1>1 DEF Serve, Succeed, Fail, Next, Handle
<1>2. ASSUME NEW r \in Requests, Enroll(r) \/ Revoke(r) PROVE Next
  <2>1. wallet \in Wallets /\ PageSide \in Sides
    BY <1>2, PanelAssumption DEF PanelTypeOK, Enroll, Revoke, PanelAssumption
  <2> QED
    BY <1>2, <2>1 DEF Enroll, Revoke, Next, Handle
<1>3. CASE PageStep \/ UNCHANGED panelVars
  BY <1>3
     DEF PageStep, panelVars, Connect, Disconnect, ReadFile, Answer, ReadFails, LoseAnswer,
         StartCall, EndCall
<1> QED
  BY <1>1, <1>2, <1>3 DEF PanelNext, Next

\* A chain that grows takes nothing back from what the page holds.
LEMMA GrowthKeepsPage ==
  ASSUME PanelIInv, Grows(attestations, attestations')
  PROVE  /\ \A q \in reads : \A rec \in q.found : OnChain(attestations', rec.uid, q.of)
         /\ call.stage = "ensured" => OnChain(attestations', call.uid, call.of)
         /\ busy.stage = "told" =>
              /\ OnChain(attestations', busy.uid, busy.of)
              /\ busy.kind = "revoke" => attestations'[busy.uid].revoked
  BY DEF PanelIInv, ReadsTrue, CallTrue, PanelTellsTheTruth, Grows, OnChain

\* A request that is under way stays what it is until it ends.
LEMMA RequestsGoOn ==
  ASSUME IInv, NEW r \in Requests, request[r] # Idle,
         (\E x \in Requests : Serve(x)) \/ Network \/ Tick
  PROVE  /\ request'[r] # Idle
         /\ request'[r].kind = request[r].kind
         /\ SubjectOf(request'[r]) = SubjectOf(request[r])
<1>1. CASE Network \/ Tick
  <2>1. CASE request' = request
    BY <2>1
  <2>2. ASSUME NEW t \in inFlight, Settle(t), request[r].stage = "sent"
        PROVE  request'[r] = request[r] \/ request'[r] = [request[r] EXCEPT !.stage = "landed"]
    BY <2>2 DEF Settle
  <2>3. ASSUME NEW t \in inFlight, Settle(t), request[r].stage # "sent"
        PROVE  request'[r] = request[r]
    BY <2>3 DEF Settle
  <2>4. ASSUME request[r].stage = "sent", request'[r] = [request[r] EXCEPT !.stage = "landed"]
        PROVE  /\ request'[r] # Idle
               /\ request'[r].kind = request[r].kind
               /\ SubjectOf(request'[r]) = SubjectOf(request[r])
    <3>1. \/ request[r] \in [kind : {"enroll"}, stage : {"sent", "landed"}, tx : Transaction]
          \/ request[r].kind = "revoke"
      BY <2>4 DEF IInv, TypeOK, RequestsTyped, IsRequest
    <3> QED
      BY <2>4, <3>1 DEF SubjectOf, Idle
  <2> QED
    BY <1>1, <2>1, <2>2, <2>3, <2>4
       DEF Network, LandAttestation, LandRevocation, Drop, Tick
<1>2. ASSUME NEW x \in Requests, Serve(x), x # r
      PROVE  request'[r] = request[r]
  BY <1>2
     DEF Serve, StartEnroll, StartRevoke, SendAttestation, SendRevocation, Set, IInv, TypeOK,
         RequestsTyped
<1>3. ASSUME Serve(r)
      PROVE  /\ request'[r] # Idle
             /\ request'[r].kind = request[r].kind
             /\ SubjectOf(request'[r]) = SubjectOf(request[r])
  <2>1. SendAttestation(r) \/ SendRevocation(r)
    BY <1>3 DEF Serve, StartEnroll, StartRevoke, Free
  <2> QED
    BY <2>1
       DEF SendAttestation, SendRevocation, AttestMessage, RevokeMessage, At, Set, SubjectOf,
           Idle, IInv, TypeOK, RequestsTyped
<1> QED
  BY <1>1, <1>2, <1>3

-----------------------------------------------------------------------------

\* Any step of the two keeps the invariant of the authority.
LEMMA AuthorityKept ==
  ASSUME PanelIInv, [PanelNext]_panelVars
  PROVE  IInv' /\ Grows(attestations, attestations')
  BY PanelSteps, NextIInv, ChainGrows DEF PanelIInv

\* A step of the authority that the page takes no part in.
LEMMA ElsewhereStep ==
  ASSUME PanelIInv, UNCHANGED pageVars, IInv', Grows(attestations, attestations'),
         (\E x \in Requests : Serve(x)) \/ Network \/ Tick
  PROVE  PanelIInv'
<1>1. PanelTypeOK'
  BY DEF PanelIInv, PanelTypeOK, pageVars
<1>2. ReadsTrue' /\ CallTrue' /\ PanelTellsTheTruth'
  BY GrowthKeepsPage DEF pageVars, ReadsTrue, CallTrue, PanelTellsTheTruth, OnChain
<1>3. BusyTrue'
  <2>1. SUFFICES ASSUME busy.stage = "waiting"
                 PROVE  LET q == request'[busy.request] IN
                          q # Idle /\ q.kind = busy.kind /\ SubjectOf(q) = busy.of
    BY DEF BusyTrue, pageVars, SubjectOf
  <2>2. busy.request \in Requests
    BY <2>1 DEF PanelIInv, PanelTypeOK, None
  <2> QED
    BY <2>1, <2>2, RequestsGoOn DEF PanelIInv, BusyTrue
<1> QED
  BY <1>1, <1>2, <1>3 DEF PanelIInv

\* What a page's own step leaves of the authority's state.
LEMMA Alone ==
  ASSUME PanelIInv, UNCHANGED vars
  PROVE  IInv'
  BY NextIInv DEF PanelIInv

-----------------------------------------------------------------------------

\* A new read has found nothing yet.
LEMMA AskReads ==
  ASSUME PanelIInv, attestations' = attestations, NEW for \in {"badge", "after", "call"},
         NEW w \in Wallets, Ask(for, w)
  PROVE  ReadsTrue' /\ reads' \subseteq Read
<1>1. StatusRead(for, w) \in Read /\ StatusRead(for, w).found = {}
  BY DEF StatusRead, Read
<1> QED
  BY <1>1 DEF PanelIInv, PanelTypeOK, ReadsTrue, Ask

\* Fewer reads are as true.
LEMMA FewerReads ==
  ASSUME PanelIInv, attestations' = attestations, reads' \subseteq reads
  PROVE  ReadsTrue' /\ reads' \subseteq Read
  BY DEF PanelIInv, PanelTypeOK, ReadsTrue

LEMMA ConnectStep ==
  ASSUME PanelIInv, NEW w \in Wallets, Connect(w)
  PROVE  PanelIInv'
<1>1. IInv' /\ attestations' = attestations
  BY Alone DEF Connect, vars, chainVars
<1>2. ReadsTrue' /\ reads' \subseteq Read
  BY <1>1, AskReads DEF Connect
<1>3. PanelTypeOK'
  BY <1>2 DEF PanelIInv, PanelTypeOK, Connect
<1> QED
  BY <1>1, <1>2, <1>3
     DEF PanelIInv, Connect, CallTrue, BusyTrue, PanelTellsTheTruth, vars, chainVars

LEMMA DisconnectStep ==
  ASSUME PanelIInv, Disconnect
  PROVE  PanelIInv'
<1>1. IInv' /\ attestations' = attestations
  BY Alone DEF Disconnect, vars, chainVars
<1>2. ReadsTrue' /\ reads' \subseteq Read
  BY <1>1, FewerReads DEF Disconnect
<1>3. PanelTypeOK'
  BY <1>2 DEF PanelIInv, PanelTypeOK, Disconnect
<1>4. BusyTrue' /\ PanelTellsTheTruth'
  BY DEF Disconnect, None, BusyTrue, PanelTellsTheTruth
<1> QED
  BY <1>1, <1>2, <1>3, <1>4 DEF PanelIInv, Disconnect, CallTrue, vars, chainVars

LEMMA ReadFileStep ==
  ASSUME PanelIInv, NEW q \in reads, ReadFile(q)
  PROVE  PanelIInv'
<1> DEFINE new == [q EXCEPT !.read = TRUE, !.found = RecordsOf(q.of)]
<1>1. IInv' /\ attestations' = attestations
  BY Alone DEF ReadFile, vars, chainVars
<1>2. q \in Read /\ q.of \in Wallets
  BY DEF PanelIInv, PanelTypeOK, Read
<1>3. RecordsOf(q.of) \in {{}} \cup {{rec} : rec \in Record}
  <2>1. CASE q.of \in DOMAIN db
    <3>1. RecordsOf(q.of) = {db[q.of]} /\ db[q.of] \in Record
      BY <2>1 DEF RecordsOf, PanelIInv, IInv, TypeOK, IsFile
    <3> QED
      BY <3>1
  <2>2. CASE q.of \notin DOMAIN db
    <3>1. RecordsOf(q.of) = {}
      BY <2>2 DEF RecordsOf
    <3> QED
      BY <3>1
  <2> QED
    BY <2>1, <2>2
<1>4. \A rec \in RecordsOf(q.of) : OnChain(attestations, rec.uid, q.of)
  BY DEF RecordsOf, PanelIInv, IInv, RecordsAreTrue, OnChain
<1>5. new \in Read /\ new.of = q.of /\ new.found = RecordsOf(q.of)
  BY <1>2, <1>3 DEF Read
<1>6. reads' = (reads \ {q}) \cup {new} /\ UNCHANGED <<vars, wallet, badge, busy, call>>
  BY DEF ReadFile
<1> HIDE DEF new
<1>7. ReadsTrue' /\ reads' \subseteq Read
  BY <1>1, <1>4, <1>5, <1>6 DEF PanelIInv, PanelTypeOK, ReadsTrue
<1>8. PanelTypeOK'
  BY <1>6, <1>7 DEF PanelIInv, PanelTypeOK
<1> QED
  BY <1>1, <1>6, <1>7, <1>8
     DEF PanelIInv, CallTrue, BusyTrue, PanelTellsTheTruth, vars, chainVars

LEMMA AnswerStep ==
  ASSUME PanelIInv, NEW q \in reads, Answer(q)
  PROVE  PanelIInv'
<1>1. IInv' /\ attestations' = attestations
  BY Alone DEF Answer, vars, chainVars
<1>2. ReadsTrue' /\ reads' \subseteq Read
  BY <1>1, FewerReads DEF Answer
<1>3. q \in Read /\ q.of \in Wallets /\ \A rec \in q.found : rec.uid \in Uids
  BY DEF PanelIInv, PanelTypeOK, Read, Record
<1>4. CASE ShowStatus(q)
  <2>1. badge' \in BOOLEAN
    BY <1>4 DEF ShowStatus, Answers
  <2>2. busy' = None \/ busy' = busy
    BY <1>4 DEF ShowStatus
  <2>3. PanelTypeOK'
    BY <1>2, <1>4, <2>1, <2>2 DEF PanelIInv, PanelTypeOK, Answer, ShowStatus
  <2>4. BusyTrue' /\ PanelTellsTheTruth'
    BY <2>2
       DEF PanelIInv, BusyTrue, PanelTellsTheTruth, None, Answer, vars, chainVars
  <2> QED
    BY <1>1, <1>2, <1>4, <2>3, <2>4 DEF PanelIInv, CallTrue, ShowStatus
<1>5. CASE Ensure(q)
  <2>1. \/ call' = None
        \/ \E rec \in q.found : call' = [stage |-> "ensured", of |-> q.of, uid |-> rec.uid]
    BY <1>5 DEF Ensure
  <2>2. CallTrue'
    <3>1. \A rec \in q.found : OnChain(attestations, rec.uid, q.of)
      BY DEF PanelIInv, ReadsTrue
    <3> QED
      BY <1>1, <2>1, <3>1 DEF CallTrue, None
  <2>3. PanelTypeOK'
    BY <1>2, <1>3, <1>5, <2>1 DEF PanelIInv, PanelTypeOK, Answer, Ensure
  <2> QED
    BY <1>1, <1>2, <1>5, <2>2, <2>3
       DEF PanelIInv, BusyTrue, PanelTellsTheTruth, Answer, Ensure, vars, chainVars
<1> QED
  BY <1>4, <1>5 DEF Answer

LEMMA ReadFailsStep ==
  ASSUME PanelIInv, NEW q \in reads, ReadFails(q)
  PROVE  PanelIInv'
<1>1. IInv' /\ attestations' = attestations
  BY Alone DEF ReadFails, vars, chainVars
<1>2. ReadsTrue' /\ reads' \subseteq Read
  BY <1>1, FewerReads DEF ReadFails
<1>3. (busy' = None \/ busy' = busy) /\ (call' = None \/ call' = call)
  BY DEF ReadFails
<1>4. PanelTypeOK'
  BY <1>2, <1>3 DEF PanelIInv, PanelTypeOK, ReadFails
<1>5. BusyTrue' /\ PanelTellsTheTruth' /\ CallTrue'
  BY <1>1, <1>3
     DEF PanelIInv, BusyTrue, PanelTellsTheTruth, CallTrue, None, ReadFails, vars, chainVars
<1> QED
  BY <1>1, <1>2, <1>4, <1>5 DEF PanelIInv

LEMMA CallSteps ==
  ASSUME PanelIInv, LoseAnswer \/ StartCall \/ EndCall
  PROVE  PanelIInv'
<1>1. IInv' /\ attestations' = attestations
  BY Alone DEF LoseAnswer, StartCall, EndCall, vars, chainVars
<1>2. CASE StartCall
  <2>1. wallet \in Wallets
    BY <1>2 DEF PanelIInv, PanelTypeOK, StartCall
  <2>2. ReadsTrue' /\ reads' \subseteq Read
    BY <1>1, <1>2, <2>1, AskReads DEF StartCall
  <2>3. PanelTypeOK' /\ CallTrue'
    BY <1>2, <2>1, <2>2 DEF PanelIInv, PanelTypeOK, StartCall, CallTrue
  <2> QED
    BY <1>1, <1>2, <2>2, <2>3
       DEF PanelIInv, BusyTrue, PanelTellsTheTruth, StartCall, vars, chainVars
<1>3. CASE LoseAnswer \/ EndCall
  <2>1. (busy' = None \/ busy' = busy) /\ (call' = None \/ call' = call)
    BY <1>3 DEF LoseAnswer, EndCall
  <2>2. ReadsTrue' /\ reads' \subseteq Read
    BY <1>1, <1>3, FewerReads DEF LoseAnswer, EndCall
  <2>3. PanelTypeOK'
    BY <1>3, <2>1, <2>2 DEF PanelIInv, PanelTypeOK, LoseAnswer, EndCall
  <2>4. BusyTrue' /\ PanelTellsTheTruth' /\ CallTrue'
    BY <1>1, <1>3, <2>1
       DEF PanelIInv, BusyTrue, PanelTellsTheTruth, CallTrue, None, LoseAnswer, EndCall, vars,
           chainVars
  <2> QED
    BY <1>1, <2>2, <2>3, <2>4 DEF PanelIInv
<1> QED
  BY <1>2, <1>3

-----------------------------------------------------------------------------

\* The panel's own request starts.
LEMMA OwnRequestStep ==
  ASSUME PanelIInv, NEW r \in Requests, Enroll(r) \/ Revoke(r)
  PROVE  PanelIInv'
<1>1. IInv' /\ attestations' = attestations
  <2>1. [PanelNext]_panelVars
    BY DEF PanelNext
  <2> QED
    BY <2>1, AuthorityKept DEF Enroll, Revoke, StartEnroll, StartRevoke, chainVars
<1>2. UNCHANGED <<wallet, badge, reads, call>> /\ wallet \in Wallets
  BY DEF PanelIInv, PanelTypeOK, Enroll, Revoke
<1>3. \E kind \in {"enroll", "revoke"} :
        busy' = [stage |-> "waiting", request |-> r, kind |-> kind, of |-> wallet]
  BY DEF Enroll, Revoke, Waiting
<1>4. PanelTypeOK'
  BY <1>2, <1>3 DEF PanelIInv, PanelTypeOK
<1>5. BusyTrue'
  <2>1. DOMAIN request = Requests
    BY DEF PanelIInv, IInv, TypeOK, RequestsTyped
  <2>2. CASE Enroll(r)
    BY <2>1, <2>2
       DEF Enroll, StartEnroll, Set, Waiting, BusyTrue, SubjectOf, Idle
  <2>3. CASE Revoke(r)
    BY <2>1, <2>3
       DEF Revoke, StartRevoke, Set, Waiting, BusyTrue, SubjectOf, Idle
  <2> QED
    BY <2>2, <2>3
<1>6. PanelTellsTheTruth'
  BY <1>3 DEF PanelTellsTheTruth
<1> QED
  BY <1>1, <1>2, <1>4, <1>5, <1>6 DEF PanelIInv, ReadsTrue, CallTrue

\* Another request ends: the one that the panel waits for is as it was.
LEMMA OthersEnd ==
  ASSUME PanelIInv, NEW r \in Requests, Set(r, Idle), ~IsMine(r), busy' = busy
  PROVE  BusyTrue'
<1>1. busy.stage = "waiting" => busy.request # r /\ busy.request \in Requests
  BY DEF IsMine, PanelIInv, PanelTypeOK, None
<1>2. \A x \in Requests : x # r => request'[x] = request[x]
  BY DEF Set, PanelIInv, IInv, TypeOK, RequestsTyped
<1> QED
  BY <1>1, <1>2 DEF PanelIInv, BusyTrue, SubjectOf

LEMMA FailStep ==
  ASSUME PanelIInv, NEW r \in Requests, Fail(r)
  PROVE  PanelIInv'
<1>1. IInv' /\ attestations' = attestations
  <2>1. [PanelNext]_panelVars
    BY DEF PanelNext
  <2> QED
    BY <2>1, AuthorityKept DEF Fail, Die, chainVars
<1>2. UNCHANGED <<wallet, badge, reads, call>> /\ Set(r, Idle)
  BY DEF Fail, Die
<1>3. BusyTrue' /\ (busy' = None \/ busy' = busy)
  <2>1. CASE IsMine(r)
    BY <2>1 DEF Fail, BusyTrue, None
  <2>2. CASE ~IsMine(r)
    BY <1>2, <2>2, OthersEnd DEF Fail
  <2> QED
    BY <2>1, <2>2
<1>4. PanelTypeOK'
  BY <1>2, <1>3 DEF PanelIInv, PanelTypeOK
<1>5. PanelTellsTheTruth'
  BY <1>1, <1>3 DEF PanelIInv, PanelTellsTheTruth, None
<1> QED
  BY <1>1, <1>2, <1>3, <1>4, <1>5 DEF PanelIInv, ReadsTrue, CallTrue

LEMMA SucceedStep ==
  ASSUME PanelIInv, NEW r \in Requests, Succeed(r)
  PROVE  PanelIInv'
<1> DEFINE t == request[r].tx
<1>1. IInv' /\ attestations' = attestations
  <2>1. [PanelNext]_panelVars
    BY DEF PanelNext
  <2> QED
    BY <2>1, AuthorityKept DEF Succeed, RecordEnrolment, RecordRevocation, chainVars
<1>2. Set(r, Idle) /\ Reply(r)
  BY DEF Succeed, RecordEnrolment, RecordRevocation
<1>3. CASE ~IsMine(r)
  <2>1. UNCHANGED pageVars
    BY <1>2, <1>3 DEF Reply
  <2>2. BusyTrue'
    BY <1>2, <1>3, <2>1, OthersEnd DEF pageVars
  <2> QED
    BY <1>1, <2>1, <2>2
       DEF PanelIInv, PanelTypeOK, ReadsTrue, CallTrue, PanelTellsTheTruth, pageVars
<1>4. CASE IsMine(r)
  <2>1. /\ busy' = [stage |-> "told", kind |-> busy.kind, of |-> busy.of, uid |-> t.uid]
        /\ Ask("after", busy.of) /\ UNCHANGED <<wallet, badge, call>>
    BY <1>2, <1>4 DEF Reply
  <2>2. /\ request[r].stage = "landed" /\ request[r] # Idle
        /\ request[r].kind \in {"enroll", "revoke"}
    BY DEF Succeed, RecordEnrolment, RecordRevocation, At, Idle
  <2>3. busy.kind = request[r].kind /\ busy.of = t.subject /\ busy.of \in Wallets
    BY <1>4, <2>2 DEF IsMine, PanelIInv, PanelTypeOK, BusyTrue, SubjectOf, None
  <2>4. t \in Transaction /\ t.uid \in Uids
    BY <2>2, RequestKinds DEF PanelIInv, IInv, Transaction
  <2>5. /\ OnChain(attestations, t.uid, t.subject)
        /\ request[r].kind = "revoke" => attestations[t.uid].revoked
    <3>1. RequestTrue(attestations, request[r])
      BY DEF PanelIInv, IInv, RequestsTrue
    <3>2. CASE request[r].kind = "enroll"
      BY <2>2, <3>1, <3>2 DEF RequestTrue
    <3>3. CASE request[r].kind = "revoke"
      <4>1. /\ FileTrue(attestations, request[r].db)
            /\ t.uid = request[r].db[t.subject].uid /\ attestations[t.uid].revoked
        BY <2>2, <3>1, <3>3 DEF RequestTrue
      <4>2. t.subject \in DOMAIN request[r].db
        BY <2>2, <3>3, RequestKinds DEF PanelIInv, IInv
      <4> QED
        BY <4>1, <4>2 DEF FileTrue
    <3> QED
      BY <2>2, <3>2, <3>3
  <2> HIDE DEF t
  <2>6. ReadsTrue' /\ reads' \subseteq Read
    BY <1>1, <2>1, <2>3, AskReads
  <2>7. PanelTypeOK'
    BY <2>1, <2>2, <2>3, <2>4, <2>6 DEF PanelIInv, PanelTypeOK
  <2>8. BusyTrue' /\ PanelTellsTheTruth'
    BY <1>1, <2>1, <2>3, <2>5 DEF BusyTrue, PanelTellsTheTruth, OnChain
  <2> QED
    BY <1>1, <2>1, <2>6, <2>7, <2>8 DEF PanelIInv, CallTrue
<1> QED
  BY <1>3, <1>4

-----------------------------------------------------------------------------

LEMMA PanelInitIInv == PanelInit => PanelIInv
<1> SUFFICES ASSUME PanelInit PROVE PanelIInv
  OBVIOUS
<1>1. IInv
  BY InitIInv DEF PanelInit
<1>2. PanelTypeOK
  BY DEF PanelInit, PanelTypeOK
<1>3. ReadsTrue
  BY DEF PanelInit, ReadsTrue
<1>4. busy.stage = "none" /\ call.stage = "none"
  BY DEF PanelInit, None
<1> QED
  BY <1>1, <1>2, <1>3, <1>4 DEF PanelIInv, CallTrue, BusyTrue, PanelTellsTheTruth

LEMMA PanelNextIInv == PanelIInv /\ [PanelNext]_panelVars => PanelIInv'
<1> SUFFICES ASSUME PanelIInv, [PanelNext]_panelVars PROVE PanelIInv'
  OBVIOUS
<1>1. IInv' /\ Grows(attestations, attestations')
  BY AuthorityKept
<1>2. CASE UNCHANGED panelVars
  BY <1>1, <1>2
     DEF panelVars, pageVars, vars, chainVars, PanelIInv, PanelTypeOK, ReadsTrue, CallTrue,
         BusyTrue, SubjectOf, PanelTellsTheTruth
<1>3. ASSUME NEW r \in Requests, Serve(r) PROVE PanelIInv'
  BY <1>1, <1>3, ElsewhereStep DEF Serve
<1>4. ASSUME NEW r \in Requests, Succeed(r) \/ Fail(r) \/ Enroll(r) \/ Revoke(r)
      PROVE  PanelIInv'
  BY <1>4, SucceedStep, FailStep, OwnRequestStep
<1>5. CASE (Network \/ Tick) /\ UNCHANGED pageVars
  BY <1>1, <1>5, ElsewhereStep
<1>6. CASE PageStep
  BY <1>6, ConnectStep, DisconnectStep, ReadFileStep, AnswerStep, ReadFailsStep, CallSteps
     DEF PageStep
<1> QED
  BY <1>2, <1>3, <1>4, <1>5, <1>6 DEF PanelNext

LEMMA PanelInvariant == PanelSpec => []PanelIInv
  BY PanelInitIInv, PanelNextIInv, PTL DEF PanelSpec

\* Every variable of the page keeps its type.
THEOREM PanelTypeCorrect == PanelSpec => []PanelTypeOK
  BY PanelInvariant, PTL DEF PanelIInv

\* The authority behind a page is the authority of KycAuthority: whatever the page
\* does, the file tells the truth and a revocation is overlooked for cause only.
THEOREM PanelImplementsAuthority == PanelSpec => Spec
<1>1. PanelInit => Init
  BY DEF PanelInit
<1>2. PanelIInv /\ [PanelNext]_panelVars => [Next]_vars
  BY PanelSteps DEF PanelIInv
<1> QED
  BY <1>1, <1>2, PanelInvariant, PTL DEF PanelSpec, Spec

\* The panel says "attested" and "revoked" only of what is so on the chain
\* (KycBadge.tsx:77-125).
THEOREM PanelIsTruthful == PanelSpec => []PanelTellsTheTruth
  BY PanelInvariant, PTL DEF PanelIInv

\* ensureKycAttestation (kyc.ts:154-175) hands a call only a UID of the calling
\* wallet's own attestation, however wallets are switched and records replaced.
THEOREM RefusalsHaveCause == PanelSpec => []CallsRefusedForCause
<1>1. PanelIInv => CallsRefusedForCause
  <2> SUFFICES ASSUME PanelIInv, call.stage = "ensured" PROVE CallsRefusedForCause
    BY DEF CallsRefusedForCause
  <2>1. /\ call.uid \in DOMAIN attestations
        /\ attestations[call.uid].subject = call.of
        /\ call.of \notin Denied
    BY DEF PanelIInv, CallTrue, OnChain, IInv, UidsUsed
  <2>2. Verdict(call.of, PageSide, call.uid) \in
          {"KycAttestationRevoked", "KycAttestationExpired", "KycAttestationValueMismatch", "Ok"}
    BY <2>1 DEF Verdict
  <2> QED
    BY <2>1, <2>2 DEF CallsRefusedForCause
<1> QED
  BY <1>1, PanelInvariant, PTL
=============================================================================
