------------------------------- MODULE KycPanel -------------------------------
(***************************************************************************)
(* The KYC panel of one page (frontend/src/components/KycBadge.tsx over    *)
(* frontend/src/lib/kyc.ts) and the page's calls of the pool, in front of  *)
(* the issuer of KycAuthority, which serves other pages too.               *)
(*                                                                         *)
(* The page's wallet is whatever Freighter says it is when the window gets *)
(* the focus (FreighterContext.tsx), so it changes while answers are on    *)
(* the way; every handler goes on with the wallet it started with.  A      *)
(* status is read at the issuer in two steps, its file and then the chain. *)
(* That the page calls the pool with the UID of such a status is checked   *)
(* by verify_kyc_attestation of the pool, the operator Verdict.            *)
(***************************************************************************)
EXTENDS KycAuthority

CONSTANTS
  PageSide,     \* the side of the corridor that the page is for
  MaxReads      \* bound: the wallet changes while fewer of the panel's reads are on their way

ASSUME PanelAssumption == PageSide \in Sides /\ MaxReads \in Nat

VARIABLES
  wallet,       \* useFreighter().address, or NoWallet
  badge,        \* the panel shows "Attested"
  busy,         \* the panel's own enrolment or revocation, if any
  reads,        \* status reads on their way
  call          \* the page's call of the pool, if any

pageVars == <<wallet, badge, busy, reads, call>>
panelVars == <<vars, pageVars>>

NoWallet == "no wallet"
None == [stage |-> "none"]

-----------------------------------------------------------------------------
(***************************************************************************)
(* GET /api/kyc/status.  It is read for the panel when the page's wallet   *)
(* changes ("badge") or the panel's own request has succeeded ("after"),   *)
(* and for a call of the pool ("call").                                    *)
(***************************************************************************)

StatusRead(for, w) == [for |-> for, of |-> w, read |-> FALSE, found |-> {}]

Ask(for, w) == reads' = reads \cup {StatusRead(for, w)}

\* The wallet's record on file, if any.
RecordsOf(w) == {db[x] : x \in DOMAIN db \cap {w}}

\* Mutant: the status is of the wallet that the page has by now.
ReadFileOfPage(q) ==
  /\ ~q.read
  /\ reads' = (reads \ {q}) \cup
       {[q EXCEPT !.read = TRUE, !.found = RecordsOf(wallet)]}
  /\ UNCHANGED <<vars, wallet, badge, busy, call>>

\* getKycStatus up to its await: the wallet's record.
ReadFile(q) ==
  /\ ~q.read
  /\ reads' = (reads \ {q}) \cup
       {[q EXCEPT !.read = TRUE, !.found = RecordsOf(q.of)]}
  /\ UNCHANGED <<vars, wallet, badge, busy, call>>

\* A record as getKycStatus judges it: found on the chain, and revoked in neither
\* place, as far as the SDK's decode surfaces `revoked`, which the issuer does not
\* count on (kyc-attest.ts:592-593).  The attestation's expiry and its claim are
\* not looked at.
Stands(record, surfaced) ==
  /\ ~record.revoked
  /\ record.uid \in DOMAIN attestations
  /\ surfaced => ~attestations[record.uid].revoked

\* The rest of getKycStatus.  A live read that fails makes the wallet unverified.
Answers(q) ==
  {FALSE} \cup {\E rec \in q.found : Stands(rec, surfaced) : surfaced \in BOOLEAN}

\* refresh: the panel shows the answer, whatever its wallet is by now.
ShowStatus(q) ==
  /\ q.for # "call"
  /\ badge' \in Answers(q)
  /\ busy' = IF q.for = "after" THEN None ELSE busy
  /\ UNCHANGED call

\* ensureKycAttestation: the attestation's side and expiry are not looked at.
Ensure(q) ==
  /\ q.for = "call"
  /\ \E verified \in Answers(q) :
       IF verified
         THEN \E rec \in q.found : call' = [stage |-> "ensured", of |-> q.of, uid |-> rec.uid]
         ELSE call' = None
  /\ UNCHANGED <<badge, busy>>

Answer(q) ==
  /\ q.read
  /\ ShowStatus(q) \/ Ensure(q)
  /\ reads' = reads \ {q}
  /\ UNCHANGED <<vars, wallet>>

\* The fetch fails: the panel keeps what it shows, the call ends.
ReadFails(q) ==
  /\ reads' = reads \ {q}
  /\ busy' = IF q.for = "after" THEN None ELSE busy
  /\ call' = IF q.for = "call" THEN None ELSE call
  /\ UNCHANGED <<vars, wallet, badge>>

-----------------------------------------------------------------------------
(***************************************************************************)
(* The wallet of the page.                                                 *)
(***************************************************************************)

\* connect, checkConnection: another wallet.  The panel stays as it is and asks.
Connect(w) ==
  /\ w # wallet
  /\ wallet' = w
  /\ Cardinality({q \in reads : q.for # "call"}) < MaxReads
  /\ Ask("badge", w)
  /\ UNCHANGED <<vars, badge, busy, call>>

\* disconnect, checkConnection: no wallet.  The panel is gone, and what its
\* handlers still wait for shows nowhere; a call goes on.
Disconnect ==
  /\ wallet # NoWallet
  /\ wallet' = NoWallet
  /\ badge' = FALSE
  /\ busy' = None
  /\ reads' = {q \in reads : q.for = "call"}
  /\ UNCHANGED <<vars, call>>

-----------------------------------------------------------------------------
(***************************************************************************)
(* The buttons of the panel, each shown on what the badge says.            *)
(***************************************************************************)

Waiting(r, kind) ==
  busy' = [stage |-> "waiting", request |-> r, kind |-> kind, of |-> wallet]

\* enroll.  A wallet on the denylist gets an error at once.
Enroll(r) ==
  /\ wallet # NoWallet /\ ~badge /\ busy = None
  /\ StartEnroll(r, wallet, PageSide)
  /\ Waiting(r, "enroll")
  /\ UNCHANGED <<wallet, badge, reads, call>>

\* revoke.
Revoke(r) ==
  /\ wallet # NoWallet /\ badge /\ busy = None
  /\ StartRevoke(r, wallet)
  /\ Waiting(r, "revoke")
  /\ UNCHANGED <<wallet, badge, reads, call>>

IsMine(r) == busy.stage = "waiting" /\ busy.request = r

\* Mutant: the panel is told of the record that is on file by then.
ReplyFromFile(r) ==
  IF IsMine(r)
    THEN /\ busy' = [stage |-> "told", kind |-> busy.kind, of |-> busy.of,
                     uid |-> IF busy.of \in DOMAIN db THEN db[busy.of].uid
                                                     ELSE request[r].tx.uid]
         /\ Ask("after", busy.of)
         /\ UNCHANGED <<wallet, badge, call>>
    ELSE UNCHANGED pageVars

\* The request succeeds; if it is the panel's, the panel says so, naming the
\* attestation, and reads the status of the wallet it was for.
Reply(r) ==
  IF IsMine(r)
    THEN /\ busy' = [stage |-> "told", kind |-> busy.kind, of |-> busy.of,
                     uid |-> request[r].tx.uid]
         /\ Ask("after", busy.of)
         /\ UNCHANGED <<wallet, badge, call>>
    ELSE UNCHANGED pageVars

Succeed(r) == (RecordEnrolment(r) \/ RecordRevocation(r)) /\ Reply(r)

\* The request fails, and the panel shows the error.
Fail(r) ==
  /\ Die(r)
  /\ busy' = IF IsMine(r) THEN None ELSE busy
  /\ UNCHANGED <<wallet, badge, reads, call>>

\* The answer to the panel's request is lost: the request goes on.
LoseAnswer ==
  /\ busy.stage = "waiting"
  /\ busy' = None
  /\ UNCHANGED <<vars, wallet, badge, reads, call>>

-----------------------------------------------------------------------------
(***************************************************************************)
(* Calls of the pool.                                                      *)
(***************************************************************************)

\* Mutant: the call does not ask whether a wallet is connected.
StartCallUnconnected ==
  /\ call = None
  /\ call' = [stage |-> "asking", of |-> wallet]
  /\ Ask("call", wallet)
  /\ UNCHANGED <<vars, wallet, badge, busy>>

\* handleShield, handleWithdraw up to the status of the wallet.
StartCall ==
  /\ wallet # NoWallet
  /\ call = None
  /\ call' = [stage |-> "asking", of |-> wallet]
  /\ Ask("call", wallet)
  /\ UNCHANGED <<vars, wallet, badge, busy>>

\* The call has been judged by the pool, or never reached it.
EndCall ==
  /\ call.stage = "ensured"
  /\ call' = None
  /\ UNCHANGED <<vars, wallet, badge, busy, reads>>

\* verify_kyc_attestation, for a wallet that brings a UID to one side.
Verdict(w, side, uid) ==
  IF uid \notin DOMAIN attestations THEN "KycAttestationMissing"
  ELSE LET att == attestations[uid] IN
    CASE att.subject # w    -> "KycAttestationInvalid"
      [] att.revoked        -> "KycAttestationRevoked"
      [] att.expires <= now -> "KycAttestationExpired"
      [] att.claim # side   -> "KycAttestationValueMismatch"
      [] OTHER              -> "Ok"

-----------------------------------------------------------------------------

PanelInit ==
  /\ Init
  /\ wallet = NoWallet
  /\ badge = FALSE
  /\ busy = None
  /\ reads = {}
  /\ call = None

\* Requests of other pages, and requests of any page on their way.
Serve(r) ==
  /\ \/ \E w \in Wallets, side \in Sides : StartEnroll(r, w, side)
     \/ \E w \in Wallets : StartRevoke(r, w)
     \/ SendAttestation(r)
     \/ SendRevocation(r)
  /\ UNCHANGED pageVars

PageStep ==
  \/ \E w \in Wallets : Connect(w)
  \/ Disconnect
  \/ \E q \in reads : ReadFile(q) \/ Answer(q) \/ ReadFails(q)
  \/ LoseAnswer
  \/ StartCall
  \/ EndCall

PanelNext ==
  \/ \E r \in Requests : Serve(r) \/ Succeed(r) \/ Fail(r) \/ Enroll(r) \/ Revoke(r)
  \/ (Network \/ Tick) /\ UNCHANGED pageVars
  \/ PageStep

PanelSpec == PanelInit /\ [][PanelNext]_panelVars

-----------------------------------------------------------------------------
(***************************************************************************)
(* Properties.                                                             *)
(***************************************************************************)

Read == [for : {"badge", "after", "call"}, of : Wallets,
         read : BOOLEAN, found : {{}} \cup {{rec} : rec \in Record}]

\* Every variable of the page stays in its type.
PanelTypeOK ==
  /\ wallet \in Wallets \cup {NoWallet}
  /\ badge \in BOOLEAN
  /\ \/ busy = None
     \/ busy \in [stage : {"waiting"}, request : Requests,
                  kind : {"enroll", "revoke"}, of : Wallets]
     \/ busy \in [stage : {"told"}, kind : {"enroll", "revoke"}, of : Wallets, uid : Uids]
  /\ reads \subseteq Read
  /\ \/ call = None
     \/ call \in [stage : {"asking"}, of : Wallets]
     \/ call \in [stage : {"ensured"}, of : Wallets, uid : Uids]

\* A call that the page lets through is one of a wallet with a KYC of its own,
\* whatever wallets the page has had since and whatever became of the file.  The
\* pool refuses it for what the status does not look at or has no way to know:
\* the side of the claim, its age, a revocation.
CallsRefusedForCause ==
  call.stage = "ensured" =>
    /\ call.of \notin Denied
    /\ Verdict(call.of, PageSide, call.uid) \notin
         {"KycAttestationMissing", "KycAttestationInvalid"}

\* What the panel tells its user is so: "KYC attested on-chain" is said of an
\* attestation that is on the chain and about the wallet the user asked for,
\* "KYC revoked" of one that is revoked.
PanelTellsTheTruth ==
  busy.stage = "told" =>
    /\ busy.uid \in DOMAIN attestations
    /\ attestations[busy.uid].subject = busy.of
    /\ busy.kind = "revoke" => attestations[busy.uid].revoked
=============================================================================
