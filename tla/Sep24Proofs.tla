------------------------------ MODULE Sep24Proofs ------------------------------
(***************************************************************************)
(* The safety properties of Sep24, for any number of handlers, any bounds  *)
(* of the polls and any amounts.                                           *)
(*                                                                         *)
(* They speak of the ledger and of what was reported; the reasons why they *)
(* hold are in the handlers.  JobOk says what a running handler knows:     *)
(* before it has submitted, nobody has paid its withdrawal; once it polls  *)
(* on after submitting, its payment is on the ledger.  OwnIds says that no *)
(* two handlers share a transaction, AnchorIsHonest that the anchor goes   *)
(* by the ledger.                                                          *)
(***************************************************************************)
EXTENDS Sep24, TLAPS

Sent == onChain \cup inFlight

Unpaid(q) == \/ q.stage \in {"paying", "signing"}
             \/ q.stage = "polling" /\ ~q.submitted

JobOk(q) ==
  /\ q.id \in Ids
  /\ reported[q.id] = "nothing"
  /\ Unpaid(q) => \A p \in Sent : p.id # q.id
  /\ q.stage \in {"paying", "signing", "submitted"} => q.submitted
  /\ q.stage = "polling" /\ q.submitted => \E p \in onChain : p.id = q.id
  /\ q.stage = "paying" => transactions[q.id].amount \in Amounts
  /\ q.stage \in {"signing", "submitted"} => q.payment.id = q.id

JobsOk == \A j \in Jobs : job[j].stage # "idle" => JobOk(job[j])

OwnIds ==
  \A j, k \in Jobs :
    j # k /\ job[j].stage # "idle" /\ job[k].stage # "idle" => job[j].id # job[k].id

SentOnce ==
  /\ \A p \in Sent : p.id \in Ids
  /\ \A p, q \in Sent : p.id = q.id => p = q

AnchorIsHonest ==
  \A i \in Ids :
    LET t == transactions[i] IN
      /\ t.kind = "deposit" /\ t.status = "completed" => i \in funded
      /\ t.kind = "withdraw" => t.status # "lookup_error"
      /\ t.kind = "withdraw" /\ t.status \in {"pending_anchor", "completed", "refunded"}
           => \E p \in onChain : p.id = i
      /\ t.status = "pending_user_transfer_start" => t.amount \in Amounts

\* Of a transaction that does not exist yet nothing was reported.
NothingEarly == \A i \in 1 .. MaxTransactions : i \notin Ids => reported[i] = "nothing"

IInv ==
  /\ TypeOK
  /\ JobsOk
  /\ OwnIds
  /\ SentOnce
  /\ AnchorIsHonest
  /\ NothingEarly
  /\ GoodNewsIsTrue
  /\ TimedOutIsUnpaid

-----------------------------------------------------------------------------
(***************************************************************************)
(* The three ways in which a handler moves.                                *)
(***************************************************************************)

\* Job j goes on as q, and nothing else changes.
LEMMA ContinueKeeps ==
  ASSUME IInv, NEW j \in Jobs, NEW q \in RunningJob,
         job[j].stage # "idle", Continue(j, q), q.id = job[j].id, JobOk(q),
         UNCHANGED <<transactions, funded, ledgerVars>>
  PROVE  IInv'
<1>1. /\ job' = [job EXCEPT ![j] = q]
      /\ UNCHANGED <<reported, transactions, funded, onChain, inFlight, balance, sequence>>
  BY DEF Continue, ledgerVars
<1>2. job \in [Jobs -> {Idle} \cup RunningJob]
  BY DEF IInv, TypeOK
<1>3. job'[j] = q /\ \A k \in Jobs \ {j} : job'[k] = job[k]
  BY <1>1, <1>2
<1>4. TypeOK'
  BY <1>1, <1>2 DEF IInv, TypeOK, Ids
<1>5. \A r : JobOk(r)' <=> JobOk(r)
  BY <1>1 DEF JobOk, Unpaid, Sent, Ids
<1>6. JobsOk'
  BY <1>3, <1>5 DEF IInv, JobsOk
<1>7. OwnIds'
  BY <1>3 DEF IInv, OwnIds
<1>8. /\ SentOnce' /\ AnchorIsHonest' /\ NothingEarly'
      /\ GoodNewsIsTrue' /\ TimedOutIsUnpaid'
  BY <1>1 DEF IInv, SentOnce, AnchorIsHonest, NothingEarly, GoodNewsIsTrue,
              TimedOutIsUnpaid, Sent, Ids
<1> QED
  BY <1>4, <1>6, <1>7, <1>8 DEF IInv

\* Job j ends with a report that is true.
LEMMA ReportKeeps ==
  ASSUME IInv, NEW j \in Jobs, NEW outcome \in Outcomes,
         job[j].stage # "idle", Report(j, outcome),
         UNCHANGED <<transactions, funded, ledgerVars>>,
         /\ transactions[job[j].id].kind = "deposit" /\ outcome = "completed"
              => job[j].id \in funded
         /\ transactions[job[j].id].kind = "withdraw"
              /\ outcome \in {"completed", "anchor_pending"}
              => \E p \in onChain : p.id = job[j].id,
         outcome = "timed_out" => \A p \in Sent : p.id # job[j].id
  PROVE  IInv'
<1> DEFINE i == job[j].id
<1>1. /\ job' = [job EXCEPT ![j] = Idle]
      /\ reported' = [reported EXCEPT ![i] = outcome]
      /\ UNCHANGED <<transactions, funded, onChain, inFlight, balance, sequence>>
  BY DEF Report, ledgerVars
<1>2. /\ job \in [Jobs -> {Idle} \cup RunningJob]
      /\ reported \in [1 .. MaxTransactions -> Outcomes]
  BY DEF IInv, TypeOK
<1>3. i \in Ids /\ i \in 1 .. MaxTransactions
  <2>1. i \in Ids
    BY DEF IInv, JobsOk, JobOk
  <2>2. Ids = 1 .. Len(transactions) /\ Len(transactions) <= MaxTransactions
    BY DEF IInv, TypeOK, Ids
  <2> QED
    BY <2>1, <2>2, Sep24Assumption DEF Sep24Assumption, IInv, TypeOK
<1> HIDE DEF i
<1>4. /\ job'[j] = Idle /\ Idle.stage = "idle"
      /\ \A k \in Jobs \ {j} : job'[k] = job[k]
      /\ reported'[i] = outcome
      /\ \A k \in (1 .. MaxTransactions) \ {i} : reported'[k] = reported[k]
  BY <1>1, <1>2, <1>3 DEF Idle
<1>5. TypeOK'
  BY <1>1, <1>2, <1>3 DEF IInv, TypeOK, Ids
<1>6. \A k \in Jobs \ {j} : job[k].stage # "idle" => job[k].id # i
  BY DEF IInv, OwnIds, i
<1>7. Ids' = Ids /\ Ids \subseteq 1 .. MaxTransactions /\ Sent' = Sent
  BY <1>1, Sep24Assumption DEF Sep24Assumption, IInv, TypeOK, Ids, Sent
<1>8. JobsOk'
  <2> SUFFICES ASSUME NEW k \in Jobs, job'[k].stage # "idle"
               PROVE  JobOk(job[k])' /\ job'[k] = job[k]
    BY DEF JobsOk
  <2>1. k # j /\ job'[k] = job[k] /\ JobOk(job[k])
    BY <1>4 DEF IInv, JobsOk
  <2>2. reported'[job[k].id] = reported[job[k].id]
    BY <2>1, <1>4, <1>6, <1>7 DEF JobOk
  <2> QED
    BY <1>1, <1>7, <2>1, <2>2 DEF JobOk, Unpaid
<1>9. OwnIds'
  BY <1>4 DEF IInv, OwnIds
<1>10. SentOnce' /\ AnchorIsHonest'
  BY <1>1, <1>7 DEF IInv, SentOnce, AnchorIsHonest
<1>11. NothingEarly'
  BY <1>3, <1>4, <1>7 DEF IInv, NothingEarly
<1>12. GoodNewsIsTrue'
  BY <1>1, <1>4, <1>7 DEF IInv, GoodNewsIsTrue, i
<1>13. TimedOutIsUnpaid'
  BY <1>1, <1>4, <1>7 DEF IInv, TimedOutIsUnpaid, Sent, i
<1> QED
  BY <1>5, <1>8, <1>9, <1>10, <1>11, <1>12, <1>13 DEF IInv

\* The end of a round, whose job has not paid, or has seen its payment applied.
LEMMA EndOfRoundKeeps ==
  ASSUME IInv, NEW j \in Jobs,
         job[j] \in PollingJob \cup PayingJob,
         IF job[j].submitted THEN \E p \in onChain : p.id = job[j].id
                             ELSE \A p \in Sent : p.id # job[j].id,
         EndOfRound(j),
         UNCHANGED <<transactions, funded, ledgerVars>>
  PROVE  IInv'
<1> DEFINE q == job[j]
           next == [stage     |-> "polling",
                    id        |-> q.id,
                    polls     |-> q.polls + 1,
                    afterPaid |-> IF q.submitted THEN q.afterPaid + 1 ELSE 0,
                    submitted |-> q.submitted]
           outcome == IF q.submitted THEN "anchor_pending" ELSE "timed_out"
<1>1. q.stage # "idle" /\ next \in RunningJob
  BY DEF RunningJob, PollingJob, PayingJob
<1>2. JobOk(q)
  BY <1>1 DEF IInv, JobsOk
<1>3. CASE Report(j, outcome)
  BY <1>1, <1>3, ReportKeeps DEF Outcomes
<1>4. CASE Continue(j, next)
  <2>1. JobOk(next)
    BY <1>2 DEF JobOk, Unpaid
  <2> QED
    BY <1>1, <1>4, <2>1, ContinueKeeps
<1> QED
  BY <1>3, <1>4 DEF EndOfRound

-----------------------------------------------------------------------------
(***************************************************************************)
(* The steps of the environment.                                           *)
(***************************************************************************)

SepTransaction == [kind : Kinds, status : Statuses, amount : Amounts \cup {0}]

\* The anchor turns its transaction i into t, which is as honest.
LEMMA AnchorKeeps ==
  ASSUME IInv, NEW i \in Ids, NEW t \in SepTransaction,
         transactions' = [transactions EXCEPT ![i] = t],
         t.kind = transactions[i].kind,
         transactions[i].amount \in Amounts => t.amount \in Amounts,
         funded \subseteq funded', funded' \subseteq Ids, balance' \in Nat,
         UNCHANGED <<onChain, inFlight, sequence, job, reported>>,
         t.kind = "deposit" /\ t.status = "completed" => i \in funded',
         t.kind = "withdraw" => t.status # "lookup_error",
         t.kind = "withdraw" /\ t.status \in {"pending_anchor", "completed", "refunded"}
           => \E p \in onChain : p.id = i,
         t.status = "pending_user_transfer_start" => t.amount \in Amounts
  PROVE  IInv'
<1>1. transactions \in Seq(SepTransaction)
  BY DEF IInv, TypeOK, SepTransaction
<1>2. /\ transactions' \in Seq(SepTransaction)
      /\ Len(transactions') = Len(transactions)
      /\ Ids' = Ids
      /\ transactions'[i] = t
      /\ \A k \in Ids \ {i} : transactions'[k] = transactions[k]
  BY <1>1 DEF Ids
<1>3. \A k \in Ids : /\ transactions'[k].kind = transactions[k].kind
                     /\ transactions[k].amount \in Amounts => transactions'[k].amount \in Amounts
  BY <1>2
<1>4. TypeOK'
  BY <1>2 DEF IInv, TypeOK, SepTransaction
<1>5. Sent' = Sent
  BY DEF Sent
<1>6. \A r : JobOk(r) => JobOk(r)'
  BY <1>2, <1>3, <1>5 DEF JobOk, Unpaid
<1>7. JobsOk'
  BY <1>6 DEF IInv, JobsOk
<1>8. OwnIds' /\ SentOnce' /\ NothingEarly'
  BY <1>2, <1>5 DEF IInv, OwnIds, SentOnce, NothingEarly
<1>9. AnchorIsHonest'
  BY <1>2 DEF IInv, AnchorIsHonest
<1>10. GoodNewsIsTrue'
  BY <1>2, <1>3 DEF IInv, GoodNewsIsTrue
<1>11. TimedOutIsUnpaid'
  BY <1>2 DEF IInv, TimedOutIsUnpaid
<1> QED
  BY <1>4, <1>7, <1>8, <1>9, <1>10, <1>11 DEF IInv

\* The ledger settles payment p in one way or another.
LEMMA LedgerKeeps ==
  ASSUME IInv, NEW p \in inFlight,
         inFlight' = inFlight \ {p}, onChain \subseteq onChain',
         onChain' \subseteq onChain \cup {p}, balance' \in Nat, sequence' \in Nat,
         UNCHANGED <<transactions, funded, job, reported>>
  PROVE  IInv'
<1>1. Sent' \subseteq Sent /\ onChain' \subseteq Sent /\ Ids' = Ids
  BY DEF Sent, Ids
<1>2. TypeOK'
  BY <1>1 DEF IInv, TypeOK
<1>3. \A r : JobOk(r) => JobOk(r)'
  BY <1>1 DEF JobOk, Unpaid
<1>4. JobsOk'
  BY <1>3 DEF IInv, JobsOk
<1>5. OwnIds' /\ SentOnce' /\ NothingEarly'
  BY <1>1 DEF IInv, OwnIds, SentOnce, NothingEarly
<1>6. AnchorIsHonest' /\ GoodNewsIsTrue'
  BY <1>1 DEF IInv, AnchorIsHonest, GoodNewsIsTrue
<1>7. TimedOutIsUnpaid'
  BY <1>1 DEF IInv, TimedOutIsUnpaid, Sent
<1> QED
  BY <1>2, <1>4, <1>5, <1>6, <1>7 DEF IInv

\* A new transaction is nobody else's, and nobody has paid it.
LEMMA StartKeeps ==
  ASSUME IInv, NEW j \in Jobs, NEW kind \in Kinds, Start(j, kind)
  PROVE  IInv'
<1> DEFINE id == Len(transactions) + 1
           t  == [kind |-> kind, status |-> "incomplete", amount |-> 0]
           q  == [stage |-> "polling", id |-> id, polls |-> 0,
                  afterPaid |-> 0, submitted |-> FALSE]
<1>1. /\ job[j].stage = "idle" /\ id <= MaxTransactions
      /\ transactions' = Append(transactions, t)
      /\ job' = [job EXCEPT ![j] = q]
      /\ UNCHANGED <<funded, onChain, inFlight, balance, sequence, reported>>
  BY DEF Start, At, NewTransaction, NewJob, ledgerVars
<1>2. /\ transactions \in Seq(SepTransaction) /\ t \in SepTransaction
      /\ job \in [Jobs -> {Idle} \cup RunningJob]
  BY DEF IInv, TypeOK, SepTransaction, Statuses, Terminal
<1>3. id \in 1 .. MaxTransactions
  BY <1>1, <1>2, Sep24Assumption DEF Sep24Assumption
<1>4. /\ transactions' \in Seq(SepTransaction) /\ Len(transactions') = id
      /\ Ids' = Ids \cup {id} /\ id \notin Ids
      /\ transactions'[id] = t
      /\ \A k \in Ids : transactions'[k] = transactions[k]
  BY <1>1, <1>2 DEF Ids
<1>5. q \in RunningJob
  BY <1>3 DEF RunningJob, PollingJob
<1>6. q.stage = "polling" /\ q.id = id /\ q.submitted = FALSE
  OBVIOUS
<1>7. /\ t.kind = kind /\ t.status = "incomplete"
  OBVIOUS
<1> HIDE DEF q, id, t
<1>8. job'[j] = q /\ \A k \in Jobs \ {j} : job'[k] = job[k]
  BY <1>1, <1>2
<1>9. TypeOK'
  BY <1>1, <1>2, <1>3, <1>4, <1>5 DEF IInv, TypeOK, SepTransaction
<1>10. Sent' = Sent /\ \A p \in Sent : p.id # id
  BY <1>1, <1>4 DEF IInv, SentOnce, Sent
<1>11. JobOk(job[j])'
  BY <1>1, <1>3, <1>4, <1>6, <1>8, <1>10 DEF IInv, NothingEarly, JobOk, Unpaid
<1>12. \A r : JobOk(r) => JobOk(r)'
  BY <1>1, <1>4, <1>10 DEF JobOk, Unpaid
<1>13. JobsOk'
  BY <1>8, <1>11, <1>12 DEF IInv, JobsOk
<1>14. \A k \in Jobs : job[k].stage # "idle" => job[k].id \in Ids
  BY DEF IInv, JobsOk, JobOk
<1>15. OwnIds'
  BY <1>4, <1>6, <1>8, <1>14 DEF IInv, OwnIds
<1>16. SentOnce' /\ NothingEarly'
  BY <1>1, <1>4, <1>10 DEF IInv, SentOnce, NothingEarly
<1>17. AnchorIsHonest'
  <2>1. transactions'[id].status = "incomplete"
    BY <1>4, <1>7
  <2>2. \A k \in Ids' : (k \in Ids /\ transactions'[k] = transactions[k]) \/ k = id
    BY <1>4
  <2> QED
    BY <1>1, <2>1, <2>2 DEF IInv, AnchorIsHonest
<1>18. reported[id] = "nothing"
  BY <1>3, <1>4 DEF IInv, NothingEarly
<1>19. GoodNewsIsTrue' /\ TimedOutIsUnpaid'
  BY <1>1, <1>4, <1>18 DEF IInv, GoodNewsIsTrue, TimedOutIsUnpaid
<1> QED
  BY <1>9, <1>13, <1>15, <1>16, <1>17, <1>19 DEF IInv

LEMMA AbandonKeeps ==
  ASSUME IInv, NEW j \in Jobs, Abandon(j)
  PROVE  IInv'
<1>1. /\ job' = [job EXCEPT ![j] = Idle]
      /\ UNCHANGED <<transactions, funded, onChain, inFlight, balance, sequence, reported>>
  BY DEF Abandon, ledgerVars
<1>2. job \in [Jobs -> {Idle} \cup RunningJob]
  BY DEF IInv, TypeOK
<1>3. /\ job'[j].stage = "idle"
      /\ \A k \in Jobs \ {j} : job'[k] = job[k]
  BY <1>1, <1>2 DEF Idle
<1>4. TypeOK'
  BY <1>1, <1>2 DEF IInv, TypeOK, Ids
<1>5. \A r : JobOk(r)' <=> JobOk(r)
  BY <1>1 DEF JobOk, Unpaid, Sent, Ids
<1>6. JobsOk' /\ OwnIds'
  BY <1>3, <1>5 DEF IInv, JobsOk, OwnIds
<1>7. /\ SentOnce' /\ AnchorIsHonest' /\ NothingEarly'
      /\ GoodNewsIsTrue' /\ TimedOutIsUnpaid'
  BY <1>1 DEF IInv, SentOnce, AnchorIsHonest, NothingEarly, GoodNewsIsTrue,
              TimedOutIsUnpaid, Sent, Ids
<1> QED
  BY <1>4, <1>6, <1>7 DEF IInv

-----------------------------------------------------------------------------
(***************************************************************************)
(* The steps of a handler.                                                 *)
(***************************************************************************)

\* What the stage of a job says of its record, and of its transaction.
LEMMA RunningFacts ==
  ASSUME IInv, NEW j \in Jobs, job[j].stage # "idle"
  PROVE  /\ JobOk(job[j])
         /\ job[j].id \in 1 .. MaxTransactions
         /\ transactions[job[j].id] \in SepTransaction
         /\ job[j].stage \in {"polling", "paying"} => job[j] \in PollingJob
         /\ job[j].stage \in {"signing", "submitted"} => job[j] \in PayingJob
         /\ job[j].stage = "recovering" => job[j] \in RecoveringJob
         /\ job[j].stage \in {"polling", "paying", "signing", "submitted", "recovering"}
<1>1. JobOk(job[j])
  BY DEF IInv, JobsOk
<1>2. job[j] \in PollingJob \cup PayingJob \cup RecoveringJob
  BY DEF IInv, TypeOK, RunningJob, Idle
<1>3. transactions \in Seq(SepTransaction)
  BY DEF IInv, TypeOK, SepTransaction
<1>4. transactions[job[j].id] \in SepTransaction
  BY <1>1, <1>3 DEF JobOk, Ids
<1> QED
  BY <1>1, <1>2, <1>4 DEF PollingJob, PayingJob, RecoveringJob

LEMMA SubmitKeeps ==
  ASSUME IInv, NEW j \in Jobs, SubmitPayment(j)
  PROVE  IInv'
<1> DEFINE p == job[j].payment
           q == [job[j] EXCEPT !.stage = "submitted"]
<1>1. /\ job[j].stage = "signing"
      /\ inFlight' = inFlight \cup {p}
      /\ job' = [job EXCEPT ![j] = q]
      /\ UNCHANGED <<transactions, funded, onChain, balance, sequence, reported>>
  BY DEF SubmitPayment, At, Continue
<1>2. JobOk(job[j]) /\ job[j] \in PayingJob
  BY <1>1, RunningFacts
<1>3. p \in Payments /\ p.id = job[j].id
  BY <1>1, <1>2 DEF JobOk, PayingJob
<1>4. /\ q \in RunningJob /\ q.stage = "submitted" /\ q.id = job[j].id
      /\ q.submitted /\ q.payment = p
  BY <1>1, <1>2 DEF JobOk, PayingJob, RunningJob
<1>5. job \in [Jobs -> {Idle} \cup RunningJob]
  BY DEF IInv, TypeOK
<1>6. Sent' = Sent \cup {p} /\ Ids' = Ids /\ \A r \in Sent : r.id # p.id
  BY <1>1, <1>2, <1>3 DEF Sent, Ids, JobOk, Unpaid
<1>7. /\ \A k \in Jobs \ {j} : job'[k] = job[k]
      /\ job'[j] = q
  BY <1>1, <1>5
<1>8. TypeOK'
  BY <1>1, <1>3, <1>4, <1>5, <1>6 DEF IInv, TypeOK
<1> HIDE DEF p, q
<1>9. JobsOk'
  <2> SUFFICES ASSUME NEW k \in Jobs, job'[k].stage # "idle"
               PROVE  JobOk(job[k])'
    BY DEF JobsOk
  <2>1. CASE k = j
    BY <1>1, <1>2, <1>3, <1>4, <1>6, <1>7, <2>1 DEF JobOk, Unpaid
  <2>2. CASE k # j
    <3>1. job'[k] = job[k] /\ JobOk(job[k])
      BY <1>7, <2>2 DEF IInv, JobsOk
    <3>2. job[k].id # p.id
      BY <1>1, <1>3, <2>2, <3>1 DEF IInv, OwnIds
    <3> QED
      BY <1>1, <1>6, <3>1, <3>2 DEF JobOk, Unpaid
  <2> QED
    BY <2>1, <2>2
<1>10. OwnIds'
  BY <1>1, <1>4, <1>7 DEF IInv, OwnIds
<1>11. SentOnce'
  BY <1>2, <1>3, <1>6 DEF IInv, SentOnce, JobOk
<1>12. AnchorIsHonest' /\ NothingEarly' /\ GoodNewsIsTrue'
  BY <1>1, <1>6 DEF IInv, AnchorIsHonest, NothingEarly, GoodNewsIsTrue
<1>13. TimedOutIsUnpaid'
  BY <1>1, <1>2, <1>3, <1>6 DEF IInv, TimedOutIsUnpaid, JobOk, Sent
<1> QED
  BY <1>8, <1>9, <1>10, <1>11, <1>12, <1>13 DEF IInv

LEMMA HandlerKeeps ==
  ASSUME IInv, NEW j \in Jobs, Handler(j)
  PROVE  IInv'
<1> DEFINE q == job[j]
           t == transactions[q.id]
<1>1. CASE SeePending(j)
  <2>1. q.stage = "polling"
    BY <1>1 DEF SeePending, At
  <2>2. q \in PollingJob /\ JobOk(q)
    BY <2>1, RunningFacts
  <2>3. IF q.submitted THEN \E p \in onChain : p.id = q.id
                       ELSE \A p \in Sent : p.id # q.id
    BY <2>1, <2>2 DEF JobOk, Unpaid, PollingJob
  <2> QED
    BY <1>1, <2>2, <2>3, EndOfRoundKeeps DEF SeePending, ledgerVars
<1>2. CASE SeeTerminal(j)
  <2>1. /\ q.stage = "polling" /\ t.status \in {"completed", "refunded", "error"}
        /\ Report(j, Outcome(t.kind, t.status))
        /\ UNCHANGED <<transactions, funded, ledgerVars>>
    BY <1>2 DEF SeeTerminal, At, Terminal, ledgerVars
  <2>2. q.id \in Ids
    BY <2>1, RunningFacts DEF JobOk
  <2>3. Outcome(t.kind, t.status) \in {"completed", "refunded", "error"}
    BY <2>1 DEF Outcome
  <2>4. t.kind = "deposit" /\ Outcome(t.kind, t.status) = "completed" => q.id \in funded
    BY <2>1, <2>2 DEF IInv, AnchorIsHonest, Outcome
  <2>5. t.kind = "withdraw" /\ Outcome(t.kind, t.status) = "completed"
          => \E p \in onChain : p.id = q.id
    BY <2>1, <2>2 DEF IInv, AnchorIsHonest, Outcome
  <2> QED
    BY <2>1, <2>3, <2>4, <2>5, ReportKeeps DEF Outcomes
<1>3. CASE SeeLookupError(j)
  <2> DEFINE r == [stage |-> "recovering", id |-> q.id, polls |-> 0]
  <2>1. /\ q.stage = "polling" /\ Continue(j, r)
        /\ UNCHANGED <<transactions, funded, ledgerVars>>
    BY <1>3 DEF SeeLookupError, At, ledgerVars
  <2>2. r \in RunningJob /\ JobOk(r)
    BY <2>1, RunningFacts DEF RunningJob, RecoveringJob, JobOk, Unpaid
  <2> QED
    BY <2>1, <2>2, ContinueKeeps
<1>4. CASE RecoverDeposit(j)
  <2>1. /\ q.stage = "recovering"
        /\ t.status = "completed" \/ (t.status = "lookup_error" /\ q.id \in funded)
        /\ Report(j, "completed")
        /\ UNCHANGED <<transactions, funded, ledgerVars>>
    BY <1>4 DEF RecoverDeposit, At, Verified, ledgerVars
  <2>2. q.id \in Ids
    BY <2>1, RunningFacts DEF JobOk
  <2>3. /\ t.kind = "deposit" => q.id \in funded
        /\ t.kind = "withdraw" => \E p \in onChain : p.id = q.id
    BY <2>1, <2>2 DEF IInv, AnchorIsHonest
  <2> QED
    BY <2>1, <2>3, ReportKeeps DEF Outcomes
<1>5. CASE RecheckInVain(j)
  <2> DEFINE r == [q EXCEPT !.polls = @ + 1]
  <2>1. /\ q.stage = "recovering"
        /\ UNCHANGED <<transactions, funded, ledgerVars>>
    BY <1>5 DEF RecheckInVain, At, ledgerVars
  <2>2. q \in RecoveringJob /\ JobOk(q)
    BY <2>1, RunningFacts
  <2>3. CASE Report(j, "error")
    BY <2>1, <2>3, ReportKeeps DEF Outcomes
  <2>4. CASE Continue(j, r)
    <3>1. /\ r \in RunningJob /\ r.id = q.id /\ r.stage = "recovering"
      BY <2>2 DEF RecoveringJob, RunningJob
    <3>2. JobOk(r)
      BY <2>2, <3>1 DEF JobOk, Unpaid
    <3> QED
      BY <2>1, <2>4, <3>1, <3>2, ContinueKeeps
  <2> QED
    BY <1>5, <2>3, <2>4 DEF RecheckInVain
<1>6. CASE SeeRequest(j)
  <2> DEFINE r == [q EXCEPT !.stage = "paying", !.submitted = TRUE]
  <2>1. /\ q.stage = "polling" /\ ~q.submitted
        /\ t.status = "pending_user_transfer_start"
        /\ Continue(j, r)
        /\ UNCHANGED <<transactions, funded, ledgerVars>>
    BY <1>6 DEF SeeRequest, At, MustPay, Has, ledgerVars
  <2>2. q \in PollingJob /\ JobOk(q)
    BY <2>1, RunningFacts
  <2>3. r \in RunningJob /\ r.id = q.id /\ r.stage = "paying" /\ r.submitted
    BY <2>2 DEF PollingJob, RunningJob
  <2>4. t.amount \in Amounts
    BY <2>1, <2>2 DEF IInv, AnchorIsHonest, JobOk
  <2>5. JobOk(r)
    BY <2>1, <2>2, <2>3, <2>4 DEF JobOk, Unpaid
  <2> QED
    BY <2>1, <2>3, <2>5, ContinueKeeps
<1>7. CASE BuildPayment(j)
  <2> DEFINE payment == [id |-> q.id, amount |-> t.amount, seq |-> sequence]
             r == [stage |-> "signing", id |-> q.id, polls |-> q.polls,
                   afterPaid |-> q.afterPaid, submitted |-> q.submitted,
                   payment |-> payment]
  <2>1. /\ q.stage = "paying" /\ Continue(j, r)
        /\ UNCHANGED <<transactions, funded, ledgerVars>>
    BY <1>7 DEF BuildPayment, At, ledgerVars
  <2>2. q \in PollingJob /\ JobOk(q)
    BY <2>1, RunningFacts
  <2>3. payment \in Payments /\ payment.id = q.id
    BY <2>1, <2>2 DEF PollingJob, JobOk, Payments, IInv, TypeOK
  <2> HIDE DEF payment
  <2>4. r \in RunningJob
    BY <2>2, <2>3 DEF PollingJob, PayingJob, RunningJob
  <2>5. JobOk(r)
    BY <2>1, <2>2, <2>3 DEF JobOk, Unpaid
  <2> QED
    BY <2>1, <2>4, <2>5, ContinueKeeps
<1>8. CASE SubmitPayment(j)
  BY <1>8, SubmitKeeps
<1>9. CASE PaymentConfirmed(j)
  <2>1. /\ q.stage = "submitted" /\ q.payment \in onChain /\ EndOfRound(j)
        /\ UNCHANGED <<transactions, funded, ledgerVars>>
    BY <1>9 DEF PaymentConfirmed, At, ledgerVars
  <2>2. q \in PayingJob /\ JobOk(q)
    BY <2>1, RunningFacts
  <2>3. q.submitted /\ \E p \in onChain : p.id = q.id
    BY <2>1, <2>2 DEF JobOk
  <2> QED
    BY <2>1, <2>2, <2>3, EndOfRoundKeeps
<1>10. CASE PaymentFails(j)
  <2>1. /\ q.stage # "idle" /\ Report(j, "payment_failed")
        /\ UNCHANGED <<transactions, funded, ledgerVars>>
    BY <1>10 DEF PaymentFails, ledgerVars
  <2> QED
    BY <2>1, ReportKeeps DEF Outcomes
<1> QED
  BY <1>1, <1>2, <1>3, <1>4, <1>5, <1>6, <1>7, <1>8, <1>9, <1>10 DEF Handler

-----------------------------------------------------------------------------
(***************************************************************************)
(* The steps of the anchor and of the ledger.                              *)
(***************************************************************************)

LEMMA AnchorStepKeeps ==
  ASSUME IInv, NEW i \in Ids, Anchor(i)
  PROVE  IInv'
<1> DEFINE t == transactions[i]
<1>1. /\ t \in SepTransaction
      /\ transactions \in Seq(SepTransaction)
      /\ transactions = [transactions EXCEPT ![i] = t]
  <2>1. transactions \in Seq(SepTransaction)
    BY DEF IInv, TypeOK, SepTransaction
  <2>2. t \in SepTransaction
    BY <2>1 DEF Ids
  <2>3. transactions = [transactions EXCEPT ![i] = t]
    BY <2>1 DEF Ids
  <2> QED
    BY <2>1, <2>2, <2>3
<1>2. balance \in Nat /\ funded \subseteq Ids /\ Amounts \subseteq Nat
  BY Sep24Assumption DEF Sep24Assumption, IInv, TypeOK
<1>3. /\ t.kind = "deposit" /\ t.status = "completed" => i \in funded
      /\ t.kind = "withdraw" => t.status # "lookup_error"
      /\ t.kind = "withdraw" /\ t.status \in {"pending_anchor", "completed", "refunded"}
           => \E p \in onChain : p.id = i
      /\ t.status = "pending_user_transfer_start" => t.amount \in Amounts
  BY DEF IInv, AnchorIsHonest
<1>4. ASSUME NEW status \in Statuses, SetStatus(i, status), funded' = funded,
             balance' \in Nat, UNCHANGED <<onChain, inFlight, sequence, job, reported>>,
             status # "pending_user_transfer_start",
             t.kind = "deposit" /\ status = "completed" => i \in funded,
             t.kind = "withdraw" => status # "lookup_error",
             t.kind = "withdraw" /\ status \in {"pending_anchor", "completed", "refunded"}
               => \E p \in onChain : p.id = i
      PROVE  IInv'
  <2> DEFINE u == [t EXCEPT !.status = status]
  <2>1. /\ transactions' = [transactions EXCEPT ![i] = u]
        /\ u \in SepTransaction /\ u.kind = t.kind
        /\ u.amount = t.amount /\ u.status = status
    BY <1>1, <1>4 DEF SetStatus, SepTransaction
  <2> HIDE DEF u
  <2> QED
    BY <1>2, <1>4, <2>1, AnchorKeeps
<1>5. CASE \E amount \in Amounts : FillForm(i, amount)
  <2>1. PICK amount \in Amounts : FillForm(i, amount)
    BY <1>5
  <2> DEFINE u == [t EXCEPT !.status = FormAccepted[t.kind], !.amount = amount]
  <2>2. /\ transactions' = [transactions EXCEPT ![i] = u]
        /\ UNCHANGED <<funded, onChain, inFlight, balance, sequence, job, reported>>
    BY <1>1, <2>1 DEF FillForm, AnchorOnly, ledgerVars
  <2>3. /\ t.kind = "deposit" => FormAccepted[t.kind] = "pending_anchor"
        /\ t.kind = "withdraw" => FormAccepted[t.kind] = "pending_user_transfer_start"
        /\ t.kind \in {"deposit", "withdraw"}
    BY <1>1 DEF SepTransaction, FormAccepted, Kinds
  <2> HIDE DEF t
  <2>4. /\ u \in SepTransaction /\ u.kind = t.kind /\ u.amount = amount
        /\ u.kind = "deposit" => u.status = "pending_anchor"
        /\ u.kind = "withdraw" => u.status = "pending_user_transfer_start"
        /\ u.kind \in {"deposit", "withdraw"}
    BY <1>1, <2>3 DEF SepTransaction, Kinds, Statuses
  <2> USE DEF t
  <2> HIDE DEF u
  <2> QED
    BY <1>2, <2>2, <2>4, AnchorKeeps
<1>6. CASE FundDeposit(i)
  <2>1. /\ transactions' = [transactions EXCEPT ![i] = t]
        /\ funded' = funded \cup {i} /\ balance' = balance + t.amount
        /\ UNCHANGED <<onChain, inFlight, sequence, job, reported>>
    BY <1>1, <1>6 DEF FundDeposit
  <2>2. balance' \in Nat
    BY <1>1, <1>2, <2>1 DEF SepTransaction
  <2> QED
    BY <1>1, <1>2, <1>3, <2>1, <2>2, AnchorKeeps
<1>7. CASE LoseTrackOfDeposit(i)
  <2>1. t.kind = "deposit" /\ SetStatus(i, "lookup_error") /\ AnchorOnly
    BY <1>7 DEF LoseTrackOfDeposit, Has
  <2> QED
    BY <1>2, <1>4, <2>1 DEF AnchorOnly, ledgerVars, Statuses, Terminal
<1>8. CASE CompleteDeposit(i)
  <2>1. t.kind = "deposit" /\ i \in funded /\ SetStatus(i, "completed") /\ AnchorOnly
    BY <1>8 DEF CompleteDeposit, Has
  <2> QED
    BY <1>2, <1>4, <2>1 DEF AnchorOnly, ledgerVars, Statuses, Terminal
<1>9. CASE RefundDeposit(i)
  <2>1. t.kind = "deposit" /\ SetStatus(i, "refunded") /\ AnchorOnly
    BY <1>9 DEF RefundDeposit, Has
  <2> QED
    BY <1>2, <1>4, <2>1 DEF AnchorOnly, ledgerVars, Statuses, Terminal
<1>10. CASE CreditWithdrawal(i)
  <2>1. /\ t.kind = "withdraw" /\ \E p \in onChain : p.id = i
        /\ SetStatus(i, "pending_anchor") /\ AnchorOnly
    BY <1>10 DEF CreditWithdrawal, Has
  <2> QED
    BY <1>2, <1>4, <2>1 DEF AnchorOnly, ledgerVars, Statuses
<1>11. CASE CompleteWithdrawal(i)
  <2>1. /\ t.kind = "withdraw" /\ t.status = "pending_anchor"
        /\ SetStatus(i, "completed") /\ AnchorOnly
    BY <1>11 DEF CompleteWithdrawal, Has
  <2> QED
    BY <1>2, <1>3, <1>4, <2>1 DEF AnchorOnly, ledgerVars, Statuses, Terminal
<1>12. CASE RefundWithdrawal(i)
  <2>1. /\ t.kind = "withdraw" /\ t.status = "pending_anchor"
        /\ SetStatus(i, "refunded") /\ balance' = balance + t.amount
        /\ UNCHANGED <<funded, onChain, inFlight, sequence, job, reported>>
    BY <1>12 DEF RefundWithdrawal, Has
  <2>2. balance' \in Nat
    BY <1>1, <1>2, <2>1 DEF SepTransaction
  <2> QED
    BY <1>2, <1>3, <1>4, <2>1, <2>2 DEF Statuses, Terminal
<1>13. CASE GiveUp(i)
  <2>1. SetStatus(i, "error") /\ AnchorOnly
    BY <1>13 DEF GiveUp
  <2> QED
    BY <1>2, <1>4, <2>1 DEF AnchorOnly, ledgerVars, Statuses, Terminal
<1> QED
  BY <1>5, <1>6, <1>7, <1>8, <1>9, <1>10, <1>11, <1>12, <1>13 DEF Anchor

LEMMA LedgerStepKeeps ==
  ASSUME IInv, NEW p \in inFlight,
         ApplyPayment(p) \/ FailPayment(p) \/ DropPayment(p)
  PROVE  IInv'
<1>1. p \in Payments /\ p.amount \in Nat /\ balance \in Nat /\ sequence \in Nat
  BY Sep24Assumption DEF Sep24Assumption, IInv, TypeOK, Payments
<1>2. CASE ApplyPayment(p)
  BY <1>1, <1>2, LedgerKeeps DEF ApplyPayment
<1>3. CASE FailPayment(p)
  BY <1>1, <1>3, LedgerKeeps DEF FailPayment
<1>4. CASE DropPayment(p)
  BY <1>1, <1>4, LedgerKeeps DEF DropPayment
<1> QED
  BY <1>2, <1>3, <1>4

-----------------------------------------------------------------------------

LEMMA Start0 == Init => IInv
<1> SUFFICES ASSUME Init PROVE IInv
  OBVIOUS
<1>1. /\ transactions = <<>> /\ funded = {} /\ onChain = {} /\ inFlight = {}
      /\ balance = Funds /\ sequence = 1
      /\ job = [j \in Jobs |-> Idle]
      /\ reported = [i \in 1 .. MaxTransactions |-> "nothing"]
  BY DEF Init
<1>2. Ids = {} /\ Len(transactions) = 0
  BY <1>1 DEF Ids
<1>3. TypeOK
  BY <1>1, <1>2, Sep24Assumption DEF Sep24Assumption, TypeOK, Outcomes
<1>4. \A j \in Jobs : job[j].stage = "idle"
  BY <1>1 DEF Idle
<1>5. /\ JobsOk /\ OwnIds /\ SentOnce /\ AnchorIsHonest
      /\ NothingEarly /\ GoodNewsIsTrue /\ TimedOutIsUnpaid
  BY <1>1, <1>2, <1>4
     DEF JobsOk, OwnIds, SentOnce, AnchorIsHonest, NothingEarly, GoodNewsIsTrue,
         TimedOutIsUnpaid, Sent
<1> QED
  BY <1>3, <1>5 DEF IInv

LEMMA Stutter == IInv /\ UNCHANGED vars => IInv'
<1> SUFFICES ASSUME IInv, UNCHANGED vars PROVE IInv'
  OBVIOUS
<1>1. UNCHANGED <<transactions, funded, onChain, inFlight, balance, sequence, job, reported>>
  BY DEF vars, ledgerVars
<1>2. TypeOK'
  BY <1>1 DEF IInv, TypeOK, Ids
<1>3. \A r : JobOk(r)' <=> JobOk(r)
  BY <1>1 DEF JobOk, Unpaid, Sent, Ids
<1>4. JobsOk' /\ OwnIds'
  BY <1>1, <1>3 DEF IInv, JobsOk, OwnIds
<1>5. /\ SentOnce' /\ AnchorIsHonest' /\ NothingEarly'
      /\ GoodNewsIsTrue' /\ TimedOutIsUnpaid'
  BY <1>1 DEF IInv, SentOnce, AnchorIsHonest, NothingEarly, GoodNewsIsTrue,
              TimedOutIsUnpaid, Sent, Ids
<1> QED
  BY <1>2, <1>4, <1>5 DEF IInv

\* The invariant holds for ever.
THEOREM Invariance == Spec => []IInv
<1>1. Init => IInv
  BY Start0
<1>2. IInv /\ [Next]_vars => IInv'
  <2> SUFFICES ASSUME IInv, [Next]_vars PROVE IInv'
    OBVIOUS
  <2>1. CASE \E j \in Jobs, kind \in Kinds : Start(j, kind)
    BY <2>1, StartKeeps
  <2>2. CASE \E j \in Jobs : Handler(j) \/ Abandon(j)
    BY <2>2, HandlerKeeps, AbandonKeeps
  <2>3. CASE \E i \in Ids : Anchor(i)
    BY <2>3, AnchorStepKeeps
  <2>4. CASE \E p \in inFlight : ApplyPayment(p) \/ FailPayment(p) \/ DropPayment(p)
    BY <2>4, LedgerStepKeeps
  <2>5. CASE UNCHANGED vars
    BY <2>5, Stutter
  <2> QED
    BY <2>1, <2>2, <2>3, <2>4, <2>5 DEF Next
<1> QED
  BY <1>1, <1>2, PTL DEF Spec

\* The state of the pages, the anchor and the ledger keeps its types: no payment
\* is built of an amount that the anchor has not named.
THEOREM TypeCorrect == Spec => []TypeOK
<1>1. IInv => TypeOK
  BY DEF IInv
<1> QED
  BY <1>1, Invariance, PTL

\* A withdrawal is paid once, however often the anchor asks for the payment and
\* whatever becomes of the answers.
THEOREM NoWithdrawalPaidTwice == Spec => []PaidOnce
<1>1. IInv => PaidOnce
  BY DEF IInv, SentOnce, PaidOnce, Sent
<1> QED
  BY <1>1, Invariance, PTL

\* What a page reports as done is done: pollSep24Withdraw and the recovery of a
\* deposit never mistake a missing payment for one that was made.
THEOREM ReportsAreBacked == Spec => []GoodNewsIsTrue
<1>1. IInv => GoodNewsIsTrue
  BY DEF IInv
<1> QED
  BY <1>1, Invariance, PTL

\* Who is told that no payment was sent can start over without paying twice.
THEOREM TimeoutIsSafe == Spec => []TimedOutIsUnpaid
<1>1. IInv => TimedOutIsUnpaid
  BY DEF IInv
<1> QED
  BY <1>1, Invariance, PTL

-----------------------------------------------------------------------------
(***************************************************************************)
(* A handler gets on.  That every handler ends, once each of them goes on  *)
(* as long as it can, is a matter of fairness and of ENABLED and left to   *)
(* TLC; that it can only go on for so long is proved.                      *)
(***************************************************************************)

\* The counters of a handler are below their bounds.
Counted(q) ==
  /\ q.stage \in {"polling", "paying", "signing", "submitted"} => q.polls < MaxAttempts
  /\ q.stage = "recovering" => q.polls < MaxRecoveries

AllCounted == \A j \in Jobs : Counted(job[j])

\* The steps left at each stage.
LEMMA StepsAt ==
  ASSUME NEW q
  PROVE  /\ q.stage = "idle" => StepsLeft(q) = 0
         /\ q.stage = "recovering" => StepsLeft(q) = MaxRecoveries - q.polls
         /\ q.stage = "polling" =>
              StepsLeft(q) = MaxRecoveries + (MaxAttempts - q.polls)
                               + (IF q.submitted THEN 0 ELSE 3)
         /\ q.stage = "paying" => StepsLeft(q) = MaxRecoveries + (MaxAttempts - q.polls) + 2
         /\ q.stage = "signing" => StepsLeft(q) = MaxRecoveries + (MaxAttempts - q.polls) + 1
         /\ q.stage = "submitted" => StepsLeft(q) = MaxRecoveries + (MaxAttempts - q.polls)
  BY DEF StepsLeft

\* A running handler has some left, and not too many.
LEMMA SomeLeft ==
  ASSUME IInv, AllCounted, NEW j \in Jobs, job[j].stage # "idle"
  PROVE  StepsLeft(job[j]) \in 1 .. MaxSteps
<1> DEFINE q == job[j]
<1>1. /\ q.stage \in {"polling", "paying", "signing", "submitted", "recovering"}
      /\ q.polls \in Nat
      /\ q.stage = "polling" => q.submitted \in BOOLEAN
  BY RunningFacts DEF PollingJob, PayingJob, RecoveringJob
<1>2. Counted(q)
  BY DEF AllCounted
<1>3. MaxAttempts \in Nat /\ MaxRecoveries \in Nat
  BY Sep24Assumption DEF Sep24Assumption
<1> HIDE DEF q
<1>4. StepsLeft(q) \in 1 .. MaxSteps
  <2>1. CASE q.stage = "recovering"
    BY <1>1, <1>2, <1>3, <2>1, StepsAt DEF Counted, MaxSteps
  <2>2. CASE q.stage = "polling"
    BY <1>1, <1>2, <1>3, <2>2, StepsAt DEF Counted, MaxSteps
  <2>3. CASE q.stage \in {"paying", "signing", "submitted"}
    BY <1>1, <1>2, <1>3, <2>3, StepsAt DEF Counted, MaxSteps
  <2> QED
    BY <1>1, <2>1, <2>2, <2>3
<1> QED
  BY <1>4 DEF q

\* In every state the steps left are a number that does not depend on the answers.
LeftBounded == \A j \in Jobs : StepsLeft(job[j]) \in 0 .. MaxSteps

LEMMA AlwaysBounded == IInv /\ AllCounted => LeftBounded
<1> SUFFICES ASSUME IInv, AllCounted, NEW j \in Jobs
             PROVE  StepsLeft(job[j]) \in 0 .. MaxSteps
  BY DEF LeftBounded
<1>1. MaxSteps \in Nat
  BY Sep24Assumption DEF Sep24Assumption, MaxSteps
<1>2. CASE job[j].stage = "idle"
  BY <1>1, <1>2, StepsAt
<1>3. CASE job[j].stage # "idle"
  BY <1>1, <1>3, SomeLeft
<1> QED
  BY <1>2, <1>3

\* A handler that ends has none left.
LEMMA ReportCounts ==
  ASSUME IInv, AllCounted, NEW j \in Jobs, NEW outcome, job[j].stage # "idle",
         Report(j, outcome)
  PROVE  Counted(job'[j]) /\ StepsLeft(job'[j]) < StepsLeft(job[j])
<1>1. job'[j] = Idle
  BY DEF Report, IInv, TypeOK
<1>2. StepsLeft(job'[j]) = 0 /\ Counted(job'[j])
  BY <1>1, StepsAt DEF Idle, Counted
<1>3. MaxSteps \in Nat
  BY Sep24Assumption DEF Sep24Assumption, MaxSteps
<1> QED
  BY <1>2, <1>3, SomeLeft

\* What a handler that goes on has left is what its new record says.
LEMMA ContinueCounts ==
  ASSUME IInv, NEW j \in Jobs, NEW q, Continue(j, q), Counted(q),
         StepsLeft(q) < StepsLeft(job[j])
  PROVE  Counted(job'[j]) /\ StepsLeft(job'[j]) < StepsLeft(job[j])
<1>1. job'[j] = q
  BY DEF Continue, IInv, TypeOK
<1> QED
  BY <1>1

\* A round is counted; after a payment there is no second one.
LEMMA RoundCounts ==
  ASSUME IInv, AllCounted, NEW j \in Jobs, EndOfRound(j),
         job[j].stage \in {"polling", "submitted"}
  PROVE  Counted(job'[j]) /\ StepsLeft(job'[j]) < StepsLeft(job[j])
<1> DEFINE q     == job[j]
           polls == q.polls + 1
           after == IF q.submitted THEN q.afterPaid + 1 ELSE 0
           r     == [stage |-> "polling", id |-> q.id, polls |-> polls,
                     afterPaid |-> after, submitted |-> q.submitted]
<1>1. /\ q.polls \in Nat /\ q.submitted \in BOOLEAN
      /\ q.stage = "submitted" => q.submitted
  BY RunningFacts DEF PollingJob, PayingJob, JobOk
<1>2. Counted(q)
  BY DEF AllCounted
<1>3. CASE \E outcome : Report(j, outcome)
  BY <1>3, ReportCounts
<1>4. CASE polls # MaxAttempts /\ Continue(j, r)
  <2>1. /\ r.stage = "polling" /\ r.polls = q.polls + 1 /\ r.submitted = q.submitted
        /\ q.polls < MaxAttempts /\ MaxAttempts \in Nat /\ MaxRecoveries \in Nat
    BY <1>2, Sep24Assumption DEF Sep24Assumption, Counted
  <2> HIDE DEF r, q
  <2>2. Counted(r)
    BY <1>1, <1>4, <2>1 DEF Counted
  <2>3. StepsLeft(r) < StepsLeft(q)
    <3>1. StepsLeft(r) = MaxRecoveries + (MaxAttempts - (q.polls + 1))
                           + (IF q.submitted THEN 0 ELSE 3)
      BY <2>1, StepsAt
    <3>2. CASE q.stage = "polling"
      BY <1>1, <2>1, <3>1, <3>2, StepsAt
    <3>3. CASE q.stage = "submitted"
      BY <1>1, <2>1, <3>1, <3>3, StepsAt
    <3>4. q.stage \in {"polling", "submitted"}
      BY DEF q
    <3> QED
      BY <3>2, <3>3, <3>4
  <2> QED
    BY <1>4, <2>2, <2>3, ContinueCounts DEF q
<1> QED
  BY <1>3, <1>4 DEF EndOfRound

\* Each step of a handler takes it closer to its end.
LEMMA HandlerCounts ==
  ASSUME IInv, AllCounted, NEW j \in Jobs, Handler(j)
  PROVE  /\ job[j].stage # "idle"
         /\ Counted(job'[j])
         /\ StepsLeft(job'[j]) < StepsLeft(job[j])
<1> DEFINE q == job[j]
<1>1. q.stage # "idle"
  BY DEF Handler, SeePending, SeeTerminal, SeeLookupError, RecoverDeposit, RecheckInVain,
         SeeRequest, BuildPayment, SubmitPayment, PaymentConfirmed, PaymentFails, At
<1>2. /\ q.polls \in Nat
      /\ q.stage \in {"polling", "paying"} => q \in PollingJob
      /\ q.stage \in {"signing", "submitted"} => q \in PayingJob
      /\ q.stage = "recovering" => q \in RecoveringJob
  BY <1>1, RunningFacts DEF PollingJob, PayingJob, RecoveringJob
<1>3. Counted(q) /\ MaxAttempts \in Nat /\ MaxRecoveries \in Nat \ {0}
  BY Sep24Assumption DEF Sep24Assumption, AllCounted
<1>4. CASE SeePending(j) \/ PaymentConfirmed(j)
  BY <1>1, <1>4, RoundCounts DEF SeePending, PaymentConfirmed, At
<1>5. CASE SeeTerminal(j) \/ RecoverDeposit(j) \/ PaymentFails(j)
  BY <1>1, <1>5, ReportCounts DEF SeeTerminal, RecoverDeposit, PaymentFails
<1>6. CASE SeeLookupError(j)
  <2> DEFINE r == [stage |-> "recovering", id |-> q.id, polls |-> 0]
  <2>1. q.stage = "polling" /\ Continue(j, r)
    BY <1>6 DEF SeeLookupError, At
  <2>2. r.stage = "recovering" /\ r.polls = 0
    OBVIOUS
  <2> HIDE DEF r
  <2>3. Counted(r) /\ StepsLeft(r) = MaxRecoveries
    BY <1>3, <2>2, StepsAt DEF Counted
  <2>4. q.submitted \in BOOLEAN
    BY <1>2, <2>1 DEF PollingJob
  <2>5. StepsLeft(q) = MaxRecoveries + (MaxAttempts - q.polls) + (IF q.submitted THEN 0 ELSE 3)
    BY <2>1, StepsAt
  <2>6. StepsLeft(r) < StepsLeft(q)
    BY <1>2, <1>3, <2>1, <2>3, <2>4, <2>5 DEF Counted
  <2> QED
    BY <1>1, <2>1, <2>3, <2>6, ContinueCounts
<1>7. CASE RecheckInVain(j)
  <2> DEFINE r == [q EXCEPT !.polls = @ + 1]
  <2>1. q.stage = "recovering"
    BY <1>7 DEF RecheckInVain, At
  <2>2. CASE Report(j, "error")
    BY <1>1, <2>2, ReportCounts
  <2>3. CASE q.polls + 1 < MaxRecoveries /\ Continue(j, r)
    <3>1. r.stage = "recovering" /\ r.polls = q.polls + 1
      BY <1>2, <2>1 DEF RecoveringJob
    <3> HIDE DEF r
    <3>2. Counted(r)
      BY <2>3, <3>1 DEF Counted
    <3>3. StepsLeft(r) < StepsLeft(q)
      BY <1>2, <1>3, <2>1, <3>1, StepsAt
    <3> QED
      BY <1>1, <2>3, <3>2, <3>3, ContinueCounts
  <2> QED
    BY <1>7, <2>2, <2>3 DEF RecheckInVain
<1>8. CASE SeeRequest(j)
  <2> DEFINE r == [q EXCEPT !.stage = "paying", !.submitted = TRUE]
  <2>1. q.stage = "polling" /\ ~q.submitted /\ Continue(j, r)
    BY <1>8 DEF SeeRequest, At, MustPay
  <2>2. r.stage = "paying" /\ r.polls = q.polls
    BY <1>2, <2>1 DEF PollingJob
  <2> HIDE DEF r
  <2>3. Counted(r)
    BY <1>3, <2>1, <2>2 DEF Counted
  <2>4. StepsLeft(r) < StepsLeft(q)
    BY <1>2, <1>3, <2>1, <2>2, StepsAt
  <2> QED
    BY <1>1, <2>1, <2>3, <2>4, ContinueCounts
<1>9. CASE BuildPayment(j)
  <2>1. PICK r : /\ q.stage = "paying" /\ Continue(j, r)
                 /\ r.stage = "signing" /\ r.polls = q.polls
    BY <1>9 DEF BuildPayment, At
  <2>2. Counted(r)
    BY <1>3, <2>1 DEF Counted
  <2>3. StepsLeft(r) < StepsLeft(q)
    BY <1>2, <1>3, <2>1, StepsAt
  <2> QED
    BY <1>1, <2>1, <2>2, <2>3, ContinueCounts
<1>10. CASE SubmitPayment(j)
  <2> DEFINE r == [q EXCEPT !.stage = "submitted"]
  <2>1. q.stage = "signing" /\ Continue(j, r)
    BY <1>10 DEF SubmitPayment, At
  <2>2. r.stage = "submitted" /\ r.polls = q.polls
    BY <1>2, <2>1 DEF PayingJob
  <2> HIDE DEF r
  <2>3. Counted(r)
    BY <1>3, <2>1, <2>2 DEF Counted
  <2>4. StepsLeft(r) < StepsLeft(q)
    BY <1>2, <1>3, <2>1, <2>2, StepsAt
  <2> QED
    BY <1>1, <2>1, <2>3, <2>4, ContinueCounts
<1> QED
  BY <1>4, <1>5, <1>6, <1>7, <1>8, <1>9, <1>10 DEF Handler

\* A step of anybody else leaves a handler alone, or ends it.
LEMMA OthersCount ==
  ASSUME IInv, NEW j \in Jobs, job[j].stage # "idle", [Next]_vars, ~Handler(j)
  PROVE  job'[j] = job[j] \/ job'[j] = Idle
<1>1. job \in [Jobs -> {Idle} \cup RunningJob]
  BY DEF IInv, TypeOK
<1>2. ASSUME NEW k \in Jobs, NEW kind \in Kinds, Start(k, kind)
      PROVE  job'[j] = job[j]
  <2>1. j # k
    BY <1>2 DEF Start, At
  <2> QED
    BY <1>1, <1>2, <2>1 DEF Start
<1>3. ASSUME NEW k \in Jobs, k # j, Handler(k) PROVE job'[j] = job[j]
  BY <1>1, <1>3 DEF Handler, SeePending, SeeTerminal, SeeLookupError, RecoverDeposit,
       RecheckInVain, SeeRequest, BuildPayment, SubmitPayment, PaymentConfirmed,
       PaymentFails, EndOfRound, Report, Continue
<1>4. ASSUME NEW k \in Jobs, Abandon(k) PROVE job'[j] = job[j] \/ job'[j] = Idle
  BY <1>1, <1>4 DEF Abandon
<1>5. ASSUME NEW i \in Ids, Anchor(i) PROVE job' = job
  BY <1>5 DEF Anchor, FillForm, FundDeposit, LoseTrackOfDeposit, CompleteDeposit, RefundDeposit,
       CreditWithdrawal, CompleteWithdrawal, RefundWithdrawal, GiveUp, AnchorOnly
<1>6. ASSUME NEW p \in inFlight, ApplyPayment(p) \/ FailPayment(p) \/ DropPayment(p)
      PROVE  job' = job
  BY <1>6 DEF ApplyPayment, FailPayment, DropPayment
<1> QED
  BY <1>2, <1>3, <1>4, <1>5, <1>6 DEF Next, vars

\* The counters stay below their bounds.
LEMMA CountersStay ==
  ASSUME IInv, AllCounted, [Next]_vars
  PROVE  AllCounted'
<1> SUFFICES ASSUME NEW j \in Jobs PROVE Counted(job'[j])
  BY DEF AllCounted, Counted
<1>1. Counted(Idle) /\ Counted(job[j])
  BY DEF AllCounted, Counted, Idle
<1>2. CASE Handler(j)
  BY <1>2, HandlerCounts
<1>3. CASE ~Handler(j) /\ job[j].stage # "idle"
  BY <1>1, <1>3, OthersCount
<1>4. CASE ~Handler(j) /\ job[j].stage = "idle"
  <2>1. job \in [Jobs -> {Idle} \cup RunningJob]
    BY DEF IInv, TypeOK
  <2>2. CASE \E kind \in Kinds : Start(j, kind)
    <3>1. PICK id : job'[j] = NewJob(id)
      BY <2>1, <2>2 DEF Start
    <3> QED
      BY <3>1, Sep24Assumption DEF Sep24Assumption, NewJob, Counted
  <2>3. CASE \E k \in Jobs, kind \in Kinds : k # j /\ Start(k, kind)
    BY <1>1, <2>1, <2>3 DEF Start
  <2>4. CASE \E k \in Jobs : k # j /\ (Handler(k) \/ Abandon(k))
    BY <1>1, <2>1, <2>4 DEF Handler, SeePending, SeeTerminal, SeeLookupError, RecoverDeposit,
         RecheckInVain, SeeRequest, BuildPayment, SubmitPayment, PaymentConfirmed,
         PaymentFails, EndOfRound, Report, Continue, Abandon
  <2>5. ~Abandon(j)
    BY <1>4 DEF Abandon, At
  <2>6. ASSUME NEW i \in Ids, Anchor(i) PROVE job' = job
    BY <2>6 DEF Anchor, FillForm, FundDeposit, LoseTrackOfDeposit, CompleteDeposit, RefundDeposit,
         CreditWithdrawal, CompleteWithdrawal, RefundWithdrawal, GiveUp, AnchorOnly
  <2>7. ASSUME NEW p \in inFlight, ApplyPayment(p) \/ FailPayment(p) \/ DropPayment(p)
        PROVE  job' = job
    BY <2>7 DEF ApplyPayment, FailPayment, DropPayment
  <2> QED
    BY <1>1, <1>4, <2>2, <2>3, <2>4, <2>5, <2>6, <2>7 DEF Next, vars
<1> QED
  BY <1>2, <1>3, <1>4

\* No handler of the page, pollSep24Deposit or pollSep24Withdraw with what they call,
\* goes on for more than MaxSteps steps, however the anchor and the ledger behave.
THEOREM HandlersGetOnAlways == Spec => HandlersGetOn
<1> DEFINE GetsOn(j) ==
             LET left == StepsLeft(job[j])  leftNow == StepsLeft(job'[j]) IN
               /\ left <= MaxSteps
               /\ Handler(j) => leftNow < left
               /\ ~At(j, "idle") => left > 0 /\ leftNow <= left
<1>1. Init => AllCounted
  BY DEF Init, AllCounted, Counted, Idle
<1>2. IInv /\ AllCounted /\ [Next]_vars => AllCounted'
  BY CountersStay
<1>3. IInv /\ AllCounted /\ LeftBounded' /\ [Next]_vars => [\A j \in Jobs : GetsOn(j)]_vars
  <2> SUFFICES ASSUME IInv, AllCounted, LeftBounded', [Next]_vars, NEW j \in Jobs
               PROVE  GetsOn(j)
    OBVIOUS
  <2>1. MaxSteps \in Nat
    BY Sep24Assumption DEF Sep24Assumption, MaxSteps
  <2>2. StepsLeft(Idle) = 0
    BY StepsAt DEF Idle
  <2>3. CASE job[j].stage = "idle"
    BY <2>1, <2>3, HandlerCounts, StepsAt DEF At
  <2>4. CASE job[j].stage # "idle"
    <3>1. StepsLeft(job[j]) \in 1 .. MaxSteps
      BY <2>4, SomeLeft
    <3>2. CASE Handler(j)
      <4>1. StepsLeft(job'[j]) \in Nat /\ StepsLeft(job'[j]) < StepsLeft(job[j])
        BY <2>1, <3>2, HandlerCounts DEF LeftBounded
      <4> QED
        BY <2>1, <3>1, <4>1
    <3>3. CASE ~Handler(j)
      BY <2>1, <2>2, <2>4, <3>1, <3>3, OthersCount
    <3> QED
      BY <3>2, <3>3
  <2> QED
    BY <2>3, <2>4
<1> QED
  BY <1>1, <1>2, <1>3, AlwaysBounded, Invariance, PTL DEF Spec, HandlersGetOn
=============================================================================
