--------------------------------- MODULE Sep24 ---------------------------------
(***************************************************************************)
(* The fiat edges: a wallet's SEP-24 deposits (on-ramp) and withdrawals    *)
(* (off-ramp) at an anchor (frontend/src/lib/sep24.ts and the handlers     *)
(* that call it).                                                          *)
(*                                                                         *)
(* A job is one run of a page's SEP-24 button; a wallet may have several,  *)
(* one after the other or at once.  The anchor and the ledger are          *)
(* external: the anchor moves its transactions along as it likes, slowly,  *)
(* or not at all, and the ledger applies a payment only if it carries the  *)
(* account's next sequence number.  The page learns of either only by      *)
(* asking, and the answer may be lost.                                     *)
(***************************************************************************)
EXTENDS Integers, Sequences, FiniteSets

CONSTANTS
  Jobs,                  \* handlers of the wallet that may run at once
  Amounts,               \* what the user may type into the anchor's form
  Funds,                 \* the wallet's initial balance
  MaxAttempts,           \* maxAttempts of either poll (120, 240)
  PostPaymentAttempts,   \* polls once the anchor is paid (15)
  MaxRecoveries,         \* rechecks after a lookup error (5)
  MaxTransactions        \* bound: transactions opened at the anchor

ASSUME Sep24Assumption ==
  /\ Amounts \subseteq Nat \ {0}
  /\ Funds \in Nat
  /\ MaxAttempts \in Nat \ {0}
  /\ PostPaymentAttempts \in Nat \ {0}
  /\ MaxRecoveries \in Nat \ {0}
  /\ MaxTransactions \in Nat

VARIABLES
  transactions,  \* the anchor's SEP-24 transactions; an id is an index
  funded,        \* ids of deposits whose payment to the wallet is on the ledger
  onChain,       \* the wallet's payments that were applied
  inFlight,      \* ... and those submitted and neither applied nor dropped
  balance,       \* the wallet's balance of the asset
  sequence,      \* the wallet's next sequence number
  job,           \* how far each job has come
  reported       \* what the page told the user of each transaction

ledgerVars == <<onChain, inFlight, balance, sequence>>
vars == <<transactions, funded, ledgerVars, job, reported>>

Ids == DOMAIN transactions
Has(i, kind, status) == transactions[i].kind = kind /\ transactions[i].status = status

Idle == [stage |-> "idle"]
At(j, stage) == job[j].stage = stage

Kinds == {"deposit", "withdraw"}

\* A transaction that ended in "error" because the anchor could not look up its
\* own payment is kept apart: only its message differs.
Terminal == {"completed", "refunded", "error", "lookup_error"}
Statuses == Terminal \cup {"incomplete", "pending_user_transfer_start", "pending_anchor"}

\* The handler of job j ends and tells the user how.
Report(j, outcome) ==
  /\ job' = [job EXCEPT ![j] = Idle]
  /\ reported' = [reported EXCEPT ![job[j].id] = outcome]

Continue(j, q) == job' = [job EXCEPT ![j] = q] /\ UNCHANGED reported

-----------------------------------------------------------------------------
(***************************************************************************)
(* The handlers.                                                           *)
(***************************************************************************)

\* startInteractiveTransaction: the anchor opens a transaction; it learns of an
\* amount only from its own form.
NewTransaction(kind) == [kind |-> kind, status |-> "incomplete", amount |-> 0]

\* runSep24Deposit, runSep24Withdraw up to the poll.
NewJob(id) == [stage |-> "polling", id |-> id, polls |-> 0, afterPaid |-> 0, submitted |-> FALSE]

\* handleSep24Deposit, handleSep24Withdraw up to the poll: the balance is checked,
\* the wallet signs in, and a transaction is opened.
Start(j, kind) ==
  LET id == Len(transactions) + 1 IN
    /\ At(j, "idle")
    /\ id <= MaxTransactions
    /\ kind = "withdraw" => balance > 0
    /\ transactions' = Append(transactions, NewTransaction(kind))
    /\ job' = [job EXCEPT ![j] = NewJob(id)]
    /\ UNCHANGED <<funded, ledgerVars, reported>>

\* Mutant: the polls after the payment are not counted.
PollOn(j) == Continue(j, [job[j] EXCEPT !.stage = "polling"])

\* The end of a round of either poll: the counters, then a wait of two seconds.
EndOfRound(j) ==
  LET q      == job[j]
      polls  == q.polls + 1
      after  == IF q.submitted THEN q.afterPaid + 1 ELSE 0
      isLast == polls = MaxAttempts \/ after = PostPaymentAttempts
  IN
    \/ /\ isLast
       /\ Report(j, IF q.submitted THEN "anchor_pending" ELSE "timed_out")
    \/ /\ ~isLast
       /\ Continue(j, [stage     |-> "polling",
                       id        |-> q.id,
                       polls     |-> polls,
                       afterPaid |-> after,
                       submitted |-> q.submitted])

\* Mutant: the page pays without waiting for the anchor to ask.
MustPayAtOnce(q) == transactions[q.id].kind = "withdraw" /\ ~q.submitted

\* The anchor waits for the payment, and this handler has not been there yet.
MustPay(q) == Has(q.id, "withdraw", "pending_user_transfer_start") /\ ~q.submitted

\* A poll that finds nothing to do.
SeePending(j) ==
  LET q == job[j] IN
    /\ At(j, "polling")
    /\ transactions[q.id].status \notin Terminal
    /\ ~MustPay(q)
    /\ EndOfRound(j)
    /\ UNCHANGED <<transactions, funded, ledgerVars>>

\* What the page says of a terminal status.  The on-ramp shows the status; the
\* off-ramp calls whatever is neither an error nor pending a completed withdrawal.
Outcome(kind, status) ==
  IF kind = "withdraw" /\ status = "refunded" THEN "completed" ELSE status

SeeTerminal(j) ==
  LET t == transactions[job[j].id] IN
    /\ At(j, "polling")
    /\ t.status \in Terminal \ {"lookup_error"}
    /\ Report(j, Outcome(t.kind, t.status))
    /\ UNCHANGED <<transactions, funded, ledgerVars>>

\* runSep24Deposit: an error of this kind is looked into.
SeeLookupError(j) ==
  /\ At(j, "polling")
  /\ transactions[job[j].id].status = "lookup_error"
  /\ Continue(j, [stage |-> "recovering", id |-> job[j].id, polls |-> 0])
  /\ UNCHANGED <<transactions, funded, ledgerVars>>

\* Mutant: a hash in the anchor's message is proof enough.
AnyHash(i) == TRUE

\* verifyAnchorDepositOnChain: the transaction the anchor names was successful
\* and brought this wallet the asset.
Verified(i) == i \in funded

\* A round of tryRecoverFromAnchorLookupError that finds the deposit done.  The
\* ledger is asked after the anchor, and what is on it stays there: one step.
RecoverDeposit(j) ==
  LET i == job[j].id IN
    /\ At(j, "recovering")
    /\ \/ transactions[i].status = "completed"
       \/ transactions[i].status = "lookup_error" /\ Verified(i)
    /\ Report(j, "completed")
    /\ UNCHANGED <<transactions, funded, ledgerVars>>

\* Mutant: a recheck whose requests go unanswered does not count.
RecheckForEver(j) ==
  LET q == job[j] IN
    /\ At(j, "recovering")
    /\ \/ q.polls + 1 = MaxRecoveries /\ Report(j, "error")
       \/ q.polls + 1 < MaxRecoveries /\ Continue(j, [q EXCEPT !.polls = @ + 1])
       \/ Continue(j, [q EXCEPT !.polls = 0])
    /\ UNCHANGED <<transactions, funded, ledgerVars>>

\* A round that does not, or whose requests go unanswered.
RecheckInVain(j) ==
  LET q == job[j] IN
    /\ At(j, "recovering")
    /\ \/ q.polls + 1 = MaxRecoveries /\ Report(j, "error")
       \/ q.polls + 1 < MaxRecoveries /\ Continue(j, [q EXCEPT !.polls = @ + 1])
    /\ UNCHANGED <<transactions, funded, ledgerVars>>

-----------------------------------------------------------------------------
(***************************************************************************)
(* The payment of a withdrawal, within a round of pollSep24Withdraw.       *)
(***************************************************************************)

\* Mutant: the flag is left alone.
SeeRequestUnmarked(j) ==
  /\ At(j, "polling")
  /\ MustPay(job[j])
  /\ Continue(j, [job[j] EXCEPT !.stage = "paying"])
  /\ UNCHANGED <<transactions, funded, ledgerVars>>

SeeRequest(j) ==
  /\ At(j, "polling")
  /\ MustPay(job[j])
  /\ Continue(j, [job[j] EXCEPT !.stage = "paying", !.submitted = TRUE])
  /\ UNCHANGED <<transactions, funded, ledgerVars>>

\* buildWithdrawPaymentXdr: loadAccount reads the sequence number; then the
\* wallet is asked to sign.
BuildPayment(j) ==
  LET q       == job[j]
      payment == [id     |-> q.id,
                  amount |-> transactions[q.id].amount,
                  seq    |-> sequence]
  IN
    /\ At(j, "paying")
    /\ Continue(j, [stage     |-> "signing",
                    id        |-> q.id,
                    polls     |-> q.polls,
                    afterPaid |-> q.afterPaid,
                    submitted |-> q.submitted,
                    payment   |-> payment])
    /\ UNCHANGED <<transactions, funded, ledgerVars>>

SubmitPayment(j) ==
  /\ At(j, "signing")
  /\ inFlight' = inFlight \cup {job[j].payment}
  /\ Continue(j, [job[j] EXCEPT !.stage = "submitted"])
  /\ UNCHANGED <<transactions, funded, onChain, balance, sequence>>

\* Horizon says that the payment was applied.
PaymentConfirmed(j) ==
  /\ At(j, "submitted")
  /\ job[j].payment \in onChain
  /\ EndOfRound(j)
  /\ UNCHANGED <<transactions, funded, ledgerVars>>

\* Mutant: a payment that failed is forgotten, and the poll goes on.
ForgetFailedPayment(j) ==
  /\ job[j].stage \in {"paying", "signing", "submitted"}
  /\ Continue(j, [stage |-> "polling", id |-> job[j].id, polls |-> job[j].polls,
                  afterPaid |-> 0, submitted |-> FALSE])
  /\ UNCHANGED <<transactions, funded, ledgerVars>>

\* Mutant: a payment that failed counts as made.
CountFailedPayment(j) ==
  /\ job[j].stage \in {"paying", "signing", "submitted"}
  /\ EndOfRound(j)
  /\ UNCHANGED <<transactions, funded, ledgerVars>>

\* The account cannot be loaded, the user does not sign, or Horizon answers with
\* an error or not in time.  The payment may be on its way all the same.
PaymentFails(j) ==
  /\ job[j].stage \in {"paying", "signing", "submitted"}
  /\ Report(j, "payment_failed")
  /\ UNCHANGED <<transactions, funded, ledgerVars>>

\* The page is closed, or a request to the anchor fails and the handler throws.
Abandon(j) ==
  /\ ~At(j, "idle")
  /\ job' = [job EXCEPT ![j] = Idle]
  /\ UNCHANGED <<transactions, funded, ledgerVars, reported>>

-----------------------------------------------------------------------------
(***************************************************************************)
(* The ledger (external).                                                  *)
(***************************************************************************)

ApplyPayment(p) ==
  /\ p \in inFlight
  /\ p.seq = sequence
  /\ p.amount <= balance
  /\ inFlight' = inFlight \ {p}
  /\ onChain' = onChain \cup {p}
  /\ balance' = balance - p.amount
  /\ sequence' = sequence + 1
  /\ UNCHANGED <<transactions, funded, job, reported>>

\* An underfunded payment fails and uses its sequence number up.
FailPayment(p) ==
  /\ p \in inFlight
  /\ p.seq = sequence
  /\ p.amount > balance
  /\ inFlight' = inFlight \ {p}
  /\ sequence' = sequence + 1
  /\ UNCHANGED <<transactions, funded, onChain, balance, job, reported>>

\* The time bounds pass, or the sequence number was used by another payment.
DropPayment(p) ==
  /\ p \in inFlight
  /\ inFlight' = inFlight \ {p}
  /\ UNCHANGED <<transactions, funded, onChain, balance, sequence, job, reported>>

-----------------------------------------------------------------------------
(***************************************************************************)
(* The anchor (external).                                                  *)
(***************************************************************************)

SetStatus(i, status) == transactions' = [transactions EXCEPT ![i].status = status]
AnchorOnly == UNCHANGED <<funded, ledgerVars, job, reported>>

FormAccepted == [deposit |-> "pending_anchor", withdraw |-> "pending_user_transfer_start"]

\* The interactive form is filled in, by tryHeadlessSubmit or by the user.
FillForm(i, amount) ==
  /\ transactions[i].status = "incomplete"
  /\ transactions' = [transactions EXCEPT
       ![i].status = FormAccepted[transactions[i].kind],
       ![i].amount = amount]
  /\ AnchorOnly

\* The anchor sends the asset, and may learn of it late, or believe it failed.
FundDeposit(i) ==
  /\ \/ Has(i, "deposit", "pending_anchor")
     \/ Has(i, "deposit", "lookup_error")
  /\ i \notin funded
  /\ funded' = funded \cup {i}
  /\ balance' = balance + transactions[i].amount
  /\ UNCHANGED <<transactions, onChain, inFlight, sequence, job, reported>>

LoseTrackOfDeposit(i) ==
  /\ Has(i, "deposit", "pending_anchor")
  /\ SetStatus(i, "lookup_error")
  /\ AnchorOnly

CompleteDeposit(i) ==
  /\ \/ Has(i, "deposit", "pending_anchor")
     \/ Has(i, "deposit", "lookup_error")
  /\ i \in funded
  /\ SetStatus(i, "completed")
  /\ AnchorOnly

RefundDeposit(i) ==
  /\ Has(i, "deposit", "pending_anchor")
  /\ i \notin funded
  /\ SetStatus(i, "refunded")
  /\ AnchorOnly

\* The anchor's observer finds a payment with the memo of the withdrawal.
CreditWithdrawal(i) ==
  /\ Has(i, "withdraw", "pending_user_transfer_start")
  /\ \E p \in onChain : p.id = i
  /\ SetStatus(i, "pending_anchor")
  /\ AnchorOnly

CompleteWithdrawal(i) ==
  /\ Has(i, "withdraw", "pending_anchor")
  /\ SetStatus(i, "completed")
  /\ AnchorOnly

RefundWithdrawal(i) ==
  /\ Has(i, "withdraw", "pending_anchor")
  /\ SetStatus(i, "refunded")
  /\ balance' = balance + transactions[i].amount
  /\ UNCHANGED <<funded, onChain, inFlight, sequence, job, reported>>

\* The anchor gives up on a transaction it holds no funds of.
GiveUp(i) ==
  /\ \/ transactions[i].status \in {"incomplete", "pending_user_transfer_start"}
     \/ Has(i, "deposit", "pending_anchor") /\ i \notin funded
  /\ SetStatus(i, "error")
  /\ AnchorOnly

-----------------------------------------------------------------------------
Init ==
  /\ transactions = <<>>
  /\ funded = {}
  /\ onChain = {}
  /\ inFlight = {}
  /\ balance = Funds
  /\ sequence = 1
  /\ job = [j \in Jobs |-> Idle]
  /\ reported = [i \in 1 .. MaxTransactions |-> "nothing"]

\* What a handler does next, once it has started.
Handler(j) ==
  \/ SeePending(j)
  \/ SeeTerminal(j)
  \/ SeeLookupError(j)
  \/ RecoverDeposit(j)
  \/ RecheckInVain(j)
  \/ SeeRequest(j)
  \/ BuildPayment(j)
  \/ SubmitPayment(j)
  \/ PaymentConfirmed(j)
  \/ PaymentFails(j)

Anchor(i) ==
  \/ \E amount \in Amounts : FillForm(i, amount)
  \/ FundDeposit(i)
  \/ LoseTrackOfDeposit(i)
  \/ CompleteDeposit(i)
  \/ RefundDeposit(i)
  \/ CreditWithdrawal(i)
  \/ CompleteWithdrawal(i)
  \/ RefundWithdrawal(i)
  \/ GiveUp(i)

Next ==
  \/ \E j \in Jobs, kind \in Kinds : Start(j, kind)
  \/ \E j \in Jobs : Handler(j) \/ Abandon(j)
  \/ \E i \in Ids : Anchor(i)
  \/ \E p \in inFlight : ApplyPayment(p) \/ FailPayment(p) \/ DropPayment(p)

\* A request of the browser returns or fails, a wallet's window is answered or
\* closed, and a promise that settles is resumed.  Nothing is asked of the anchor
\* or of the ledger.
Spec == Init /\ [][Next]_vars /\ \A j \in Jobs : WF_vars(Handler(j))

-----------------------------------------------------------------------------
(***************************************************************************)
(* Properties.                                                             *)
(***************************************************************************)

Outcomes == {"nothing", "completed", "refunded", "error", "timed_out",
             "anchor_pending", "payment_failed"}

Payments == [id : 1 .. MaxTransactions, amount : Amounts, seq : Nat]

PollingJob == [stage     : {"polling", "paying"},
               id        : 1 .. MaxTransactions,
               polls     : Nat,
               afterPaid : Nat,
               submitted : BOOLEAN]

PayingJob == [stage     : {"signing", "submitted"},
              id        : 1 .. MaxTransactions,
              polls     : Nat,
              afterPaid : Nat,
              submitted : BOOLEAN,
              payment   : Payments]

RecoveringJob == [stage : {"recovering"}, id : 1 .. MaxTransactions, polls : Nat]

RunningJob == PollingJob \cup PayingJob \cup RecoveringJob

\* The variables have their types; in particular a payment is of an amount that
\* was entered in the anchor's form, never of one that is still missing.
TypeOK ==
  /\ transactions \in Seq([kind : Kinds, status : Statuses, amount : Amounts \cup {0}])
  /\ Len(transactions) <= MaxTransactions
  /\ funded \subseteq Ids
  /\ onChain \subseteq Payments
  /\ inFlight \subseteq Payments
  /\ balance \in Nat
  /\ sequence \in Nat
  /\ job \in [Jobs -> {Idle} \cup RunningJob]
  /\ reported \in [1 .. MaxTransactions -> Outcomes]

\* No withdrawal of the anchor is paid twice, although the anchor goes on asking
\* for the payment until its observer has seen it, and handlers poll on.
PaidOnce == \A p, q \in onChain : p.id = q.id => p = q

\* Good news is true: a deposit reported as completed was paid to the wallet, and
\* a withdrawal reported as sent or completed has its payment on the ledger.
GoodNewsIsTrue ==
  \A i \in Ids :
    /\ transactions[i].kind = "deposit" /\ reported[i] = "completed" => i \in funded
    /\ transactions[i].kind = "withdraw" /\ reported[i] \in {"completed", "anchor_pending"}
         => \E p \in onChain : p.id = i

\* A withdrawal that ended with "timed out before any payment was sent" has no
\* payment on the ledger nor on its way: the user may start over.
TimedOutIsUnpaid ==
  \A i \in Ids : reported[i] = "timed_out" => \A p \in onChain \cup inFlight : p.id # i

\* The steps a handler has left at most: its rounds, the three steps of a payment,
\* and its rechecks.
StepsLeft(q) ==
  LET rounds == MaxAttempts - q.polls IN
    CASE q.stage = "idle"       -> 0
      [] q.stage = "recovering" -> MaxRecoveries - q.polls
      [] q.stage = "polling"    -> MaxRecoveries + rounds + (IF q.submitted THEN 0 ELSE 3)
      [] q.stage = "paying"     -> MaxRecoveries + rounds + 2
      [] q.stage = "signing"    -> MaxRecoveries + rounds + 1
      [] q.stage = "submitted"  -> MaxRecoveries + rounds

MaxSteps == MaxRecoveries + MaxAttempts + 3

\* Each step of a handler, whatever answer it gets and whichever of its counters
\* applies, takes it closer to its end, and nothing that the anchor, the ledger
\* or another tab does takes it further away: it asks no more than MaxSteps times.
HandlersGetOn ==
  [][\A j \in Jobs :
       LET left == StepsLeft(job[j])  leftNow == StepsLeft(job'[j]) IN
         /\ left <= MaxSteps
         /\ Handler(j) => leftNow < left
         /\ ~At(j, "idle") => left > 0 /\ leftNow <= left]_vars

\* Whatever the anchor and the ledger do, or fail to do, a handler comes to an end
\* and gives the page back to its user.
HandlersEnd == \A j \in Jobs : job[j] # Idle ~> job[j] = Idle
=============================================================================
