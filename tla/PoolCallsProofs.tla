---------------------------- MODULE PoolCallsProofs ----------------------------
(***************************************************************************)
(* What the ShieldedPool contract guarantees whatever calls reach it, for  *)
(* every number of wallets, calls, attestations and roots.                 *)
(*                                                                         *)
(* What is proved is of the calls' arguments and of the contract's own     *)
(* storage.  That storage and events name the same nullifiers, and each    *)
(* once, is inductive together: a nullifier is refused because it is in    *)
(* storage, and it is in storage because an event named it.                *)
(***************************************************************************)
EXTENDS PoolCalls, Recursion

IInv == TypeOK /\ NullifiersFromEvents /\ EventsRebuildTree

-----------------------------------------------------------------------------

\* A whole amount is a natural number of sub-units.
LEMMA AmountInSubUnits ==
  ASSUME NEW amount \in Int, amount > 0
  PROVE  amount * Scale \in Nat
  BY PoolAssumption, SMT DEF PoolAssumption

\* A payment that the token contract lets through overdraws nobody.
LEMMA PayKeepsBalances ==
  ASSUME NEW from \in Accounts, NEW to \in Accounts, from # to,
         NEW amount \in Int, amount > 0,
         tokens \in [Accounts -> Nat],
         CanPay(from, amount), Pay(from, to, amount)
  PROVE  tokens' \in [Accounts -> Nat]
<1> DEFINE sub == amount * Scale
<1>1. sub \in Nat
  BY AmountInSubUnits
<1>2. tokens[from] >= sub /\ tokens' = [tokens EXCEPT ![from] = @ - sub, ![to] = @ + sub]
  BY DEF CanPay, Pay
<1> HIDE DEF sub
<1> QED
  BY <1>1, <1>2

\* One more event: it names a nullifier that was not marked and is now.
LEMMA OneMoreSpend ==
  ASSUME events \in Seq(Event), NEW e \in Event, events' = Append(events, e),
         SpendsFromEvents,
         IF IsSpend(e) THEN /\ e.spend_nullifier \notin spendNullifiers
                          /\ spendNullifiers' = spendNullifiers \cup {e.spend_nullifier}
                     ELSE UNCHANGED spendNullifiers
  PROVE  SpendsFromEvents'
<1> DEFINE n == Len(events) + 1
<1>1. /\ DOMAIN events' = DOMAIN events \cup {n} /\ n \notin DOMAIN events
      /\ \A i \in DOMAIN events : events'[i] = events[i]
      /\ events'[n] = e
  OBVIOUS
<1> HIDE DEF n, Event
<1>2. /\ Spends \subseteq DOMAIN events /\ Spends' \subseteq DOMAIN events'
      /\ Spends' = IF IsSpend(e) THEN Spends \cup {n} ELSE Spends
      /\ \A i \in Spends : events'[i] = events[i]
  BY <1>1 DEF Spends, IsSpend
<1>3. CASE IsSpend(e)
  <2>1. /\ Spends' = Spends \cup {n} /\ n \notin Spends
        /\ spendNullifiers' = spendNullifiers \cup {e.spend_nullifier}
        /\ e.spend_nullifier \notin spendNullifiers
    BY <1>1, <1>2, <1>3
  <2>2. /\ spendNullifiers = {events[i].spend_nullifier : i \in Spends}
        /\ \A i, j \in Spends : events[i].spend_nullifier = events[j].spend_nullifier => i = j
    BY DEF SpendsFromEvents
  <2>3. spendNullifiers' = {events'[i].spend_nullifier : i \in Spends'}
    BY <1>1, <1>2, <2>1, <2>2
  <2>4. \A i, j \in Spends' : events'[i].spend_nullifier = events'[j].spend_nullifier => i = j
    BY <1>1, <1>2, <2>1, <2>2
  <2> QED
    BY <2>3, <2>4 DEF SpendsFromEvents
<1>4. CASE ~IsSpend(e)
  BY <1>1, <1>2, <1>4 DEF SpendsFromEvents
<1> QED
  BY <1>3, <1>4

\* The same for the compliance nullifiers of the edges.
LEMMA OneMoreEdge ==
  ASSUME events \in Seq(Event), NEW e \in Event, events' = Append(events, e),
         EdgesFromEvents,
         IF IsEdge(e) THEN /\ e.compliance_nullifier \notin complianceNullifiers
                          /\ complianceNullifiers' = complianceNullifiers \cup {e.compliance_nullifier}
                     ELSE UNCHANGED complianceNullifiers
  PROVE  EdgesFromEvents'
<1> DEFINE n == Len(events) + 1
<1>1. /\ DOMAIN events' = DOMAIN events \cup {n} /\ n \notin DOMAIN events
      /\ \A i \in DOMAIN events : events'[i] = events[i]
      /\ events'[n] = e
  OBVIOUS
<1> HIDE DEF n, Event
<1>2. /\ Edges \subseteq DOMAIN events /\ Edges' \subseteq DOMAIN events'
      /\ Edges' = IF IsEdge(e) THEN Edges \cup {n} ELSE Edges
      /\ \A i \in Edges : events'[i] = events[i]
  BY <1>1 DEF Edges, IsEdge
<1>3. CASE IsEdge(e)
  <2>1. /\ Edges' = Edges \cup {n} /\ n \notin Edges
        /\ complianceNullifiers' = complianceNullifiers \cup {e.compliance_nullifier}
        /\ e.compliance_nullifier \notin complianceNullifiers
    BY <1>1, <1>2, <1>3
  <2>2. /\ complianceNullifiers = {events[i].compliance_nullifier : i \in Edges}
        /\ \A i, j \in Edges : events[i].compliance_nullifier = events[j].compliance_nullifier => i = j
    BY DEF EdgesFromEvents
  <2>3. complianceNullifiers' = {events'[i].compliance_nullifier : i \in Edges'}
    BY <1>1, <1>2, <2>1, <2>2
  <2>4. \A i, j \in Edges' : events'[i].compliance_nullifier = events'[j].compliance_nullifier => i = j
    BY <1>1, <1>2, <2>1, <2>2
  <2> QED
    BY <2>3, <2>4 DEF EdgesFromEvents
<1>4. CASE ~IsEdge(e)
  BY <1>1, <1>2, <1>4 DEF EdgesFromEvents
<1> QED
  BY <1>3, <1>4

-----------------------------------------------------------------------------
(***************************************************************************)
(* What an indexer gets from the events.                                   *)
(***************************************************************************)

\* The commitments that events insert, event by event.
Leaves(evs) == [i \in DOMAIN evs |-> Inserted(evs[i])]

\* An event inserts commitments.
LEMMA InsertedType ==
  ASSUME NEW e \in Event
  PROVE  Inserted(e) \in Seq(Commitments)
  BY DEF Event, Inserted

\* Events in a row do, too.
LEMMA LeavesType ==
  ASSUME NEW evs \in Seq(Event)
  PROVE  /\ Leaves(evs) \in Seq(Seq(Commitments))
         /\ Len(Leaves(evs)) = Len(evs)
         /\ \A i \in 1 .. Len(evs) : Leaves(evs)[i] = Inserted(evs[i])
<1>1. Len(evs) \in Nat /\ DOMAIN evs = 1 .. Len(evs)
  BY LenProperties
<1>2. \A i \in 1 .. Len(evs) : Inserted(evs[i]) \in Seq(Commitments)
  BY InsertedType, ElementOfSeq
<1>3. Leaves(evs) = [i \in 1 .. Len(evs) |-> Inserted(evs[i])]
  BY <1>1 DEF Leaves
<1> QED
  BY <1>1, <1>2, <1>3

\* One event more adds what it inserts at the end.
LEMMA LeavesGrow ==
  ASSUME NEW evs \in Seq(Event), NEW e \in Event
  PROVE  Leaves(Append(evs, e)) = Append(Leaves(evs), Inserted(e))
<1> DEFINE more == Append(evs, e)
           l    == Leaves(evs)
           s    == Inserted(e)
           n    == Len(evs)
<1>1. /\ n \in Nat /\ more \in Seq(Event) /\ Len(more) = n + 1
      /\ more[n + 1] = e /\ \A i \in 1 .. n : more[i] = evs[i]
  BY LenProperties, AppendProperties
<1> HIDE DEF more
<1>2. /\ Leaves(more) \in Seq(Seq(Commitments)) /\ Len(Leaves(more)) = n + 1
      /\ Leaves(more)[n + 1] = s /\ \A i \in 1 .. n : Leaves(more)[i] = l[i]
  BY <1>1, LeavesType
<1>3. l \in Seq(Seq(Commitments)) /\ s \in Seq(Commitments) /\ Len(l) = n
  BY LeavesType, InsertedType
<1> HIDE DEF l, s, n
<1>4. /\ Append(l, s) \in Seq(Seq(Commitments)) /\ Len(Append(l, s)) = n + 1
      /\ Append(l, s)[n + 1] = s /\ \A i \in 1 .. n : Append(l, s)[i] = l[i]
  BY <1>3, AppendProperties
<1>5. \A i \in 1 .. n + 1 : Leaves(more)[i] = Append(l, s)[i]
  BY <1>1, <1>2, <1>4
<1>6. Leaves(more) = Append(l, s)
  BY <1>2, <1>4, <1>5, SeqEqual
<1> QED
  BY <1>6 DEF more, l, s

\* One event more, and the commitments that it inserts.
LEMMA OneMoreEvent ==
  ASSUME events \in Seq(Event), commitments \in Seq(Commitments), EventsRebuildTree,
         NEW e \in Event, events' = Append(events, e),
         commitments' = commitments \o Inserted(e)
  PROVE  EventsRebuildTree'
<1> DEFINE l == Leaves(events)
           s == Inserted(e)
<1>1. l \in Seq(Seq(Commitments)) /\ s \in Seq(Commitments)
  BY LeavesType, InsertedType
<1>2. FlattenSeq(l) = commitments
  BY DEF EventsRebuildTree, Leaves
<1>3. Leaves(events') = Append(l, s)
  BY LeavesGrow
<1> HIDE DEF l, s
<1>4. FlattenSeq(Append(l, s)) = commitments \o s
  <2>1. CASE l = <<>>
    <3>1. Len(l) = 0
      BY <2>1
    <3>2. commitments = <<>>
      BY <1>2, <2>1, <3>1 DEF FlattenSeq
    <3> QED
      BY <1>1, <2>1, <3>2, FlattenAppend, ConcatEmptySeq
  <2>2. CASE l # <<>>
    BY <1>1, <1>2, <2>2, FlattenAppend
  <2> QED
    BY <2>1, <2>2
<1> QED
  BY <1>3, <1>4 DEF EventsRebuildTree, Leaves, s

-----------------------------------------------------------------------------

LEMMA DepositStep ==
  ASSUME IInv, NEW c \in DepositCalls, Deposit(c)
  PROVE  IInv'
<1> DEFINE e == [type |-> "DepositEvent", depositor |-> c.caller,
                 commitment |-> c.note_commitment,
                 compliance_nullifier |-> c.compliance_nullifier]
<1>1. /\ c \in DepositCall /\ c.caller \in Wallets /\ c.amount \in Int
      /\ c.note_commitment \in Commitments /\ c.new_root \in Roots
      /\ c.compliance_nullifier \in ComplianceNullifiers
  BY CallsAssumption DEF CallsAssumption, DepositCall
<1>2. e \in Event /\ events' = Append(events, e)
  BY <1>1 DEF Event, Deposit, Publish
<1>3. /\ ~IsSpend(e)
      /\ IsEdge(e)
      /\ e.compliance_nullifier = c.compliance_nullifier
  BY DEF IsSpend, IsEdge
<1> HIDE DEF e
<1>4. tokens' \in [Accounts -> Nat]
  <2>1. c.caller \in Accounts /\ Pool \in Accounts /\ c.caller # Pool
    BY <1>1, PoolAssumption DEF PoolAssumption, Accounts
  <2>2. CanPay(c.caller, c.amount) /\ Pay(c.caller, Pool, c.amount) /\ c.amount > 0
    BY DEF Deposit, DepositAccepted
  <2> QED
    BY <1>1, <2>1, <2>2, PayKeepsBalances DEF IInv, TypeOK
<1>5. TypeOK'
  BY <1>1, <1>2, <1>4
     DEF IInv, TypeOK, Deposit, InsertAll, MarkComplianceNullifier, envVars
<1>6. SpendsFromEvents'
  BY <1>2, <1>3, OneMoreSpend DEF IInv, TypeOK, NullifiersFromEvents, Deposit
<1>7. EdgesFromEvents'
  BY <1>2, <1>3, OneMoreEdge
     DEF IInv, TypeOK, NullifiersFromEvents, Deposit, DepositAccepted,
         MarkComplianceNullifier
<1>8. EventsRebuildTree'
  <2>1. Inserted(e) = <<c.note_commitment>>
    BY DEF Inserted, e
  <2> QED
    BY <1>2, <2>1, OneMoreEvent DEF IInv, TypeOK, Deposit, InsertAll
<1> QED
  BY <1>5, <1>6, <1>7, <1>8 DEF IInv, NullifiersFromEvents

LEMMA TransferStep ==
  ASSUME IInv, NEW c \in TransferCalls, Transfer(c)
  PROVE  IInv'
<1> DEFINE e == [type |-> "TransferEvent", spend_nullifier |-> c.spend_nullifier,
                 new_commitment_1 |-> c.new_commitment_1,
                 new_commitment_2 |-> c.new_commitment_2]
<1>1. /\ c \in TransferCall /\ c.spend_nullifier \in SpendNullifiers
      /\ c.new_commitment_1 \in Commitments /\ c.new_commitment_2 \in Commitments
      /\ c.new_root \in Roots
  BY CallsAssumption DEF CallsAssumption, TransferCall
<1>2. e \in Event /\ events' = Append(events, e)
  BY <1>1 DEF Event, Transfer, Publish
<1>3. IsSpend(e) /\ ~IsEdge(e) /\ e.spend_nullifier = c.spend_nullifier
  BY DEF IsSpend, IsEdge
<1> HIDE DEF e
<1>4. TypeOK'
  BY <1>1, <1>2
     DEF IInv, TypeOK, Transfer, InsertAll, MarkSpendNullifier, envVars
<1>5. SpendsFromEvents'
  BY <1>2, <1>3, OneMoreSpend
     DEF IInv, TypeOK, NullifiersFromEvents, Transfer, TransferAccepted,
         MarkSpendNullifier
<1>6. EdgesFromEvents'
  BY <1>2, <1>3, OneMoreEdge DEF IInv, TypeOK, NullifiersFromEvents, Transfer
<1>7. EventsRebuildTree'
  <2>1. Inserted(e) = <<c.new_commitment_1, c.new_commitment_2>>
    BY DEF Inserted, e
  <2> QED
    BY <1>2, <2>1, OneMoreEvent DEF IInv, TypeOK, Transfer, InsertAll
<1> QED
  BY <1>4, <1>5, <1>6, <1>7 DEF IInv, NullifiersFromEvents

LEMMA WithdrawStep ==
  ASSUME IInv, NEW c \in WithdrawCalls, Withdraw(c)
  PROVE  IInv'
<1> DEFINE e == [type |-> "WithdrawEvent", recipient |-> c.caller,
                 amount |-> c.amount, spend_nullifier |-> c.spend_nullifier,
                 compliance_nullifier |-> c.compliance_nullifier]
<1>1. /\ c \in WithdrawCall /\ c.caller \in Wallets /\ c.amount \in Int
      /\ c.spend_nullifier \in SpendNullifiers /\ c.new_root \in Roots
      /\ c.compliance_nullifier \in ComplianceNullifiers
  BY CallsAssumption DEF CallsAssumption, WithdrawCall
<1>2. e \in Event /\ events' = Append(events, e)
  BY <1>1 DEF Event, Withdraw, Publish
<1>3. /\ IsSpend(e) /\ e.spend_nullifier = c.spend_nullifier
      /\ IsEdge(e) /\ e.compliance_nullifier = c.compliance_nullifier
  BY DEF IsSpend, IsEdge
<1> HIDE DEF e
<1>4. tokens' \in [Accounts -> Nat]
  <2>1. c.caller \in Accounts /\ Pool \in Accounts /\ c.caller # Pool
    BY <1>1, PoolAssumption DEF PoolAssumption, Accounts
  <2>2. CanPay(Pool, c.amount) /\ Pay(Pool, c.caller, c.amount) /\ c.amount > 0
    BY DEF Withdraw, WithdrawAccepted
  <2> QED
    BY <1>1, <2>1, <2>2, PayKeepsBalances DEF IInv, TypeOK
<1>5. TypeOK'
  BY <1>1, <1>2, <1>4
     DEF IInv, TypeOK, Withdraw, InsertAll, MarkSpendNullifier,
         MarkComplianceNullifier, envVars
<1>6. SpendsFromEvents'
  BY <1>2, <1>3, OneMoreSpend
     DEF IInv, TypeOK, NullifiersFromEvents, Withdraw, WithdrawAccepted,
         MarkSpendNullifier
<1>7. EdgesFromEvents'
  BY <1>2, <1>3, OneMoreEdge
     DEF IInv, TypeOK, NullifiersFromEvents, Withdraw, WithdrawAccepted,
         MarkComplianceNullifier
<1>8. EventsRebuildTree'
  <2>1. Inserted(e) = <<>>
    BY DEF Inserted, e
  <2> QED
    BY <1>2, <2>1, OneMoreEvent DEF IInv, TypeOK, Withdraw, InsertAll
<1> QED
  BY <1>5, <1>6, <1>7, <1>8 DEF IInv, NullifiersFromEvents

-----------------------------------------------------------------------------

LEMMA InitInv == Init => IInv
<1> SUFFICES ASSUME Init
             PROVE  IInv
  OBVIOUS
<1>1. tokens \in [Accounts -> Nat]
  BY CallsAssumption, PoolAssumption
     DEF Init, Accounts, CallsAssumption, PoolAssumption
<1>2. events = <<>> /\ DOMAIN events = {}
  BY DEF Init, PoolInit
<1>3. TypeOK
  <2>1. DOMAIN attestations \subseteq Uids /\ \A u \in DOMAIN attestations : attestations[u] \in Attestation
    <3>1. PICK us \in SUBSET Uids : attestations \in [us -> Issuable]
      BY DEF Init
    <3> QED
      BY <3>1, CallsAssumption DEF CallsAssumption
  <2> QED
    BY <1>1, <2>1, CallsAssumption DEF Init, PoolInit, TypeOK, CallsAssumption
<1>4. EventsRebuildTree
  <2>1. commitments = <<>> /\ Leaves(events) = <<>>
    BY <1>2 DEF Init, PoolInit, Leaves
  <2> QED
    BY <2>1 DEF EventsRebuildTree, Leaves, FlattenSeq
<1> QED
  <2>1. Spends = {} /\ Edges = {} /\ spendNullifiers = {} /\ complianceNullifiers = {}
    BY <1>2 DEF Init, PoolInit, Spends, Edges
  <2> QED
    BY <1>3, <1>4, <2>1
       DEF IInv, NullifiersFromEvents, SpendsFromEvents, EdgesFromEvents

\* The rest of the invariant is about the pool's own storage, which only its
\* entry points write.
LEMMA PoolUnchanged ==
  ASSUME IInv, UNCHANGED poolVars
  PROVE  NullifiersFromEvents' /\ EventsRebuildTree'
<1>1. UNCHANGED <<events, commitments, spendNullifiers, complianceNullifiers>>
  BY DEF poolVars
<1>2. EventsRebuildTree'
  BY <1>1 DEF IInv, EventsRebuildTree
<1>3. Spends' = Spends /\ Edges' = Edges
  BY <1>1 DEF Spends, Edges, IsSpend, IsEdge
<1> QED
  BY <1>1, <1>2, <1>3 DEF IInv, NullifiersFromEvents, SpendsFromEvents, EdgesFromEvents

LEMMA EnvironmentStep ==
  ASSUME IInv, Environment
  PROVE  IInv'
<1>1. ASSUME NEW r \in Roots, SignRoot(r)
      PROVE  IInv'
  BY <1>1, PoolUnchanged DEF IInv, TypeOK, SignRoot, poolVars
<1>2. ASSUME NEW r \in RegistryRoots, UpdateRegistryRoot(r)
      PROVE  IInv'
  BY <1>2, PoolUnchanged DEF IInv, TypeOK, UpdateRegistryRoot, poolVars
<1>3. ASSUME NEW u \in Uids, NEW att \in Issuable, Attest(u, att)
      PROVE  IInv'
  <2>1. att \in Attestation
    BY CallsAssumption DEF CallsAssumption
  <2>2. TypeOK'
    BY <1>3, <2>1 DEF IInv, TypeOK, Attest, poolVars
  <2> QED
    BY <1>3, <2>2, PoolUnchanged DEF IInv, Attest
<1>4. ASSUME NEW u \in Uids, Revoke(u)
      PROVE  IInv'
  <2>1. /\ DOMAIN attestations' = DOMAIN attestations
        /\ \A v \in DOMAIN attestations : attestations'[v] \in Attestation
    BY <1>4 DEF IInv, TypeOK, Revoke, Attestation
  <2>2. TypeOK'
    BY <1>4, <2>1 DEF IInv, TypeOK, Revoke, poolVars
  <2> QED
    BY <1>4, <2>2, PoolUnchanged DEF IInv, Revoke
<1>5. ASSUME AdvanceTime
      PROVE  IInv'
  BY <1>5, PoolUnchanged DEF IInv, TypeOK, AdvanceTime, poolVars
<1> QED
  BY <1>1, <1>2, <1>3, <1>4, <1>5 DEF Environment

LEMMA StepInv == IInv /\ [Call \/ Environment]_contractVars => IInv'
<1> SUFFICES ASSUME IInv, [Call \/ Environment]_contractVars
             PROVE  IInv'
  OBVIOUS
<1>1. CASE Call
  BY <1>1, DepositStep, TransferStep, WithdrawStep DEF Call
<1>2. CASE Environment
  BY <1>2, EnvironmentStep
<1>3. CASE UNCHANGED contractVars
  BY <1>3, PoolUnchanged DEF IInv, TypeOK, contractVars, poolVars, envVars
<1> QED
  BY <1>1, <1>2, <1>3

\* The invariant holds however many calls take effect.
LEMMA Invariance == AnyCalls => []IInv
  BY InitInv, StepInv, PTL DEF AnyCalls

LEMMA BoundedCalls == Spec => AnyCalls
<1>1. [Next]_contractVars => [Call \/ Environment]_contractVars
  BY DEF Next
<1> QED
  BY <1>1, PTL DEF Spec, AnyCalls

-----------------------------------------------------------------------------

\* Storage is well typed, and no account is ever overdrawn, whatever is called.
THEOREM TypeCorrect == Spec => []TypeOK
<1>1. IInv => TypeOK
  BY DEF IInv
<1> QED
  BY <1>1, Invariance, BoundedCalls, PTL

\* The two nullifier sets of storage are exactly what the events name, and nothing is
\* named twice (mark_spend_nullifier, mark_compliance_nullifier): of arguments.
THEOREM NullifiersRebuilt == Spec => []NullifiersFromEvents
<1>1. IInv => NullifiersFromEvents
  BY DEF IInv
<1> QED
  BY <1>1, Invariance, BoundedCalls, PTL

\* The events tell an indexer every leaf in its place (get_commitment()), whatever
\* calls took effect and in whatever order.
THEOREM TreeRebuilt == Spec => []EventsRebuildTree
<1>1. IInv => EventsRebuildTree
  BY DEF IInv
<1> QED
  BY <1>1, Invariance, BoundedCalls, PTL
=============================================================================
