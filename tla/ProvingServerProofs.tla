-------------------------- MODULE ProvingServerProofs --------------------------
(***************************************************************************)
(* What the answers of the proving server are worth, for a tree of any     *)
(* depth, any notes, and any number of polls and attempts.                 *)
(*                                                                         *)
(* A request knows of each leaf it read that it is the pool's or zero      *)
(* (ReadOk): leaves are never changed, so this stays true however the pool *)
(* moves on.  The tree that the pool's root is of ends with the newest     *)
(* leaf, or with an output of a withdrawal, wherever the reading that it   *)
(* was signed for put it (RootShape).  Trees with the same root have the   *)
(* same leaves (RootsTell).  So if the leaves of a request have the root   *)
(* of the pool, they have the newest leaf among them, which the request    *)
(* can only have read at its place: it counted all the leaves there are.   *)
(***************************************************************************)
EXTENDS ProvingServer, MerkleTreeProofs

Stages == {"counting", "loading", "checking", "confirming", "proving", "done"}

\* q is a request that was started.
Typed(q) ==
  q \in [kind : Kinds, note : Commitments, stage : Stages, count : Nat, leaves : Leaves,
         polls : Nat, confirmed : 0 .. 1, attempt : 0 .. MaxAttempts, newRoot : {q.newRoot}]

\* What was read is right, or zero.
ReadOk(q) ==
  /\ Len(q.leaves) <= q.count /\ q.count <= Len(commitments)
  /\ \A i \in 1 .. Len(q.leaves) : q.leaves[i] \in {Zero, commitments[i]}

\* What a request that reads or has read knows.
RequestOk(q) ==
  /\ ReadOk(q)
  /\ q.polls < MaxPolls
  /\ q.stage = "counting" => q.leaves = <<>>
  /\ q.stage \in {"checking", "confirming", "proving"} =>
       q.kind # "deposit" /\ q.note \in ToSet(q.leaves)
  /\ q.stage = "done" =>
       /\ q.kind # "deposit" => q.note \in ToSet(q.leaves)
       /\ Fits(q.leaves \o NewLeaves(q))
       /\ q.newRoot = TreeRoot(q.leaves \o NewLeaves(q))

Leaf == Commitments \cup {Zero, Stranger}

\* Leaves of which the last is the newest of C, or of a withdrawal.
EndsNew(s, C) ==
  /\ Len(s) > 0 /\ Fits(s)
  /\ s[Len(s)] \in {Stranger, C[Len(C)]}

RootShape ==
  commitments # <<>> =>
    \E s \in Seq(Leaf) : EndsNew(s, commitments) /\ root = TreeRoot(s)

PoolOk ==
  /\ commitments \in Seq(Commitments)
  /\ \A i, j \in 1 .. Len(commitments) : commitments[i] = commitments[j] => i = j
  /\ Fits(commitments)
  /\ RootShape

IInv ==
  /\ PoolOk
  /\ \/ request \in {Idle, Failed}
     \/ Typed(request) /\ RequestOk(request)

-----------------------------------------------------------------------------

\* The set of the elements of a sequence.
LEMMA Elements ==
  ASSUME NEW S, NEW s \in Seq(S)
  PROVE  /\ Len(s) \in Nat
         /\ \A n : n \in ToSet(s) <=> \E i \in 1 .. Len(s) : s[i] = n
  BY LenProperties DEF ToSet

\* A leaf is added.
LEMMA OneLeaf ==
  ASSUME NEW S, NEW s \in Seq(S), NEW a \in S
  PROVE  /\ Append(s, a) \in Seq(S) /\ Len(Append(s, a)) = Len(s) + 1
         /\ Append(s, a)[Len(s) + 1] = a
         /\ \A i \in 1 .. Len(s) : Append(s, a)[i] = s[i]
  BY AppendProperties, LenProperties

\* Two leaves are added.
LEMMA TwoLeaves ==
  ASSUME NEW S, NEW s \in Seq(S), NEW a \in S, NEW b \in S
  PROVE  /\ s \o <<a, b>> \in Seq(S) /\ Len(s \o <<a, b>>) = Len(s) + 2
         /\ (s \o <<a, b>>)[Len(s) + 1] = a
         /\ (s \o <<a, b>>)[Len(s) + 2] = b
         /\ \A i \in 1 .. Len(s) : (s \o <<a, b>>)[i] = s[i]
<1>1. <<a, b>> \in Seq(S) /\ Len(<<a, b>>) = 2
  OBVIOUS
<1> QED
  BY <1>1, ConcatProperties, LenProperties

\* The invariant says what TypeOK says.
LEMMA TypeFollows == IInv => TypeOK
<1> SUFFICES ASSUME IInv PROVE TypeOK
  OBVIOUS
<1>1. commitments \in Seq(Commitments) /\ Len(commitments) \in Nat
  BY LenProperties DEF IInv, PoolOk
<1>2. CASE request \in {Idle, Failed}
  BY <1>1, <1>2 DEF TypeOK, Idle, Failed
<1>3. CASE Typed(request) /\ RequestOk(request)
  BY <1>1, <1>3 DEF TypeOK, Typed, Stages, RequestOk, ReadOk
<1> QED
  BY <1>2, <1>3 DEF IInv

-----------------------------------------------------------------------------
(***************************************************************************)
(* The pool moves.                                                         *)
(***************************************************************************)

\* A request stays in order while leaves are added.
LEMMA RequestStays ==
  ASSUME IInv, UNCHANGED request, commitments' \in Seq(Commitments),
         Len(commitments) <= Len(commitments'),
         \A i \in 1 .. Len(commitments) : commitments'[i] = commitments[i],
         PoolOk'
  PROVE  IInv'
<1>1. CASE request \in {Idle, Failed}
  BY <1>1 DEF IInv, Idle, Failed
<1>2. CASE Typed(request) /\ RequestOk(request)
  <2>1. Typed(request)'
    BY <1>2 DEF Typed
  <2>2. Len(commitments) \in Nat /\ Len(commitments') \in Nat
    BY LenProperties DEF IInv, PoolOk
  <2>3. request.count \in Nat /\ Len(request.leaves) \in Nat
    BY <1>2, LenProperties DEF Typed, Leaves
  <2>4. ReadOk(request)'
    BY <1>2, <2>2, <2>3 DEF RequestOk, ReadOk
  <2>5. RequestOk(request)'
    BY <1>2, <2>4 DEF RequestOk, NewLeaves
  <2> QED
    BY <2>1, <2>5 DEF IInv
<1> QED
  BY <1>1, <1>2 DEF IInv

\* A leaf that is not there yet.
LEMMA NotThereYet ==
  ASSUME IInv, NEW c \in Unused
  PROVE  c \in Commitments /\ \A i \in 1 .. Len(commitments) : commitments[i] # c
  BY Elements DEF IInv, PoolOk, Unused

\* A reading is a sequence of leaves, real or zero.
LEMMA ReadingType ==
  ASSUME IInv, NEW n \in 0 .. Len(commitments), NEW reading \in Readings(n)
  PROVE  /\ reading \in Seq(Leaf) /\ Len(reading) = n /\ n \in Nat
         /\ Len(commitments) \in Nat
<1>1. commitments \in Seq(Commitments) /\ Len(commitments) \in Nat
  BY LenProperties DEF IInv, PoolOk
<1>2. n \in Nat
  BY <1>1
<1>3. ToSet(commitments) \cup {Zero} \subseteq Leaf
  BY <1>1, Elements, ElementOfSeq DEF Leaf
<1>4. reading \in [1 .. n -> Leaf]
  BY <1>3 DEF Readings
<1>5. reading \in Seq(Leaf)
  BY <1>2, <1>4, SeqDef
<1>6. Len(reading) = n
  BY <1>2, <1>4, <1>5, LenProperties
<1> QED
  BY <1>1, <1>2, <1>5, <1>6

\* A deposit leaves a root of a tree that ends with its leaf.
LEMMA InsertStep ==
  ASSUME IInv, NEW n \in 0 .. Len(commitments), NEW reading \in Readings(n),
         NEW c \in Commitments, Insert(c, reading)
  PROVE  IInv'
<1> DEFINE C == commitments
           D == commitments'
           s == Append(reading, c)
<1>1. /\ c \in Unused /\ D = Append(C, c) /\ Fits(D) /\ root' = TreeRoot(s)
      /\ UNCHANGED request
  BY DEF Insert, Store
<1>2. C \in Seq(Commitments) /\ Len(C) \in Nat
      /\ \A i, j \in 1 .. Len(C) : C[i] = C[j] => i = j
  BY LenProperties DEF IInv, PoolOk
<1>3. /\ D \in Seq(Commitments) /\ Len(D) = Len(C) + 1 /\ D[Len(C) + 1] = c
      /\ \A i \in 1 .. Len(C) : D[i] = C[i]
  BY <1>1, <1>2, OneLeaf
<1>4. s \in Seq(Leaf) /\ Len(s) = n + 1 /\ s[n + 1] = c /\ n \in Nat
  BY ReadingType, OneLeaf DEF Leaf
<1> HIDE DEF s
<1>5. EndsNew(s, D)
  <2>1. Len(s) <= Len(D) /\ Len(s) > 0
    BY <1>2, <1>3, <1>4
  <2>2. Fits(s)
    BY <1>1, <1>2, <1>3, <1>4, <2>1, SpanEnds DEF Fits
  <2> QED
    BY <1>3, <1>4, <2>1, <2>2 DEF EndsNew
<1>6. \A i, j \in 1 .. Len(D) : D[i] = D[j] => i = j
  BY <1>1, <1>2, <1>3, NotThereYet
<1>7. PoolOk'
  <2>1. RootShape'
    BY <1>1, <1>4, <1>5 DEF RootShape, Leaf
  <2> QED
    BY <1>1, <1>3, <1>6, <2>1 DEF PoolOk, Fits
<1> QED
  BY <1>1, <1>2, <1>3, <1>7, RequestStays

\* A payment leaves a root of a tree that ends with its second output.
LEMMA InsertTwoStep ==
  ASSUME IInv, NEW n \in 0 .. Len(commitments), NEW reading \in Readings(n),
         NEW a \in Commitments, NEW b \in Commitments, InsertTwo(a, b, reading)
  PROVE  IInv'
<1> DEFINE C == commitments
           D == commitments'
           s == reading \o <<a, b>>
<1>1. /\ a \in Unused /\ b \in Unused /\ a # b
      /\ D = C \o <<a, b>> /\ Fits(D) /\ root' = TreeRoot(s)
      /\ UNCHANGED request
  BY DEF InsertTwo, Store
<1>2. C \in Seq(Commitments) /\ Len(C) \in Nat
      /\ \A i, j \in 1 .. Len(C) : C[i] = C[j] => i = j
  BY LenProperties DEF IInv, PoolOk
<1>3. /\ D \in Seq(Commitments) /\ Len(D) = Len(C) + 2
      /\ D[Len(C) + 1] = a /\ D[Len(C) + 2] = b
      /\ \A i \in 1 .. Len(C) : D[i] = C[i]
  BY <1>1, <1>2, TwoLeaves
<1>4. s \in Seq(Leaf) /\ Len(s) = n + 2 /\ s[n + 2] = b /\ n \in Nat
  BY ReadingType, TwoLeaves DEF Leaf
<1> HIDE DEF s
<1>5. EndsNew(s, D)
  <2>1. Len(s) <= Len(D) /\ Len(s) > 0
    BY <1>2, <1>3, <1>4
  <2>2. Fits(s)
    BY <1>1, <1>2, <1>3, <1>4, <2>1, SpanEnds DEF Fits
  <2> QED
    BY <1>3, <1>4, <2>1, <2>2 DEF EndsNew
<1>6. \A i, j \in 1 .. Len(D) : D[i] = D[j] => i = j
  BY <1>1, <1>2, <1>3, NotThereYet
<1>7. PoolOk'
  <2>1. RootShape'
    BY <1>1, <1>4, <1>5 DEF RootShape, Leaf
  <2> QED
    BY <1>1, <1>3, <1>6, <2>1 DEF PoolOk, Fits
<1> QED
  BY <1>1, <1>2, <1>3, <1>7, RequestStays

\* A withdrawal leaves a root of leaves that are not there.
LEMMA OverwriteStep ==
  ASSUME IInv, NEW n \in 0 .. Len(commitments), NEW reading \in Readings(n),
         Overwrite(reading)
  PROVE  IInv'
<1> DEFINE s == reading \o <<Stranger, Stranger>>
<1>1. /\ UNCHANGED <<commitments, request>>
      /\ Fits(s) /\ root' = TreeRoot(s)
  BY DEF Overwrite, Store
<1>2. s \in Seq(Leaf) /\ Len(s) = n + 2 /\ s[n + 2] = Stranger /\ n \in Nat
  BY ReadingType, TwoLeaves DEF Leaf
<1> HIDE DEF s
<1>3. EndsNew(s, commitments')
  BY <1>1, <1>2 DEF EndsNew
<1>4. RootShape'
  BY <1>1, <1>2, <1>3 DEF RootShape, Leaf
<1>5. PoolOk'
  BY <1>1, <1>4 DEF IInv, PoolOk, Fits
<1>6. commitments \in Seq(Commitments) /\ Len(commitments) \in Nat
  BY LenProperties DEF IInv, PoolOk
<1> QED
  BY <1>1, <1>5, <1>6, RequestStays

-----------------------------------------------------------------------------
(***************************************************************************)
(* The request goes on.                                                    *)
(***************************************************************************)

\* A request that is under way.
LEMMA UnderWay ==
  ASSUME IInv, request.stage \notin {"idle", "failed"}
  PROVE  /\ Typed(request) /\ RequestOk(request)
         /\ request.leaves \in Leaves /\ Len(request.leaves) \in Nat
         /\ commitments \in Seq(Commitments) /\ Len(commitments) \in Nat
<1>1. Typed(request) /\ RequestOk(request)
  BY DEF IInv, Idle, Failed
<1> QED
  BY <1>1, LenProperties DEF Typed, Leaves, IInv, PoolOk

\* It gives up,
LEMMA Fails ==
  ASSUME IInv, request' = Failed, UNCHANGED poolVars
  PROVE  IInv'
  BY DEF IInv, poolVars, PoolOk, RootShape, EndsNew, Failed, Idle

\* ... or goes on as q.
LEMMA GoesOn ==
  ASSUME IInv, NEW q, request' = q, UNCHANGED poolVars,
         Typed(q), RequestOk(q)
  PROVE  IInv'
<1>1. PoolOk'
  BY DEF IInv, poolVars, PoolOk, RootShape, EndsNew
<1>2. Typed(request)'
  BY DEF Typed
<1>3. RequestOk(request)'
  BY DEF poolVars, RequestOk, ReadOk, NewLeaves
<1> QED
  BY <1>1, <1>2, <1>3 DEF IInv

\* An answer is about leaves that fit into the tree.
LEMMA AnswerStep ==
  ASSUME IInv, request.stage \notin {"idle", "failed"}, Answer(request), UNCHANGED poolVars,
         request.kind # "deposit" => request.note \in ToSet(request.leaves)
  PROVE  IInv'
<1> DEFINE all == request.leaves \o NewLeaves(request)
           q == [request EXCEPT !.stage = "done", !.newRoot = TreeRoot(all)]
<1>1. CASE Fits(all)
  <2>1. request' = q
    BY <1>1 DEF Answer
  <2>2. Typed(request) /\ RequestOk(request)
    BY UnderWay
  <2>3. /\ Typed(q)
        /\ q.stage = "done" /\ q.newRoot = TreeRoot(all)
        /\ q.kind = request.kind /\ q.leaves = request.leaves /\ q.note = request.note
        /\ q.count = request.count /\ q.polls = request.polls
    BY <2>2 DEF Typed, Stages
  <2>4. NewLeaves(q) = NewLeaves(request)
    BY <2>3 DEF NewLeaves
  <2> HIDE DEF q
  <2>5. RequestOk(q)
    BY <1>1, <2>2, <2>3, <2>4 DEF RequestOk, ReadOk
  <2> QED
    BY <2>1, <2>3, <2>5, GoesOn
<1>2. CASE ~Fits(all)
  BY <1>2, Fails DEF Answer
<1> QED
  BY <1>1, <1>2

\* The leaves are loaded again.
LEMMA ReloadStep ==
  ASSUME IInv, request.stage \notin {"idle", "failed"}, UNCHANGED poolVars,
         NEW q, request' = q, Typed(q), q.stage = "counting", q.leaves = <<>>,
         q.count = request.count, q.polls < MaxPolls
  PROVE  IInv'
<1>1. Typed(request) /\ RequestOk(request) /\ Len(commitments) \in Nat
  BY UnderWay
<1>2. RequestOk(q)
  BY <1>1 DEF RequestOk, ReadOk, Typed
<1> QED
  BY <1>2, GoesOn

\* The request gets to another stage with what it has read.
LEMMA StageStep ==
  ASSUME IInv, request.stage \notin {"idle", "failed"}, UNCHANGED poolVars,
         NEW q, request' = q, Typed(q), q.stage \in {"checking", "confirming", "proving"},
         q.leaves = request.leaves, q.kind = request.kind, q.note = request.note,
         q.count = request.count, q.polls = request.polls,
         request.kind # "deposit", request.note \in ToSet(request.leaves)
  PROVE  IInv'
<1>1. Typed(request) /\ RequestOk(request)
  BY UnderWay
<1>2. RequestOk(q)
  BY <1>1 DEF RequestOk, ReadOk
<1> QED
  BY <1>2, GoesOn

\* The bounds of a request.
LEMMA Bounds ==
  /\ 0 < MaxPolls /\ MaxPolls \in Nat /\ 0 \in 0 .. MaxAttempts /\ 1 \in 0 .. MaxAttempts
  /\ <<>> \in Leaves
  BY ServerAssumption DEF ServerAssumption, Leaves

\* A round ends.
LEMMA NextRoundStep ==
  ASSUME IInv, request.stage \notin {"idle", "failed"}, request.kind # "deposit",
         NextRound(request), UNCHANGED poolVars
  PROVE  IInv'
<1>1. Typed(request)
  BY UnderWay
<1>2. CASE /\ request.polls + 1 < MaxPolls
           /\ request' = Load([request EXCEPT !.polls = @ + 1, !.confirmed = 0])
  <2> DEFINE p == request.polls + 1
             next == [request EXCEPT !.polls = p, !.confirmed = 0]
             q == Load(next)
  <2>0. /\ Typed(next) /\ next.count = request.count /\ next.polls = p
    <3>1. p \in Nat
      BY <1>1 DEF Typed
    <3> HIDE DEF p
    <3> DEFINE one == [request EXCEPT !.polls = p]
    <3>2. Typed(one) /\ one.polls = p /\ one.count = request.count
      BY <1>1, <3>1 DEF Typed
    <3>3. next = [one EXCEPT !.confirmed = 0]
      OBVIOUS
    <3> HIDE DEF one, next
    <3>4. Typed(next)
      BY <3>2, <3>3 DEF Typed
    <3> QED
      BY <3>2, <3>3 DEF Typed
  <2> HIDE DEF next
  <2>1. /\ Typed(q) /\ q.stage = "counting" /\ q.leaves = <<>>
        /\ q.count = request.count /\ q.polls = request.polls + 1
    BY <2>0, Bounds DEF Typed, Load, Stages
  <2>2. request' = q
    BY <1>2 DEF next
  <2> HIDE DEF q
  <2> QED
    BY <1>2, <2>1, <2>2, ReloadStep
<1>3. CASE /\ request.note \in ToSet(request.leaves)
           /\ request' = [request EXCEPT !.stage = "proving", !.attempt = 1]
  <2> DEFINE q == [request EXCEPT !.stage = "proving", !.attempt = 1]
  <2>1. /\ Typed(q) /\ q.stage = "proving"
        /\ q.leaves = request.leaves /\ q.kind = request.kind /\ q.note = request.note
        /\ q.count = request.count /\ q.polls = request.polls
    BY <1>1, Bounds DEF Typed, Stages
  <2>2. request' = q
    BY <1>3
  <2> HIDE DEF q
  <2> QED
    BY <1>3, <2>1, <2>2, StageStep
<1>4. CASE request' = Failed
  BY <1>4, Fails
<1> QED
  BY <1>2, <1>3, <1>4 DEF NextRound

\* A request starts with nothing read.
LEMMA StartStep ==
  ASSUME IInv, NEW kind \in Kinds, NEW note \in Commitments, Start(kind, note)
  PROVE  IInv'
<1> DEFINE q == [kind |-> kind, note |-> note, stage |-> "counting", count |-> 0,
                 leaves |-> <<>>, polls |-> 0, confirmed |-> 0, attempt |-> 0,
                 newRoot |-> Zero]
<1>1. request' = q /\ UNCHANGED poolVars
  BY DEF Start
<1>2. /\ Typed(q) /\ q.stage = "counting" /\ q.leaves = <<>> /\ q.count = 0 /\ q.polls = 0
  BY Bounds DEF Typed, Stages
<1>3. Len(commitments) \in Nat
  BY LenProperties DEF IInv, PoolOk
<1> HIDE DEF q
<1>4. RequestOk(q)
  BY <1>2, <1>3, Bounds DEF RequestOk, ReadOk
<1> QED
  BY <1>1, <1>2, <1>4, GoesOn

\* Counting and reading the leaves.
LEMMA ReadStep ==
  ASSUME IInv, (\E n \in 0 .. Len(commitments) : ReadCount(n)) \/ ReadCommitment
  PROVE  IInv'
<1>1. request.stage \in {"counting", "loading"} /\ UNCHANGED poolVars
  BY DEF ReadCount, ReadCommitment, At
<1>2. /\ Typed(request) /\ RequestOk(request) /\ request.leaves \in Leaves
      /\ Len(request.leaves) \in Nat
      /\ commitments \in Seq(Commitments) /\ Len(commitments) \in Nat
  BY <1>1, UnderWay
<1>3. ASSUME NEW n \in 0 .. Len(commitments), ReadCount(n)
      PROVE  IInv'
  <2> DEFINE q == [request EXCEPT !.stage = "loading", !.count = n]
  <2>0. request.leaves = <<>> /\ n \in Nat
    <3>1. request.stage = "counting"
      BY <1>3 DEF ReadCount, At
    <3>2. request.leaves = <<>>
      BY <1>2, <3>1 DEF RequestOk
    <3> QED
      BY <1>2, <3>2
  <2>1. /\ Typed(q) /\ q.stage = "loading" /\ q.leaves = <<>> /\ q.count = n
        /\ q.polls = request.polls
    BY <1>2, <2>0 DEF Typed, Stages
  <2>2. request' = q
    BY <1>3 DEF ReadCount
  <2> HIDE DEF q
  <2>3. RequestOk(q)
    BY <1>2, <2>1 DEF RequestOk, ReadOk
  <2> QED
    BY <1>1, <2>1, <2>2, <2>3, GoesOn
<1>4. CASE ReadCommitment
  <2> DEFINE i == Len(request.leaves) + 1
  <2>1. PICK c \in {Zero} \cup (IF i <= Len(commitments) THEN {commitments[i]} ELSE {}) :
          request' = [request EXCEPT !.leaves = Append(@, c)]
    BY <1>4 DEF ReadCommitment
  <2>2. i <= request.count /\ request.stage = "loading" /\ request.count <= Len(commitments)
        /\ request.count \in Nat
    BY <1>2, <1>4 DEF ReadCommitment, At, RequestOk, ReadOk, Typed
  <2>3. c \in {Zero, commitments[i]} /\ c \in Commitments \cup {Zero}
    BY <1>2, <2>1, <2>2
  <2> DEFINE more == Append(request.leaves, c)
             q == [request EXCEPT !.leaves = more]
  <2>4. /\ more \in Leaves /\ Len(more) = i /\ more[i] = c
        /\ \A k \in 1 .. Len(request.leaves) : more[k] = request.leaves[k]
    BY <1>2, <2>3, OneLeaf DEF Leaves
  <2> HIDE DEF more
  <2>5. /\ Typed(q) /\ q.stage = "loading" /\ q.leaves = more /\ q.count = request.count
        /\ q.polls = request.polls
    BY <1>2, <2>2, <2>4 DEF Typed
  <2>6. request' = q
    BY <2>1 DEF more
  <2> HIDE DEF q
  <2>7. \A k \in 1 .. Len(more) : more[k] \in {Zero, commitments[k]}
    BY <1>2, <2>3, <2>4 DEF RequestOk, ReadOk
  <2>8. RequestOk(q)
    BY <1>2, <2>2, <2>4, <2>5, <2>7 DEF RequestOk, ReadOk
  <2> QED
    BY <1>1, <2>5, <2>6, <2>8, GoesOn
<1> QED
  BY <1>3, <1>4

\* The note is looked for among the leaves.
LEMMA SearchStep ==
  ASSUME IInv, SeeNoNote \/ SeeNote
  PROVE  IInv'
<1>1. /\ request.stage = "loading" /\ request.kind # "deposit" /\ UNCHANGED poolVars
      /\ Typed(request)
  <2>1. request.stage = "loading" /\ request.kind # "deposit" /\ UNCHANGED poolVars
    BY DEF SeeNoNote, SeeNote, Loaded, At, Spending
  <2> QED
    BY <2>1, UnderWay
<1>2. CASE SeeNoNote
  BY <1>1, <1>2, Fails, NextRoundStep DEF SeeNoNote
<1>3. CASE SeeNote /\ request' # Failed
  <2> DEFINE stage == IF request.attempt = 0 THEN "checking" ELSE "proving"
             q == [request EXCEPT !.stage = stage]
  <2>1. /\ Typed(q) /\ q.stage = stage
        /\ q.leaves = request.leaves /\ q.kind = request.kind /\ q.note = request.note
        /\ q.count = request.count /\ q.polls = request.polls
    BY <1>1 DEF Typed, Stages
  <2>2. request' = q /\ request.note \in ToSet(request.leaves)
    BY <1>3 DEF SeeNote, Found
  <2>3. stage \in {"checking", "confirming", "proving"}
    OBVIOUS
  <2> HIDE DEF q, stage
  <2> QED
    BY <1>1, <2>1, <2>2, <2>3, StageStep
<1> QED
  BY <1>1, <1>2, <1>3, Fails

\* The root is read.
LEMMA RootStep ==
  ASSUME IInv, CheckRoot \/ ConfirmRoot \/ PostProofCheck
  PROVE  IInv'
<1>1. request.stage \in {"checking", "confirming", "proving"} /\ UNCHANGED poolVars
  BY DEF CheckRoot, ConfirmRoot, PostProofCheck, At
<1>2. /\ Typed(request) /\ request.kind # "deposit"
      /\ request.note \in ToSet(request.leaves)
      /\ request.polls < MaxPolls
  BY <1>1, UnderWay DEF RequestOk
<1>3. CASE CheckRoot
  <2>1. CASE NextRound(request)
    BY <1>1, <1>2, <2>1, NextRoundStep
  <2>2. CASE request' = [request EXCEPT !.stage = "confirming"]
    <3> DEFINE q == [request EXCEPT !.stage = "confirming"]
    <3>1. /\ Typed(q) /\ q.stage = "confirming"
          /\ q.leaves = request.leaves /\ q.kind = request.kind /\ q.note = request.note
          /\ q.count = request.count /\ q.polls = request.polls
      BY <1>2 DEF Typed, Stages
    <3>2. request' = q
      BY <2>2
    <3> HIDE DEF q
    <3> QED
      BY <1>1, <1>2, <3>1, <3>2, StageStep
  <2> QED
    BY <1>3, <2>1, <2>2 DEF CheckRoot
<1>4. CASE ConfirmRoot
  <2>1. CASE NextRound(request)
    BY <1>1, <1>2, <2>1, NextRoundStep
  <2>2. CASE request' = [request EXCEPT !.confirmed = 1]
    <3> DEFINE q == [request EXCEPT !.confirmed = 1]
    <3>1. /\ Typed(q) /\ q.stage = request.stage
          /\ q.leaves = request.leaves /\ q.kind = request.kind /\ q.note = request.note
          /\ q.count = request.count /\ q.polls = request.polls
      BY <1>2 DEF Typed
    <3>2. request' = q
      BY <2>2
    <3> HIDE DEF q
    <3> QED
      BY <1>1, <1>2, <3>1, <3>2, StageStep
  <2>3. CASE request' = [request EXCEPT !.stage = "proving", !.attempt = 1]
    <3> DEFINE q == [request EXCEPT !.stage = "proving", !.attempt = 1]
    <3>1. /\ Typed(q) /\ q.stage = "proving"
          /\ q.leaves = request.leaves /\ q.kind = request.kind /\ q.note = request.note
          /\ q.count = request.count /\ q.polls = request.polls
      BY <1>2, Bounds DEF Typed, Stages
    <3>2. request' = q
      BY <2>3
    <3> HIDE DEF q
    <3> QED
      BY <1>1, <1>2, <3>1, <3>2, StageStep
  <2> QED
    BY <1>4, <2>1, <2>2, <2>3 DEF ConfirmRoot
<1>5. CASE PostProofCheck
  <2>1. CASE Answer(request)
    BY <1>1, <1>2, <2>1, AnswerStep
  <2>2. CASE request' = Failed
    BY <1>1, <2>2, Fails
  <2>3. CASE /\ request.attempt # MaxAttempts
             /\ request' = Load([request EXCEPT !.attempt = @ + 1])
    <3> DEFINE q == Load([request EXCEPT !.attempt = @ + 1])
    <3>1. request.attempt + 1 \in 0 .. MaxAttempts
      BY <1>2, <2>3, ServerAssumption DEF Typed, ServerAssumption
    <3>2. /\ Typed(q) /\ q.stage = "counting" /\ q.leaves = <<>>
          /\ q.count = request.count /\ q.polls = request.polls
      BY <1>2, <3>1, Bounds DEF Typed, Load, Stages
    <3>3. request' = q
      BY <2>3
    <3> HIDE DEF q
    <3> QED
      BY <1>1, <1>2, <3>2, <3>3, ReloadStep
  <2> QED
    <3>1. PICK answer \in RootAnswers :
            CASE answer = ProofRoot(request)    -> Answer(request)
              [] answer # ProofRoot(request) /\ request.attempt = MaxAttempts ->
                   request' = Failed
              [] answer # ProofRoot(request) /\ request.attempt # MaxAttempts ->
                   request' = Load([request EXCEPT !.attempt = @ + 1])
      BY <1>5 DEF PostProofCheck
    <3> QED
      BY <2>1, <2>2, <2>3, <3>1
<1> QED
  BY <1>3, <1>4, <1>5

-----------------------------------------------------------------------------

\* Nothing is deployed yet.
LEMMA InitOk == Init => IInv
<1> SUFFICES ASSUME Init PROVE IInv
  OBVIOUS
<1>1. commitments = <<>> /\ request = Idle
  BY DEF Init
<1>2. Len(commitments) = 0 /\ commitments \in Seq(Commitments)
  BY <1>1
<1>3. Width \in Nat
  BY SpanType, TreeAssumption DEF TreeAssumption, Width
<1> QED
  BY <1>1, <1>2, <1>3 DEF IInv, PoolOk, RootShape, Fits

\* Every step keeps the invariant.
LEMMA StepOk == IInv /\ [Next]_vars => IInv'
<1> SUFFICES ASSUME IInv, [Next]_vars PROVE IInv'
  OBVIOUS
<1>1. CASE UNCHANGED vars
  <2>1. UNCHANGED poolVars /\ UNCHANGED request
    BY <1>1 DEF vars
  <2>2. CASE request \in {Idle, Failed}
    BY <2>1, <2>2 DEF IInv, poolVars, PoolOk, RootShape, EndsNew, Idle, Failed
  <2>3. CASE Typed(request) /\ RequestOk(request)
    BY <2>1, <2>3, GoesOn
  <2> QED
    BY <2>2, <2>3 DEF IInv
<1>2. CASE Throw
  BY <1>2, Fails DEF Throw
<1>3. CASE SignDeposit
  BY <1>3, AnswerStep DEF SignDeposit, Loaded, At
<1>4. CASE ProveTransfer
  <2>1. /\ request.stage = "checking" /\ Answer(request) /\ UNCHANGED poolVars
    BY <1>4 DEF ProveTransfer, At
  <2>2. request.note \in ToSet(request.leaves)
    BY <2>1, UnderWay DEF RequestOk
  <2> QED
    BY <2>1, <2>2, AnswerStep
<1>5. CASE Pool
  BY <1>5, InsertStep, InsertTwoStep, OverwriteStep DEF Pool
<1>6. CASE Handle
  BY <1>3, <1>4, <1>6, ReadStep, SearchStep, RootStep DEF Handle
<1> QED
  BY <1>1, <1>2, <1>5, <1>6, StartStep DEF Next

\* What a request read is right or missing, and the pool's root has the last leaf in it
\* or leaves that are not there.
THEOREM Invariance == Spec => []IInv
  BY InitOk, StepOk, PTL DEF Spec

\* Every variable stays in its type, and a request within the bounds of its polls and
\* attempts: index.ts gives up rather than retry for ever.
THEOREM TypeCorrect == Spec => []TypeOK
  BY Invariance, TypeFollows, PTL

\* The path that computeMerklePath gives for any of the leaves leads up to the root that
\* computeNewRoot and tree_builder give for them all, whatever the depth of the tree and
\* whichever reads failed: the spend circuit never refuses a note for its path.
THEOREM PathsAreRight == Spec => []PathsLeadToTheRoot
<1>1. IInv => PathsLeadToTheRoot
  <2> SUFFICES ASSUME IInv, request.stage \notin {"idle", "failed"}, Fits(request.leaves),
                      NEW i \in 0 .. Len(request.leaves) - 1
               PROVE  compute_merkle_root(request.leaves[i + 1], i,
                                          MerklePath(request.leaves, i))
                        = TreeRoot(request.leaves)
    BY DEF PathsLeadToTheRoot
  <2>1. Len(request.leaves) \in Nat
    BY UnderWay
  <2>2. Len(request.leaves) <= Width /\ Width \in Nat
    BY SpanType, TreeAssumption DEF TreeAssumption, Width, Fits
  <2>3. i \in 0 .. Width - 1 /\ Padded(request.leaves)[i] = request.leaves[i + 1]
    BY <2>1, <2>2 DEF Padded
  <2> QED
    BY <2>3, PathLeadsUp
<1> QED
  BY <1>1, Invariance, PTL

-----------------------------------------------------------------------------

\* If the leaves that were read have the root of the pool, no leaf came after them.
LEMMA SyncMeansAll ==
  ASSUME IInv, request.stage \notin {"idle", "failed"}, Fits(request.leaves),
         Len(request.leaves) > 0, TreeRoot(request.leaves) = root
  PROVE  Len(request.leaves) = Len(commitments)
<1> DEFINE l == request.leaves
           C == commitments
           m == Len(commitments)
<1>1. /\ l \in Seq(Leaf) /\ Len(l) \in Nat /\ Len(l) <= m /\ m \in Nat
      /\ \A i \in 1 .. Len(l) : l[i] \in {Zero, C[i]}
  BY UnderWay DEF RequestOk, ReadOk, Leaves, Leaf, Typed
<1>2. C \in Seq(Commitments) /\ \A i, j \in 1 .. m : C[i] = C[j] => i = j
  BY DEF IInv, PoolOk
<1>3. Zero \notin Commitments /\ Stranger \notin Commitments /\ Stranger # Zero
  BY ServerAssumption DEF ServerAssumption
<1>4. \A i \in 1 .. m : C[i] \in Commitments
  BY <1>2, ElementOfSeq
<1>5. PICK s \in Seq(Leaf) : EndsNew(s, C) /\ root = TreeRoot(s)
  BY <1>1 DEF IInv, PoolOk, RootShape
<1> DEFINE k == Len(s)
<1>6. /\ k \in Nat /\ k > 0 /\ Fits(s) /\ s[k] \in {Stranger, C[m]}
  BY <1>5, LenProperties DEF EndsNew
<1>7. s[k] = IF k <= Len(l) THEN l[k] ELSE Zero
  <2>1. k \in 1 .. Len(s)
    BY <1>6
  <2> HIDE DEF l, k
  <2> QED
    BY <1>1, <1>5, <1>6, <2>1, SameRootSameLeaves DEF l
<1>8. m \in 1 .. m
  BY <1>1
<1>9. k <= Len(l) /\ l[k] \in {Stranger, C[m]} /\ l[k] # Zero
  BY <1>3, <1>4, <1>6, <1>7, <1>8
<1>10. k \in 1 .. m /\ l[k] = C[k]
  BY <1>1, <1>6, <1>9
<1>11. C[k] = C[m]
  BY <1>3, <1>4, <1>9, <1>10
<1>12. k = m
  BY <1>2, <1>8, <1>10, <1>11
<1> QED
  BY <1>1, <1>9, <1>12

\* A spend that the pool would accept (the proof's root is the stored one, lib.rs:363)
\* gets a root with its outputs where the pool will put them, after all of its leaves,
\* and with every leaf that the stored root has, whichever reads failed, lagged behind
\* or were of a root that was replaced meanwhile, for this request or for others.
THEOREM SpendsExtendAlways == Spec => []SpendsExtendTheRoot
<1>1. ASSUME IInv PROVE SpendsExtendTheRoot
  <2> SUFFICES ASSUME request.stage = "done", Spending, TreeRoot(request.leaves) = root
               PROVE  \E s \in Readings(Len(commitments)) :
                        /\ root = TreeRoot(s)
                        /\ request.newRoot = TreeRoot(s \o NewLeaves(request))
    BY DEF SpendsExtendTheRoot, At
  <2>1. /\ Typed(request) /\ RequestOk(request)
        /\ request.leaves \in Leaves /\ Len(request.leaves) \in Nat
        /\ request.newRoot = TreeRoot(request.leaves \o NewLeaves(request))
        /\ Fits(request.leaves \o NewLeaves(request))
    BY <1>1, UnderWay DEF RequestOk
  <2>2. Len(request.leaves) > 0
    <3>1. request.note \in ToSet(request.leaves)
      BY <2>1 DEF RequestOk, Spending
    <3> QED
      BY <2>1, <3>1, Elements DEF Leaves
  <2>3. Fits(request.leaves)
    <3>1. NewLeaves(request) = <<Out1, Out2>>
      BY DEF NewLeaves, Spending
    <3>2. Len(request.leaves \o <<Out1, Out2>>) = Len(request.leaves) + 2
      <4>1. request.leaves \in Seq(Commitments \cup {Zero, Out1, Out2})
        BY <2>1 DEF Leaves
      <4> QED
        BY <4>1, TwoLeaves
    <3> QED
      BY <2>1, <3>1, <3>2, SpanEnds DEF Fits
  <2>4. Len(request.leaves) = Len(commitments)
    BY <1>1, <2>2, <2>3, SyncMeansAll
  <2>5. request.leaves \in Readings(Len(commitments))
    <3> DEFINE l == request.leaves
               S == ToSet(commitments) \cup {Zero}
    <3>1. /\ l \in Seq(Commitments \cup {Zero}) /\ Len(l) = Len(commitments)
          /\ \A i \in 1 .. Len(l) : l[i] \in {Zero, commitments[i]}
      BY <2>1, <2>4 DEF Leaves, RequestOk, ReadOk
    <3>2. \A i \in 1 .. Len(commitments) : commitments[i] \in ToSet(commitments)
      BY <1>1, Elements DEF IInv, PoolOk
    <3>3. DOMAIN l = 1 .. Len(l) /\ l = [i \in 1 .. Len(l) |-> l[i]]
      <4> HIDE DEF l
      <4> QED
        BY <3>1, LenProperties
    <3> HIDE DEF l
    <3>4. l \in [1 .. Len(commitments) -> S]
      BY <3>1, <3>2, <3>3
    <3>5. l \in Readings(Len(commitments))
      BY <3>1, <3>4 DEF Readings
    <3> QED
      BY <3>5 DEF l
  <2> QED
    BY <2>1, <2>5
<1> QED
  BY <1>1, Invariance, PTL

-----------------------------------------------------------------------------
(***************************************************************************)
(* A request gets on: how many steps it takes is bounded, however the pool *)
(* moves and whatever is read.  That it goes on at all is a matter of      *)
(* fairness and left to TLC.                                               *)
(***************************************************************************)

\* The attempts are counted in the second phase only.
InPhase(q) ==
  /\ q.stage \in {"checking", "confirming"} => q.attempt = 0
  /\ q.stage = "proving" => q.attempt # 0

Phases == request.stage \notin Ended => InPhase(request)

\* What is left of a round, stage by stage.
LEMMA RoundAt ==
  ASSUME NEW q
  PROVE  /\ q.stage = "counting" => LeftOfRound(q) = Width + 5
         /\ q.stage = "loading" => LeftOfRound(q) = q.count - Len(q.leaves) + 4
         /\ q.stage = "checking" => LeftOfRound(q) = 3
         /\ q.stage = "confirming" => LeftOfRound(q) = 2 - q.confirmed
         /\ q.stage = "proving" => LeftOfRound(q) = 1
  BY DEF LeftOfRound

\* A request that is under way, and what it has left.
LEMMA SomeLeft ==
  ASSUME IInv, request.stage \notin Ended
  PROVE  /\ Typed(request) /\ RequestOk(request)
         /\ request.polls \in 0 .. MaxPolls - 1 /\ request.attempt \in 0 .. MaxAttempts
         /\ request.count \in 0 .. Width /\ Len(request.leaves) \in 0 .. request.count
         /\ request.stage \in {"counting", "loading", "checking", "confirming", "proving"}
         /\ RoundsLeft(request) \in 0 .. MaxPolls + MaxAttempts
         /\ LeftOfRound(request) \in 1 .. Width + 5
<1> DEFINE q == request
<1>1. q.stage \notin {"idle", "failed"}
  BY DEF Ended
<1>2. /\ Typed(q) /\ RequestOk(q) /\ Len(q.leaves) \in Nat
      /\ Len(commitments) \in Nat
  BY <1>1, UnderWay
<1>3. Len(commitments) <= Width /\ Width \in Nat
  BY SpanEnds DEF IInv, PoolOk, Fits
<1>4. MaxPolls \in Nat /\ MaxAttempts \in Nat
  BY ServerAssumption DEF ServerAssumption
<1>5. /\ q.stage \in {"counting", "loading", "checking", "confirming", "proving"}
      /\ q.confirmed \in 0 .. 1 /\ q.attempt \in 0 .. MaxAttempts
      /\ q.polls \in Nat /\ q.count \in Nat
  BY <1>2 DEF Typed, Stages, Ended
<1>6. q.polls < MaxPolls /\ Len(q.leaves) <= q.count /\ q.count <= Len(commitments)
  BY <1>2 DEF RequestOk, ReadOk
<1>7. RoundsLeft(q) \in 0 .. MaxPolls + MaxAttempts
  BY <1>4, <1>5, <1>6 DEF RoundsLeft
<1> DEFINE length == Len(q.leaves)
<1>8. length \in Nat /\ length <= q.count /\ q.count <= Width
  BY <1>2, <1>3, <1>5, <1>6
<1>9. q.stage = "loading" => LeftOfRound(q) = q.count - length + 4
  BY RoundAt
<1> HIDE DEF length, q
<1>10. LeftOfRound(q) \in 1 .. Width + 5
  BY <1>3, <1>5, <1>8, <1>9, RoundAt
<1>11. /\ q.polls \in 0 .. MaxPolls - 1 /\ q.count \in 0 .. Width
       /\ length \in 0 .. q.count
  BY <1>3, <1>4, <1>5, <1>6, <1>8
<1> QED
  BY <1>2, <1>5, <1>7, <1>10, <1>11 DEF length, q

\* n is nearer to its answer than q: it has ended, has less of the same round
\* left, or fewer rounds.
Nearer(q, n) ==
  \/ n.stage \in Ended
  \/ /\ n.stage \notin Ended
     /\ \/ RoundsLeft(n) = RoundsLeft(q) /\ LeftOfRound(n) \in 0 .. LeftOfRound(q) - 1
        \/ RoundsLeft(n) \in 0 .. RoundsLeft(q) - 1 /\ LeftOfRound(n) \in 0 .. Width + 5

\* A round is longer than what is left of one.
LEMMA WholeRounds ==
  ASSUME NEW a \in Nat, NEW b \in Nat, a < b
  PROVE  /\ a * StepsOfRound \in Nat /\ b * StepsOfRound \in Nat
         /\ a * StepsOfRound + Width + 6 <= b * StepsOfRound
<1>1. StepsOfRound \in Nat /\ StepsOfRound = Width + 6 /\ Width \in Nat
  BY SpanEnds DEF StepsOfRound
<1> DEFINE d == b - a - 1
           S == StepsOfRound
<1>2. d \in Nat /\ b = a + 1 + d
  OBVIOUS
<1> HIDE DEF d, S
<1>3. S \in Nat
  BY <1>1 DEF S
<1>4. a * S \in Nat /\ b * S \in Nat /\ d * S \in Nat
  BY <1>2, <1>3
<1>5. (a + 1 + d) * S = a * S + S + d * S
  BY <1>2, <1>3
<1> QED
  BY <1>1, <1>2, <1>4, <1>5 DEF S

\* What is nearer has fewer steps left.
LEMMA NearerMeansLess ==
  ASSUME NEW q, NEW n, q.stage \notin Ended, Nearer(q, n),
         RoundsLeft(q) \in Nat, LeftOfRound(q) \in 1 .. Width + 5
  PROVE  StepsLeft(n) \in Nat /\ StepsLeft(n) < StepsLeft(q)
<1>1. StepsLeft(q) = RoundsLeft(q) * StepsOfRound + LeftOfRound(q)
  BY DEF StepsLeft
<1>2. Width \in Nat /\ StepsOfRound \in Nat /\ RoundsLeft(q) * StepsOfRound \in Nat
  <2>1. Width \in Nat /\ StepsOfRound \in Nat
    BY SpanEnds DEF StepsOfRound
  <2> QED
    BY <2>1
<1>3. CASE n.stage \in Ended
  <2>1. StepsLeft(n) = 0
    BY <1>3 DEF StepsLeft
  <2> QED
    BY <1>1, <1>2, <2>1
<1>4. CASE n.stage \notin Ended
  <2>1. StepsLeft(n) = RoundsLeft(n) * StepsOfRound + LeftOfRound(n)
    BY <1>4 DEF StepsLeft
  <2>2. CASE RoundsLeft(n) = RoundsLeft(q) /\ LeftOfRound(n) \in 0 .. LeftOfRound(q) - 1
    BY <1>1, <1>2, <2>1, <2>2
  <2>3. CASE RoundsLeft(n) \in 0 .. RoundsLeft(q) - 1 /\ LeftOfRound(n) \in 0 .. Width + 5
    <3>1. /\ RoundsLeft(n) \in Nat /\ RoundsLeft(n) < RoundsLeft(q)
          /\ LeftOfRound(n) \in Nat /\ LeftOfRound(n) <= Width + 5
      BY <1>2, <2>3
    <3>2. /\ RoundsLeft(n) * StepsOfRound \in Nat
          /\ RoundsLeft(n) * StepsOfRound + Width + 6 <= RoundsLeft(q) * StepsOfRound
      BY <3>1, WholeRounds
    <3> QED
      BY <1>1, <1>2, <2>1, <3>1, <3>2
  <2> QED
    BY <1>4, <2>2, <2>3 DEF Nearer
<1> QED
  BY <1>3, <1>4

\* The leaves are loaded again in another round.
LEMMA AnotherRound ==
  ASSUME NEW q, NEW n, n.stage = "counting", RoundsLeft(n) \in 0 .. RoundsLeft(q) - 1
  PROVE  Nearer(q, n) /\ InPhase(n)
<1>1. LeftOfRound(n) = Width + 5 /\ Width \in Nat
  BY RoundAt, SpanEnds
<1> QED
  BY <1>1 DEF Nearer, InPhase, Ended

\* The second phase begins.
LEMMA SecondPhase ==
  ASSUME NEW q, NEW n, q.attempt = 0, q.polls \in 0 .. MaxPolls - 1,
         n.stage = "proving", n.attempt = 1
  PROVE  Nearer(q, n) /\ InPhase(n)
<1>1. MaxAttempts \in Nat \ {0} /\ MaxPolls \in Nat
  BY ServerAssumption DEF ServerAssumption
<1>2. RoundsLeft(n) \in 0 .. RoundsLeft(q) - 1
  BY <1>1 DEF RoundsLeft
<1>3. LeftOfRound(n) = 1 /\ Width \in Nat
  BY RoundAt, SpanEnds
<1> QED
  BY <1>2, <1>3 DEF Nearer, InPhase, Ended

\* A round of the first phase is followed by another, by the second phase or by nothing.
LEMMA NextRoundNears ==
  ASSUME IInv, request.stage \notin Ended, request.attempt = 0, NextRound(request)
  PROVE  Nearer(request, request') /\ InPhase(request')
<1>1. /\ Typed(request) /\ request.polls \in 0 .. MaxPolls - 1
      /\ MaxPolls \in Nat /\ MaxAttempts \in Nat
  BY SomeLeft, ServerAssumption DEF ServerAssumption
<1>2. CASE /\ request.polls + 1 < MaxPolls
           /\ request' = Load([request EXCEPT !.polls = @ + 1, !.confirmed = 0])
  <2>1. /\ request'.stage = "counting" /\ request'.attempt = 0
        /\ request'.polls = request.polls + 1
    BY <1>1, <1>2 DEF Typed, Load
  <2>2. RoundsLeft(request') \in 0 .. RoundsLeft(request) - 1
    BY <1>1, <1>2, <2>1 DEF RoundsLeft
  <2> QED
    BY <2>1, <2>2, AnotherRound
<1>3. CASE request' = [request EXCEPT !.stage = "proving", !.attempt = 1]
  <2>1. request'.stage = "proving" /\ request'.attempt = 1
    BY <1>1, <1>3 DEF Typed
  <2> QED
    BY <1>1, <2>1, SecondPhase
<1>4. CASE request' = Failed
  BY <1>4 DEF Failed, Nearer, InPhase, Ended
<1> QED
  BY <1>2, <1>3, <1>4 DEF NextRound

\* An answer, or none.
LEMMA AnswerNears ==
  ASSUME IInv, request.stage \notin Ended, Answer(request)
  PROVE  Nearer(request, request') /\ InPhase(request')
<1>1. request'.stage \in {"done", "failed"}
  BY SomeLeft DEF Answer, Failed, Typed
<1> QED
  BY <1>1 DEF Nearer, InPhase, Ended

\* One stage of the same round follows another.
LEMMA SameRound ==
  ASSUME NEW q, NEW n, n.stage \notin Ended, n.attempt = q.attempt, n.polls = q.polls,
         LeftOfRound(n) \in 0 .. LeftOfRound(q) - 1
  PROVE  Nearer(q, n)
<1>1. RoundsLeft(n) = RoundsLeft(q)
  BY DEF RoundsLeft
<1> QED
  BY <1>1 DEF Nearer

\* Counting and reading the leaves.
LEMMA ReadNears ==
  ASSUME IInv, (\E n \in 0 .. Len(commitments) : ReadCount(n)) \/ ReadCommitment
  PROVE  request.stage \notin Ended /\ Nearer(request, request') /\ InPhase(request')
<1> DEFINE q == request
<1>1. q.stage \in {"counting", "loading"} /\ q.stage \notin Ended
  BY DEF ReadCount, ReadCommitment, At, Ended
<1>2. /\ Typed(q) /\ RequestOk(q) /\ q.count \in 0 .. Width
      /\ Len(q.leaves) \in 0 .. q.count /\ q.leaves \in Leaves
  BY <1>1, SomeLeft DEF Typed
<1>3. ASSUME NEW n \in 0 .. Len(commitments), ReadCount(n)
      PROVE  Nearer(q, q') /\ InPhase(q')
  <2>1. /\ q.stage = "counting" /\ q' = [q EXCEPT !.stage = "loading", !.count = n]
    BY <1>3 DEF ReadCount, At
  <2>2. /\ q'.stage = "loading" /\ q'.count = n /\ q'.leaves = q.leaves
        /\ q'.attempt = q.attempt /\ q'.polls = q.polls
    BY <1>2, <2>1 DEF Typed
  <2>3. q.leaves = <<>> /\ Len(<<>>) = 0
    BY <1>2, <2>1 DEF RequestOk
  <2>4. n \in 0 .. Width /\ Width \in Nat
    BY SpanEnds, LenProperties DEF IInv, PoolOk, Fits
  <2>5. LeftOfRound(q') = n + 4 /\ LeftOfRound(q) = Width + 5
    <3>1. Len(q'.leaves) = 0
      BY <2>2, <2>3
    <3>2. LeftOfRound(q') = q'.count - Len(q'.leaves) + 4
      BY <2>2, RoundAt
    <3>3. q'.count - Len(q'.leaves) + 4 = n + 4
      BY <2>2, <2>4, <3>1
    <3>4. LeftOfRound(q) = Width + 5
      BY <2>1, RoundAt
    <3> QED
      BY <3>2, <3>3, <3>4
  <2>6. LeftOfRound(q') \in 0 .. LeftOfRound(q) - 1
    BY <2>4, <2>5
  <2> QED
    BY <2>2, <2>6, SameRound DEF InPhase, Ended
<1>4. CASE ReadCommitment
  <2>1. PICK c : q' = [q EXCEPT !.leaves = Append(@, c)]
    BY <1>4 DEF ReadCommitment
  <2>2. /\ q.stage = "loading" /\ q'.stage = "loading" /\ q'.count = q.count
        /\ q'.attempt = q.attempt /\ q'.polls = q.polls /\ q'.leaves = Append(q.leaves, c)
    BY <1>2, <1>4, <2>1 DEF Typed, ReadCommitment, At
  <2> DEFINE length == Len(q.leaves)
  <2>3. Len(q'.leaves) = length + 1
    BY <1>2, <2>2, AppendProperties DEF Leaves
  <2>4. length + 1 <= q.count /\ length \in Nat /\ q.count \in Nat
    BY <1>2, <1>4, SpanEnds DEF ReadCommitment
  <2>5. /\ LeftOfRound(q) = q.count - length + 4
        /\ LeftOfRound(q') = q.count - (length + 1) + 4
    BY <2>2, <2>3, RoundAt
  <2> HIDE DEF length
  <2>6. LeftOfRound(q') \in 0 .. LeftOfRound(q) - 1
    BY <2>4, <2>5
  <2> QED
    BY <2>2, <2>6, SameRound DEF InPhase, Ended
<1> QED
  BY <1>1, <1>3, <1>4

\* Looking for the note.
LEMMA SearchNears ==
  ASSUME IInv, Phases, SeeNoNote \/ SeeNote
  PROVE  request.stage \notin Ended /\ Nearer(request, request') /\ InPhase(request')
<1> DEFINE q == request
<1>1. q.stage = "loading" /\ q.stage \notin Ended /\ Len(q.leaves) = q.count
  BY DEF SeeNoNote, SeeNote, Loaded, At, Ended
<1>2. Typed(q) /\ q.count \in Nat
  BY <1>1, SomeLeft DEF Typed
<1>3. CASE q' = Failed
  BY <1>1, <1>3 DEF Failed, Nearer, InPhase, Ended
<1>4. CASE SeeNoNote
  BY <1>1, <1>3, <1>4, NextRoundNears DEF SeeNoNote
<1>5. CASE SeeNote /\ q' # Failed
  <2> DEFINE stage == IF q.attempt = 0 THEN "checking" ELSE "proving"
  <2>1. q' = [q EXCEPT !.stage = stage]
    BY <1>5 DEF SeeNote
  <2>2. /\ q'.stage = stage /\ q'.attempt = q.attempt /\ q'.polls = q.polls
    BY <1>2, <2>1 DEF Typed
  <2>3. LeftOfRound(q) = 4
    BY <1>1, <1>2, RoundAt
  <2>4. LeftOfRound(q') \in {1, 3}
    BY <2>2, RoundAt
  <2>5. LeftOfRound(q') \in 0 .. LeftOfRound(q) - 1
    BY <2>3, <2>4
  <2>6. q'.stage \notin Ended /\ InPhase(q')
    BY <2>2 DEF Ended, InPhase
  <2> QED
    BY <1>1, <2>2, <2>5, <2>6, SameRound
<1> QED
  BY <1>1, <1>3, <1>4, <1>5

\* Reading the root.
LEMMA RootNears ==
  ASSUME IInv, Phases, CheckRoot \/ ConfirmRoot \/ PostProofCheck
  PROVE  request.stage \notin Ended /\ Nearer(request, request') /\ InPhase(request')
<1> DEFINE q == request
<1>1. q.stage \in {"checking", "confirming", "proving"} /\ q.stage \notin Ended
  BY DEF CheckRoot, ConfirmRoot, PostProofCheck, At, Ended
<1>2. /\ Typed(q) /\ q.polls \in 0 .. MaxPolls - 1 /\ q.attempt \in 0 .. MaxAttempts
      /\ q.confirmed \in 0 .. 1 /\ InPhase(q)
  BY <1>1, SomeLeft DEF Typed, Phases
<1>3. CASE NextRound(q) /\ q.stage # "proving"
  BY <1>1, <1>2, <1>3, NextRoundNears DEF InPhase
<1>4. CASE CheckRoot /\ q' = [q EXCEPT !.stage = "confirming"]
  <2>1. q.stage = "checking" /\ q.attempt = 0
    BY <1>2, <1>4 DEF CheckRoot, At, InPhase
  <2>2. /\ q'.stage = "confirming" /\ q'.attempt = 0 /\ q'.polls = q.polls
        /\ q'.confirmed = q.confirmed
    BY <1>2, <1>4, <2>1 DEF Typed
  <2>3. LeftOfRound(q) = 3 /\ LeftOfRound(q') = 2 - q.confirmed
    BY <2>1, <2>2, RoundAt
  <2>4. LeftOfRound(q') \in 0 .. LeftOfRound(q) - 1
    BY <1>2, <2>3
  <2> QED
    BY <1>1, <2>1, <2>2, <2>4, SameRound DEF Ended, InPhase
<1>5. CASE ConfirmRoot /\ q.confirmed = 0 /\ q' = [q EXCEPT !.confirmed = 1]
  <2>1. q.stage = "confirming" /\ q.attempt = 0
    BY <1>2, <1>5 DEF ConfirmRoot, At, InPhase
  <2>2. /\ q'.stage = "confirming" /\ q'.attempt = 0 /\ q'.polls = q.polls
        /\ q'.confirmed = 1
    BY <1>2, <1>5, <2>1 DEF Typed
  <2>3. LeftOfRound(q) = 2 /\ LeftOfRound(q') = 1
    <3>1. LeftOfRound(q) = 2 - q.confirmed
      BY <2>1, RoundAt
    <3>2. LeftOfRound(q') = 2 - q'.confirmed
      BY <2>2, RoundAt
    <3>3. q.confirmed = 0 /\ q'.confirmed = 1
      BY <1>5, <2>2
    <3> QED
      BY <3>1, <3>2, <3>3
  <2>4. LeftOfRound(q') \in 0 .. LeftOfRound(q) - 1
    BY <2>3
  <2> QED
    BY <1>1, <2>1, <2>2, <2>4, SameRound DEF Ended, InPhase
<1>6. CASE ConfirmRoot /\ q' = [q EXCEPT !.stage = "proving", !.attempt = 1]
  <2>1. q.attempt = 0
    BY <1>2, <1>6 DEF ConfirmRoot, At, InPhase
  <2>2. q'.stage = "proving" /\ q'.attempt = 1
    BY <1>2, <1>6 DEF Typed
  <2> QED
    BY <1>1, <1>2, <2>1, <2>2, SecondPhase
<1>7. CASE PostProofCheck
  <2>1. q.stage = "proving" /\ q.attempt # 0
    BY <1>2, <1>7 DEF PostProofCheck, At, InPhase
  <2>2. CASE Answer(q)
    BY <1>1, <2>2, AnswerNears
  <2>3. CASE q' = Failed
    BY <1>1, <2>3 DEF Failed, Nearer, InPhase, Ended
  <2>4. CASE q.attempt # MaxAttempts /\ q' = Load([q EXCEPT !.attempt = @ + 1])
    <3>1. q'.stage = "counting" /\ q'.attempt = q.attempt + 1
      BY <1>2, <2>4 DEF Typed, Load
    <3>2. MaxAttempts \in Nat
      BY ServerAssumption DEF ServerAssumption
    <3>3. RoundsLeft(q') \in 0 .. RoundsLeft(q) - 1
      BY <1>2, <2>1, <2>4, <3>1, <3>2 DEF RoundsLeft
    <3> QED
      BY <1>1, <3>1, <3>3, AnotherRound
  <2> QED
    <3>1. PICK answer \in RootAnswers :
            CASE answer = ProofRoot(q)    -> Answer(q)
              [] answer # ProofRoot(q) /\ q.attempt = MaxAttempts -> q' = Failed
              [] answer # ProofRoot(q) /\ q.attempt # MaxAttempts ->
                   q' = Load([q EXCEPT !.attempt = @ + 1])
      BY <1>7 DEF PostProofCheck
    <3> QED
      BY <2>2, <2>3, <2>4, <3>1
<1> QED
  <2>1. CASE CheckRoot
    BY <1>3, <1>4, <2>1 DEF CheckRoot, At
  <2>2. CASE ConfirmRoot
    BY <1>3, <1>5, <1>6, <2>2 DEF ConfirmRoot, At
  <2> QED
    BY <1>7, <2>1, <2>2

\* Every step of the handler.
LEMMA HandleNears ==
  ASSUME IInv, Phases, Handle
  PROVE  request.stage \notin Ended /\ Nearer(request, request') /\ InPhase(request')
<1>1. CASE SignDeposit
  <2>1. request.stage = "loading" /\ Answer(request)
    BY <1>1 DEF SignDeposit, Loaded, At
  <2> QED
    BY <2>1, AnswerNears DEF Ended
<1>2. CASE ProveTransfer
  <2>1. request.stage = "checking" /\ Answer(request)
    BY <1>2 DEF ProveTransfer, At
  <2> QED
    BY <2>1, AnswerNears DEF Ended
<1> QED
  BY <1>1, <1>2, ReadNears, SearchNears, RootNears DEF Handle

\* What else happens leaves a request that is under way alone, or ends it.
LEMMA OthersStay ==
  ASSUME [Next]_vars, ~Handle, request.stage \notin Ended
  PROVE  request' = request \/ request' = Failed
  BY DEF Next, Start, At, Ended, Throw, Pool, Insert, InsertTwo, Overwrite, vars

\* The phases are kept apart.
LEMMA PhasesStay == IInv /\ Phases /\ [Next]_vars => Phases'
<1> SUFFICES ASSUME IInv, Phases, [Next]_vars, request'.stage \notin Ended
             PROVE  InPhase(request')
  BY DEF Phases, InPhase, Ended
<1>1. CASE Handle
  BY <1>1, HandleNears
<1>2. CASE ~Handle /\ request.stage \notin Ended
  BY <1>2, OthersStay DEF Phases, Failed, Ended
<1>3. CASE ~Handle /\ request.stage \in Ended
  <2>1. CASE \E kind \in Kinds, note \in Commitments : Start(kind, note)
    BY <2>1 DEF Start, InPhase
  <2> QED
    BY <1>3, <2>1 DEF Next, Throw, Pool, Insert, InsertTwo, Overwrite, vars, Ended
<1> QED
  BY <1>1, <1>2, <1>3

\* In every state the steps left are a number that does not depend on what is read.
LEMMA LeftBounded == IInv => StepsLeft(request) \in 0 .. MaxSteps
<1> SUFFICES ASSUME IInv PROVE StepsLeft(request) \in 0 .. MaxSteps
  OBVIOUS
<1>1. /\ MaxPolls + MaxAttempts \in Nat /\ MaxPolls + MaxAttempts + 1 \in Nat
      /\ Width \in Nat /\ StepsOfRound \in Nat
  BY ServerAssumption, SpanEnds DEF ServerAssumption, StepsOfRound
<1>2. MaxSteps \in Nat
  BY <1>1 DEF MaxSteps
<1>3. CASE request.stage \in Ended
  BY <1>2, <1>3 DEF StepsLeft
<1>4. CASE request.stage \notin Ended
  <2>1. /\ RoundsLeft(request) \in Nat /\ RoundsLeft(request) < MaxPolls + MaxAttempts + 1
        /\ LeftOfRound(request) \in Nat /\ LeftOfRound(request) <= Width + 5
    BY <1>1, <1>4, SomeLeft
  <2>2. /\ RoundsLeft(request) * StepsOfRound \in Nat
        /\ RoundsLeft(request) * StepsOfRound + Width + 6 <= MaxSteps
    BY <1>1, <2>1, WholeRounds DEF MaxSteps
  <2>3. StepsLeft(request) = RoundsLeft(request) * StepsOfRound + LeftOfRound(request)
    BY <1>4 DEF StepsLeft
  <2> QED
    BY <1>1, <1>2, <2>1, <2>2, <2>3
<1> QED
  BY <1>3, <1>4

\* A request for a proof is answered or fails within MaxSteps reads: the two loops of
\* /api/prove/withdraw and the poll of /api/prove/transfer cannot keep each other going,
\* however the pool grows and its root changes under them.
THEOREM RequestGetsOnAlways == Spec => RequestGetsOn
<1> DEFINE GetsOn ==
             LET left == StepsLeft(request)  leftNow == StepsLeft(request') IN
               /\ left <= MaxSteps
               /\ Handle => leftNow < left
               /\ request.stage \notin Ended => left > 0 /\ leftNow <= left
<1>1. Init => Phases
  BY DEF Init, Phases, Idle, Ended
<1>2. IInv /\ Phases /\ [Next]_vars => [GetsOn]_vars
  <2> SUFFICES ASSUME IInv, Phases, [Next]_vars PROVE GetsOn
    OBVIOUS
  <2>1. StepsLeft(request) \in 0 .. MaxSteps /\ MaxSteps \in Nat
    BY LeftBounded, ServerAssumption, SpanEnds DEF ServerAssumption, MaxSteps, StepsOfRound
  <2>2. CASE Handle
    <3>1. request.stage \notin Ended /\ Nearer(request, request')
      BY <2>2, HandleNears
    <3>2. RoundsLeft(request) \in Nat /\ LeftOfRound(request) \in 1 .. Width + 5
      BY <3>1, SomeLeft
    <3>3. StepsLeft(request') \in Nat /\ StepsLeft(request') < StepsLeft(request)
      BY <3>1, <3>2, NearerMeansLess
    <3> QED
      BY <2>1, <3>3
  <2>3. CASE ~Handle /\ request.stage \in Ended
    BY <2>1, <2>3
  <2>4. CASE ~Handle /\ request.stage \notin Ended
    <3>1. StepsLeft(request) > 0
      <4>1. RoundsLeft(request) \in Nat /\ LeftOfRound(request) \in 1 .. Width + 5
        BY <2>4, SomeLeft
      <4>2. Nearer(request, Failed) /\ StepsLeft(Failed) = 0
        BY DEF Nearer, Failed, Ended, StepsLeft
      <4> QED
        BY <2>1, <2>4, <4>1, <4>2, NearerMeansLess
    <3>2. request' = request \/ StepsLeft(request') = 0
      BY <2>4, OthersStay DEF Failed, Ended, StepsLeft
    <3> QED
      BY <2>1, <2>4, <3>1, <3>2
  <2> QED
    BY <2>2, <2>3, <2>4
<1> QED
  BY <1>1, <1>2, PhasesStay, Invariance, PTL DEF Spec, RequestGetsOn
===============================================================================
