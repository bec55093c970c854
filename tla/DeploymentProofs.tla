---------------------------- MODULE DeploymentProofs ----------------------------
(***************************************************************************)
(* What the scripts of a deployment keep true however many of them run,    *)
(* interleave, are retried or are broken off.                              *)
(*                                                                         *)
(* What a file names is not safe by itself: the script that writes it must *)
(* have found out what it writes in the right order.  RunOk therefore says *)
(* what a run knows once it has done a step; Order says which steps come   *)
(* before which; and since contracts only come into being and get ready    *)
(* (Grows), what a run has known stays true while others go on, whoever    *)
(* calls set_vk: a key is replaced, never taken away.  That the scripts do *)
(* not replace the key of a pool needs more: no two runs have the same new *)
(* verifier (OwnVerifiers), and until its run deploys a pool it is that of *)
(* no pool (UnusedVerifiers).                                              *)
(***************************************************************************)
EXTENDS Deployment, MerkleTreeProofs

Stages == {"deployed", "initialized", "ready"}

\* The step a run is at, and those it has behind it.
Now(q) == Script[q.script].steps[q.at]
Done(q) == {Script[q.script].steps[i] : i \in 1 .. q.at - 1}

\* Pools ps, verifiers vs, AttestProtocols aps.
Shapes(ps, vs, aps) ==
  /\ ps \in Seq([by : Scripts, verifier : Nat, protocol : Nat])
  /\ vs \in Seq(Keys)
  /\ aps \in Seq(Stages)

Ready(aps, a) == a \in 1 .. Len(aps) /\ aps[a] = "ready"
HasKey(vs, v) == v \in 1 .. Len(vs) /\ vs[v] # "none"

PoolOk(vs, aps, p) ==
  /\ HasKey(vs, p.verifier)
  /\ Ready(aps, p.protocol)

IdFile(ps, vs, aps) ==
  [pool : 1 .. Len(ps), verifier : 1 .. Len(vs), protocol : 1 .. Len(aps),
   v10_prev : (1 .. Len(ps)) \cup {None}, v11_prev : (1 .. Len(ps)) \cup {None},
   v12_prev : (1 .. Len(ps)) \cup {None}, verifier_v11_prev : (1 .. Len(vs)) \cup {None}]

FileOk(ps, vs, aps, f) ==
  /\ f \in IdFile(ps, vs, aps)
  /\ ps[f.pool].verifier = f.verifier
  /\ HasKey(vs, f.verifier)
  /\ Ready(aps, f.protocol)

RunType(ps, vs, aps) ==
  [script : Scripts, at : Nat, tries : 0 .. MaxAttempts - 1,
   file : IdFile(ps, vs, aps) \cup {NoFile}, protocol : (1 .. Len(aps)) \cup {None},
   verifier : (1 .. Len(vs)) \cup {None}, pool : (1 .. Len(ps)) \cup {None},
   root : Roots \cup {Zero}]

\* What a run knows after the steps `done`.
RunOk(ps, vs, aps, q, done) ==
  /\ q \in RunType(ps, vs, aps)
  /\ "confirm" \in done => Ready(aps, q.protocol)
  /\ "protocol" \in done => q.protocol \in 1 .. Len(aps)
  /\ "register" \in done => Ready(aps, q.protocol)
  /\ "ask" \in done => q.root = getRegistryRoot
  /\ "load" \in done => FileOk(ps, vs, aps, q.file)
  /\ "verifier" \in done =>
       /\ q.verifier \in 1 .. Len(vs)
       /\ "key" \in done => vs[q.verifier] # "none"
  /\ "pool" \in done => q.pool \in 1 .. Len(ps) /\ ps[q.pool].verifier = VerifierOf(q)

RunsOk ==
  /\ DOMAIN run = Runs
  /\ \A r \in Runs :
       \/ run[r] = Idle
       \/ /\ RunOk(pools, verifiers, protocols, run[r], Done(run[r]))
          /\ run[r].at \in 1 .. Len(Script[run[r].script].steps)

HasVerifier(q) == q # Idle /\ "verifier" \in Done(q)

\* No two runs have the same new verifier.
OwnVerifiers ==
  \A r, x \in Runs :
    r # x /\ HasVerifier(run[r]) /\ HasVerifier(run[x]) => run[r].verifier # run[x].verifier

ChainOk ==
  /\ Shapes(pools, verifiers, protocols)
  /\ \A p \in 1 .. Len(pools) : PoolOk(verifiers, protocols, pools[p])
  /\ blsKeys \subseteq 1 .. Len(protocols)
  /\ registryRoot \in Roots

FilesOk ==
  /\ FileOk(pools, verifiers, protocols, rootFile)
  /\ FileOk(pools, verifiers, protocols, publicFile)

CountersOk == started \in 0 .. MaxStarts

\* A mode that was detected stays right.
IssuerOk ==
  /\ issuer \in {"demo", "registry", "detected"}
  /\ issuer = "detected" => registryRoot = getRegistryRoot

IInv == ChainOk /\ FilesOk /\ CountersOk /\ IssuerOk /\ RunsOk /\ OwnVerifiers

\* Contracts come into being, verifiers get keys and protocols get ready.
Grows(ps, vs, aps, ps2, vs2, aps2) ==
  /\ Len(ps) <= Len(ps2) /\ \A i \in 1 .. Len(ps) : ps2[i] = ps[i]
  /\ Len(vs) <= Len(vs2) /\ \A i \in 1 .. Len(vs) : vs[i] # "none" => vs2[i] # "none"
  /\ Len(aps) <= Len(aps2) /\ \A i \in 1 .. Len(aps) : aps[i] = "ready" => aps2[i] = "ready"

-----------------------------------------------------------------------------
(***************************************************************************)
(* The order of the steps.                                                 *)
(***************************************************************************)

IsAt(q) == q.script \in Scripts /\ q.at \in 1 .. Len(Script[q.script].steps)

\* What the steps of the scripts are.
LEMMA ScriptSteps ==
  /\ Scripts = {"v8", "v9", "v10", "v11", "v12", "attest", "bls", "root"}
  /\ Script["v8"].steps = ReusesVerifier /\ Script["v9"].steps = ReusesVerifier
  /\ Script["v10"].steps = ReusesVerifier /\ Script["v11"].steps = ReusesVerifier
  /\ Script["v12"].steps =
       <<"confirm", "load", "verifier", "key", "pool", "write", "publish">>
  /\ Script["attest"].steps =
       <<"protocol", "initialize", "register", "load", "write", "publish">>
  /\ Script["bls"].steps = <<"confirm", "bls", "load", "write", "publish">>
  /\ Script["root"].steps = <<"load", "ask", "push", "write">>
  BY DEF Scripts, Script, V8, V9, V10, V11, V12, DeployAttest, RegisterBls, SetRegistryRoot

\* Which steps are behind a run, from the step it is at.
Order(q) ==
  /\ Now(q) = "pool" => {"confirm", "load"} \subseteq Done(q)
                        /\ (q.script = "v12" => {"verifier", "key"} \subseteq Done(q))
  /\ Now(q) = "key" => q.script = "v12" /\ "verifier" \in Done(q)
                       /\ Done(q) \cap {"key", "pool"} = {}
  /\ Now(q) = "verifier" => Done(q) \cap {"verifier", "key", "pool"} = {}
  /\ Now(q) = "load" => "pool" \notin Done(q)
  /\ Now(q) \in {"initialize", "register"} => "protocol" \in Done(q)
  /\ Now(q) = "protocol" => Done(q) = {}
  /\ Now(q) = "bls" => "confirm" \in Done(q)
  /\ Now(q) = "push" => "ask" \in Done(q)
  /\ Now(q) = "write" => "load" \in Done(q)
                         /\ (q.script \in {"v11", "v12"} => "pool" \in Done(q))
                         /\ (q.script = "v12" => {"verifier", "key"} \subseteq Done(q))
                         /\ (q.script = "attest" => "register" \in Done(q))
  /\ Now(q) = "publish" => "load" \in Done(q)

\* The scripts do their steps in this order.
LEMMA StepsInOrder == ASSUME NEW q, IsAt(q) PROVE Order(q)
<1>1. \A s : s \in Done(q) <=> \E i \in 1 .. q.at - 1 : s = Script[q.script].steps[i]
  BY DEF Done
<1>2. CASE q.script \in {"v8", "v9", "v10", "v11"}
  <2>1. Script[q.script].steps = <<"confirm", "load", "pool", "write", "publish">>
    BY <1>2, ScriptSteps DEF ReusesVerifier
  <2> QED
    BY <1>1, <1>2, <2>1 DEF Order, Now, IsAt
<1>3. CASE q.script = "v12"
  BY <1>1, <1>3, ScriptSteps DEF Order, Now, IsAt
<1>4. CASE q.script = "attest"
  BY <1>1, <1>4, ScriptSteps DEF Order, Now, IsAt
<1>5. CASE q.script = "bls"
  BY <1>1, <1>5, ScriptSteps DEF Order, Now, IsAt
<1>6. CASE q.script = "root"
  BY <1>1, <1>6, ScriptSteps DEF Order, Now, IsAt
<1> QED
  BY <1>2, <1>3, <1>4, <1>5, <1>6, ScriptSteps DEF IsAt

\* A run that goes on has one more step behind it.
LEMMA OneStepFurther ==
  ASSUME NEW q, IsAt(q), NEW n, n.script = q.script, n.at = q.at + 1
  PROVE  Done(n) = Done(q) \cup {Now(q)}
<1>1. q.at \in Nat \ {0} /\ n.at - 1 = q.at
  BY DEF IsAt
<1>2. 1 .. q.at = (1 .. q.at - 1) \cup {q.at}
  BY <1>1
<1> QED
  BY <1>1, <1>2 DEF Done, Now

-----------------------------------------------------------------------------
(***************************************************************************)
(* What is so stays so while contracts come into being and get ready.      *)
(***************************************************************************)

\* The numbers of contracts.
LEMMA Lengths ==
  ASSUME NEW ps, NEW vs, NEW aps, Shapes(ps, vs, aps)
  PROVE  Len(ps) \in Nat /\ Len(vs) \in Nat /\ Len(aps) \in Nat
<1>1. \A S, s : s \in Seq(S) => Len(s) \in Nat
  BY LenProperties
<1> QED
  BY <1>1 DEF Shapes

\* A chain that stays as it is grows, trivially.
LEMMA NothingChanges ==
  ASSUME Shapes(pools, verifiers, protocols)
  PROVE  Grows(pools, verifiers, protocols, pools, verifiers, protocols)
  BY DEF Shapes, Grows

\* A pool that is in order stays in order.
LEMMA GrowthKeepsPools ==
  ASSUME NEW ps, NEW vs, NEW aps, NEW ps2, NEW vs2, NEW aps2, Shapes(ps, vs, aps),
         Shapes(ps2, vs2, aps2), Grows(ps, vs, aps, ps2, vs2, aps2),
         NEW p, PoolOk(vs, aps, p)
  PROVE  PoolOk(vs2, aps2, p)
<1>1. Len(vs) \in Nat /\ Len(aps) \in Nat /\ Len(vs2) \in Nat /\ Len(aps2) \in Nat
  BY Lengths
<1> QED
  BY <1>1 DEF Grows, PoolOk, HasKey, Ready

\* Contracts that exist go on existing.
LEMMA GrowthKeepsIds ==
  ASSUME NEW ps, NEW vs, NEW aps, NEW ps2, NEW vs2, NEW aps2, Shapes(ps, vs, aps),
         Shapes(ps2, vs2, aps2), Grows(ps, vs, aps, ps2, vs2, aps2)
  PROVE  /\ 1 .. Len(ps) \subseteq 1 .. Len(ps2)
         /\ 1 .. Len(vs) \subseteq 1 .. Len(vs2)
         /\ 1 .. Len(aps) \subseteq 1 .. Len(aps2)
         /\ IdFile(ps, vs, aps) \subseteq IdFile(ps2, vs2, aps2)
         /\ RunType(ps, vs, aps) \subseteq RunType(ps2, vs2, aps2)
<1>1. /\ 1 .. Len(ps) \subseteq 1 .. Len(ps2)
      /\ 1 .. Len(vs) \subseteq 1 .. Len(vs2)
      /\ 1 .. Len(aps) \subseteq 1 .. Len(aps2)
  BY Lengths DEF Grows
<1>2. IdFile(ps, vs, aps) \subseteq IdFile(ps2, vs2, aps2)
  BY <1>1 DEF IdFile
<1>3. RunType(ps, vs, aps) \subseteq RunType(ps2, vs2, aps2)
  BY <1>1, <1>2 DEF RunType
<1> QED
  BY <1>1, <1>2, <1>3

\* A file that is in order stays in order.
LEMMA GrowthKeepsFiles ==
  ASSUME NEW ps, NEW vs, NEW aps, NEW ps2, NEW vs2, NEW aps2, Shapes(ps, vs, aps),
         Shapes(ps2, vs2, aps2), Grows(ps, vs, aps, ps2, vs2, aps2),
         NEW f, FileOk(ps, vs, aps, f)
  PROVE  FileOk(ps2, vs2, aps2, f)
<1>1. f.pool \in 1 .. Len(ps)
  BY DEF FileOk, IdFile
<1>2. ps2[f.pool] = ps[f.pool]
  BY <1>1 DEF Grows
<1>3. f \in IdFile(ps2, vs2, aps2)
  BY GrowthKeepsIds DEF FileOk
<1>4. ps2[f.pool].verifier = f.verifier
  BY <1>2 DEF FileOk
<1>5. HasKey(vs2, f.verifier)
  <2>1. f.verifier \in 1 .. Len(vs) /\ vs[f.verifier] # "none"
    BY DEF FileOk, HasKey
  <2> QED
    BY <2>1, Lengths DEF Grows, HasKey
<1>6. Ready(aps2, f.protocol)
  <2>1. f.protocol \in 1 .. Len(aps) /\ aps[f.protocol] = "ready"
    BY DEF FileOk, Ready
  <2> QED
    BY <2>1, Lengths DEF Grows, Ready
<1> QED
  BY <1>3, <1>4, <1>5, <1>6 DEF FileOk

\* What a run knows stays true.
LEMMA GrowthKeepsRuns ==
  ASSUME NEW ps, NEW vs, NEW aps, NEW ps2, NEW vs2, NEW aps2, Shapes(ps, vs, aps),
         Shapes(ps2, vs2, aps2), Grows(ps, vs, aps, ps2, vs2, aps2),
         NEW q, NEW done, RunOk(ps, vs, aps, q, done)
  PROVE  RunOk(ps2, vs2, aps2, q, done)
<1>1. "pool" \in done => ps2[q.pool] = ps[q.pool]
  BY DEF RunOk, Grows
<1>2. "load" \in done => FileOk(ps2, vs2, aps2, q.file)
  BY GrowthKeepsFiles DEF RunOk
<1>3. \A a : Ready(aps, a) => Ready(aps2, a)
  BY GrowthKeepsIds DEF Ready, Grows
<1>4. "verifier" \in done /\ "key" \in done => vs2[q.verifier] # "none"
  BY DEF RunOk, Grows
<1> QED
  BY <1>1, <1>2, <1>3, <1>4, GrowthKeepsIds DEF RunOk

-----------------------------------------------------------------------------
(***************************************************************************)
(* A step of one run.                                                      *)
(***************************************************************************)

\* The run r becomes n.
LEMMA RunMoves ==
  ASSUME IInv, NEW r \in Runs, NEW n, Set(r, n),
         Shapes(pools', verifiers', protocols'),
         Grows(pools, verifiers, protocols, pools', verifiers', protocols'),
         \/ n = Idle
         \/ /\ RunOk(pools', verifiers', protocols', n, Done(n))
            /\ n.at \in 1 .. Len(Script[n.script].steps),
         \A x \in Runs : x # r /\ HasVerifier(run[x]) /\ HasVerifier(n) =>
           n.verifier # run[x].verifier
  PROVE  RunsOk' /\ OwnVerifiers'
<1>1. DOMAIN run' = Runs /\ run'[r] = n /\ \A x \in Runs : x # r => run'[x] = run[x]
  BY DEF IInv, RunsOk, Set
<1>2. ASSUME NEW x \in Runs, x # r, run[x] # Idle
      PROVE  RunOk(pools', verifiers', protocols', run[x], Done(run[x]))
  <2>1. RunOk(pools, verifiers, protocols, run[x], Done(run[x]))
    BY <1>2 DEF IInv, RunsOk
  <2> QED
    BY <2>1, GrowthKeepsRuns DEF IInv, ChainOk
<1>3. RunsOk'
  <2> SUFFICES ASSUME NEW x \in Runs, run'[x] # Idle
               PROVE  /\ RunOk(pools', verifiers', protocols', run'[x], Done(run'[x]))
                      /\ run'[x].at \in 1 .. Len(Script[run'[x].script].steps)
    BY <1>1 DEF RunsOk
  <2>1. CASE x = r
    BY <1>1, <2>1
  <2>2. CASE x # r
    BY <1>1, <1>2, <2>2 DEF IInv, RunsOk
  <2> QED
    BY <2>1, <2>2
<1>4. OwnVerifiers'
  BY <1>1 DEF OwnVerifiers, IInv
<1> QED
  BY <1>3, <1>4

\* The same for a run that goes on with what q says.
LEMMA RunGoesOn ==
  ASSUME IInv, NEW r \in Runs, run[r] # Idle, NEW q, Go(r, q),
         q.script = run[r].script, q.at = run[r].at,
         Shapes(pools', verifiers', protocols'),
         Grows(pools, verifiers, protocols, pools', verifiers', protocols'),
         RunOk(pools', verifiers', protocols', q, Done(run[r]) \cup {Now(run[r])}),
         \A x \in Runs :
           /\ x # r /\ HasVerifier(run[x])
           /\ "verifier" \in Done(run[r]) \cup {Now(run[r])}
           => q.verifier # run[x].verifier
  PROVE  RunsOk' /\ OwnVerifiers'
<1> DEFINE n == [q EXCEPT !.at = @ + 1, !.tries = 0]
           done == Done(run[r]) \cup {Now(run[r])}
<1>1. IsAt(run[r])
  BY DEF IInv, RunsOk, RunOk, RunType, IsAt
<1>2. q \in RunType(pools', verifiers', protocols')
  BY DEF RunOk
<1>3. /\ n \in RunType(pools', verifiers', protocols')
      /\ n.script = q.script /\ n.at = q.at + 1 /\ n.file = q.file
      /\ n.protocol = q.protocol /\ n.verifier = q.verifier /\ n.pool = q.pool
      /\ n.root = q.root
  <2>1. 0 \in 0 .. MaxAttempts - 1 /\ \A k \in Nat : k + 1 \in Nat
    BY DeploymentAssumption DEF DeploymentAssumption
  <2> QED
    BY <1>2, <2>1 DEF RunType
<1> HIDE DEF n
<1>4. Done(n) = done
  BY <1>1, <1>3, OneStepFurther
<1>5. RunOk(pools', verifiers', protocols', n, Done(n))
  <2>1. VerifierOf(n) = VerifierOf(q)
    BY <1>3 DEF VerifierOf
  <2> QED
    BY <1>3, <1>4, <2>1 DEF RunOk
<1>6. CASE q.at = Len(Steps(r))
  <2>1. Set(r, Idle)
    BY <1>6 DEF Go
  <2>2. \A x \in Runs : x # r /\ HasVerifier(run[x]) /\ HasVerifier(Idle) =>
          Idle.verifier # run[x].verifier
    BY DEF HasVerifier
  <2> QED
    BY <2>1, <2>2, RunMoves
<1>7. CASE q.at # Len(Steps(r))
  <2>1. Set(r, n)
    BY <1>7 DEF Go, n
  <2>2. n.at \in 1 .. Len(Script[n.script].steps)
    BY <1>1, <1>3, <1>7 DEF IsAt, Steps
  <2>3. \A x \in Runs : x # r /\ HasVerifier(run[x]) /\ HasVerifier(n) =>
          n.verifier # run[x].verifier
    BY <1>3, <1>4 DEF HasVerifier
  <2> QED
    BY <1>5, <2>1, <2>2, <2>3, RunMoves
<1> QED
  BY <1>6, <1>7

\* What a step does to the run that takes it is judged with these facts.
LEMMA AtStep ==
  ASSUME IInv, NEW r \in Runs, NEW step, Doing(r, step)
  PROVE  /\ run[r] # Idle /\ IsAt(run[r]) /\ Now(run[r]) = step /\ Order(run[r])
         /\ RunOk(pools, verifiers, protocols, run[r], Done(run[r]))
<1>1. run[r] # Idle /\ Now(run[r]) = step
  BY DEF Doing, Now, Steps
<1>2. /\ RunOk(pools, verifiers, protocols, run[r], Done(run[r]))
      /\ run[r].at \in 1 .. Len(Script[run[r].script].steps)
  BY <1>1 DEF IInv, RunsOk
<1>3. IsAt(run[r])
  BY <1>2 DEF IsAt, RunOk, RunType
<1> QED
  BY <1>1, <1>2, <1>3, StepsInOrder

\* A step that leaves the chain alone and may write a file.
LEMMA QuietStep ==
  ASSUME IInv, NEW r \in Runs, run[r] # Idle, NEW q, Go(r, q),
         q.script = run[r].script, q.at = run[r].at,
         UNCHANGED <<pools, verifiers, protocols>>,
         RunOk(pools, verifiers, protocols, q, Done(run[r]) \cup {Now(run[r])}),
         q.verifier = run[r].verifier, Now(run[r]) # "verifier"
  PROVE  RunsOk' /\ OwnVerifiers'
<1>1. Shapes(pools', verifiers', protocols')
  BY DEF IInv, ChainOk
<1>2. Grows(pools, verifiers, protocols, pools', verifiers', protocols')
  BY NothingChanges DEF IInv, ChainOk
<1>3. \A x \in Runs : x # r /\ HasVerifier(run[x]) /\ "verifier" \in Done(run[r]) \cup {Now(run[r])} =>
        q.verifier # run[x].verifier
  BY DEF IInv, OwnVerifiers, HasVerifier
<1> QED
  BY <1>1, <1>2, <1>3, RunGoesOn

\* Everything but the runs is as it was.
LEMMA OnlyRunsChange ==
  ASSUME IInv, UNCHANGED <<chainVars, offChainVars>>, RunsOk' /\ OwnVerifiers'
  PROVE  IInv'
  BY DEF IInv, ChainOk, FilesOk, CountersOk, IssuerOk, chainVars, offChainVars

-----------------------------------------------------------------------------
(***************************************************************************)
(* Beginning, reading and breaking off.                                    *)
(***************************************************************************)

\* A run that begins knows nothing yet.
LEMMA StartStep ==
  ASSUME IInv, NEW r \in Runs, NEW s \in Used, Start(r, s)
  PROVE  IInv'
<1> DEFINE n == [script |-> s, at |-> 1, tries |-> 0, file |-> NoFile, protocol |-> None,
                 verifier |-> None, pool |-> None, root |-> Zero]
<1>1. s \in Scripts
  BY DeploymentAssumption, ScriptSteps DEF DeploymentAssumption
<1>2. 1 \in 1 .. Len(Script[s].steps)
  <2>1. CASE s \in {"v8", "v9", "v10", "v11"}
    <3>1. Script[s].steps = <<"confirm", "load", "pool", "write", "publish">>
      BY <2>1, ScriptSteps DEF ReusesVerifier
    <3> QED
      BY <3>1
  <2>2. CASE s = "v12"
    BY <2>2, ScriptSteps
  <2>3. CASE s = "attest"
    BY <2>3, ScriptSteps
  <2>4. CASE s = "bls"
    BY <2>4, ScriptSteps
  <2>5. CASE s = "root"
    BY <2>5, ScriptSteps
  <2> QED
    BY <1>1, <2>1, <2>2, <2>3, <2>4, <2>5, ScriptSteps
<1>3. Done(n) = {}
  BY DEF Done
<1>4. n \in RunType(pools, verifiers, protocols)
  <2>1. 0 \in 0 .. MaxAttempts - 1
    BY DeploymentAssumption DEF DeploymentAssumption
  <2> QED
    BY <1>1, <2>1 DEF RunType
<1>5. Set(r, n) /\ n.script = s /\ n.at = 1
  BY DEF Start
<1> HIDE DEF n
<1>6. RunOk(pools, verifiers, protocols, n, Done(n))
  BY <1>3, <1>4 DEF RunOk
<1>7. UNCHANGED <<pools, verifiers, protocols>>
  BY DEF Start, chainVars
<1>8. Shapes(pools', verifiers', protocols')
  BY <1>7 DEF IInv, ChainOk
<1>9. Grows(pools, verifiers, protocols, pools', verifiers', protocols')
  BY <1>7, NothingChanges DEF IInv, ChainOk
<1>10. RunOk(pools', verifiers', protocols', n, Done(n))
  BY <1>6, <1>7
<1>11. \A x \in Runs : x # r /\ HasVerifier(run[x]) /\ HasVerifier(n) =>
         n.verifier # run[x].verifier
  BY <1>3, <1>7 DEF HasVerifier
<1>12. RunsOk' /\ OwnVerifiers'
  BY <1>2, <1>5, <1>8, <1>9, <1>10, <1>11, RunMoves
<1>13. started' \in 0 .. MaxStarts
  BY DeploymentAssumption DEF Start, IInv, CountersOk, DeploymentAssumption
<1> QED
  BY <1>12, <1>13 DEF IInv, ChainOk, FilesOk, CountersOk, IssuerOk, Start, chainVars

\* The AttestProtocol that the issuer names is ready.
LEMMA ConfirmStep ==
  ASSUME IInv, NEW r \in Runs, Confirm(r)
  PROVE  IInv'
<1> DEFINE q == [run[r] EXCEPT !.protocol = ConfiguredProtocol]
           done == Done(run[r]) \cup {Now(run[r])}
<1>1. /\ run[r] # Idle /\ Now(run[r]) = "confirm"
      /\ RunOk(pools, verifiers, protocols, run[r], Done(run[r]))
  BY AtStep DEF Confirm
<1>2. Go(r, q) /\ UNCHANGED <<chainVars, offChainVars>>
  BY DEF Confirm
<1>3. Ready(protocols, rootFile.protocol)
  BY DEF IInv, FilesOk, FileOk
<1>4. /\ q \in RunType(pools, verifiers, protocols)
      /\ q.script = run[r].script /\ q.at = run[r].at /\ q.file = run[r].file
      /\ q.protocol = rootFile.protocol /\ q.verifier = run[r].verifier
      /\ q.pool = run[r].pool /\ q.root = run[r].root
  BY <1>1, <1>3 DEF RunOk, RunType, Ready, ConfiguredProtocol
<1> HIDE DEF q
<1>5. RunOk(pools, verifiers, protocols, q, done)
  BY <1>1, <1>3, <1>4 DEF RunOk, Ready, VerifierOf
<1> QED
  BY <1>1, <1>2, <1>4, <1>5, QuietStep, OnlyRunsChange DEF chainVars

\* The file that a run loads is in order.
LEMMA LoadStep ==
  ASSUME IInv, NEW r \in Runs, Load(r)
  PROVE  IInv'
<1> DEFINE q == [run[r] EXCEPT !.file = rootFile]
           done == Done(run[r]) \cup {Now(run[r])}
<1>1. /\ run[r] # Idle /\ Now(run[r]) = "load" /\ "pool" \notin Done(run[r])
      /\ RunOk(pools, verifiers, protocols, run[r], Done(run[r]))
  BY AtStep DEF Load, Order
<1>2. Go(r, q) /\ UNCHANGED <<chainVars, offChainVars>>
  BY DEF Load
<1>3. FileOk(pools, verifiers, protocols, rootFile)
  BY DEF IInv, FilesOk
<1>4. /\ q \in RunType(pools, verifiers, protocols)
      /\ q.script = run[r].script /\ q.at = run[r].at /\ q.file = rootFile
      /\ q.protocol = run[r].protocol /\ q.verifier = run[r].verifier
      /\ q.pool = run[r].pool /\ q.root = run[r].root
  BY <1>1, <1>3 DEF RunOk, RunType, FileOk
<1> HIDE DEF q
<1>5. RunOk(pools, verifiers, protocols, q, done)
  BY <1>1, <1>3, <1>4 DEF RunOk
<1> QED
  BY <1>1, <1>2, <1>4, <1>5, QuietStep, OnlyRunsChange DEF chainVars

\* The root that an issuer in registry mode answers, for either side.
LEMMA RootOfRegistry == \A side : complianceKycInputs("registry", side).root = getRegistryRoot
  BY DEF complianceKycInputs, getAttestationForSide

\* A run that asks an issuer in the other mode ends there.
LEMMA AskStep ==
  ASSUME IInv, NEW r \in Runs, Ask(r)
  PROVE  IInv'
<1> DEFINE root == complianceKycInputs(Mode, "send").root
           q == [run[r] EXCEPT !.root = root]
           done == Done(run[r]) \cup {Now(run[r])}
<1>1. /\ run[r] # Idle /\ Now(run[r]) = "ask"
      /\ RunOk(pools, verifiers, protocols, run[r], Done(run[r]))
  BY AtStep DEF Ask
<1>2. Go(r, q) /\ UNCHANGED <<chainVars, offChainVars>>
  BY DEF Ask
<1>3. root = getRegistryRoot /\ root \in Roots
  BY RootOfRegistry DEF Ask, Roots
<1> HIDE DEF root
<1>4. /\ q \in RunType(pools, verifiers, protocols)
      /\ q.script = run[r].script /\ q.at = run[r].at /\ q.file = run[r].file
      /\ q.protocol = run[r].protocol /\ q.verifier = run[r].verifier
      /\ q.pool = run[r].pool /\ q.root = root
  BY <1>1, <1>3 DEF RunOk, RunType
<1> HIDE DEF q
<1>5. RunOk(pools, verifiers, protocols, q, done)
  BY <1>1, <1>3, <1>4 DEF RunOk, VerifierOf
<1> QED
  BY <1>1, <1>2, <1>4, <1>5, QuietStep, OnlyRunsChange DEF chainVars

\* Stop, and whatever else ends a run and leaves the rest.
LEMMA EndOfRun ==
  ASSUME IInv, NEW r \in Runs, Set(r, Idle), UNCHANGED <<chainVars, offChainVars>>
  PROVE  IInv'
<1>1. Shapes(pools', verifiers', protocols')
  BY DEF IInv, ChainOk, chainVars
<1>2. Grows(pools, verifiers, protocols, pools', verifiers', protocols')
  BY NothingChanges DEF IInv, ChainOk, chainVars
<1>3. \A x \in Runs : x # r /\ HasVerifier(run[x]) /\ HasVerifier(Idle) =>
        Idle.verifier # run[x].verifier
  BY DEF HasVerifier, chainVars
<1> QED
  BY <1>1, <1>2, <1>3, RunMoves, OnlyRunsChange

\* Trying again is no step.
LEMMA RetryStep ==
  ASSUME IInv, NEW r \in Runs, Retry(r)
  PROVE  IInv'
<1> DEFINE n == [run[r] EXCEPT !.tries = @ + 1]
<1>1. /\ run[r] # Idle /\ IsAt(run[r])
      /\ RunOk(pools, verifiers, protocols, run[r], Done(run[r]))
  BY AtStep DEF Retry
<1>2. Set(r, n) /\ UNCHANGED <<chainVars, offChainVars>>
  BY DEF Retry
<1>3. run[r].tries + 1 \in 0 .. MaxAttempts - 1
  BY <1>1, DeploymentAssumption DEF Retry, RunOk, RunType, DeploymentAssumption
<1>4. /\ n \in RunType(pools, verifiers, protocols)
      /\ n.script = run[r].script /\ n.at = run[r].at /\ n.file = run[r].file
      /\ n.protocol = run[r].protocol /\ n.verifier = run[r].verifier
      /\ n.pool = run[r].pool /\ n.root = run[r].root
  BY <1>1, <1>3 DEF RunOk, RunType
<1> HIDE DEF n
<1>5. Done(n) = Done(run[r])
  BY <1>4 DEF Done
<1>6. RunOk(pools, verifiers, protocols, n, Done(n))
  BY <1>1, <1>4, <1>5 DEF RunOk, VerifierOf
<1>7. RunOk(pools', verifiers', protocols', n, Done(n))
  BY <1>2, <1>6 DEF chainVars
<1>8. n.at \in 1 .. Len(Script[n.script].steps)
  BY <1>1, <1>4 DEF IsAt
<1>9. Shapes(pools', verifiers', protocols')
  BY <1>2 DEF IInv, ChainOk, chainVars
<1>10. Grows(pools, verifiers, protocols, pools', verifiers', protocols')
  BY <1>2, NothingChanges DEF IInv, ChainOk, chainVars
<1>11. \A x \in Runs : x # r /\ HasVerifier(run[x]) /\ HasVerifier(n) =>
         n.verifier # run[x].verifier
  BY <1>1, <1>2, <1>4, <1>5 DEF HasVerifier, IInv, OwnVerifiers, chainVars
<1>12. RunsOk' /\ OwnVerifiers'
  BY <1>2, <1>7, <1>8, <1>9, <1>10, <1>11, RunMoves
<1> QED
  BY <1>2, <1>12, OnlyRunsChange

-----------------------------------------------------------------------------
(***************************************************************************)
(* Transactions.                                                           *)
(***************************************************************************)

\* A step that changes the chain as far as a run can tell.
LEMMA ChainStep ==
  ASSUME IInv, Shapes(pools', verifiers', protocols'),
         Grows(pools, verifiers, protocols, pools', verifiers', protocols'),
         \A p \in 1 .. Len(pools') : p \notin 1 .. Len(pools) =>
           PoolOk(verifiers', protocols', pools'[p]),
         blsKeys' \subseteq 1 .. Len(protocols'),
         registryRoot' \in {registryRoot, getRegistryRoot},
         UNCHANGED offChainVars, RunsOk' /\ OwnVerifiers'
  PROVE  IInv'
<1>1. \A p \in 1 .. Len(pools) : PoolOk(verifiers', protocols', pools[p])
  BY GrowthKeepsPools DEF IInv, ChainOk
<1>2. \A p \in 1 .. Len(pools') : PoolOk(verifiers', protocols', pools'[p])
  BY <1>1 DEF Grows
<1>3. FilesOk'
  BY GrowthKeepsFiles DEF IInv, ChainOk, FilesOk, offChainVars
<1> QED
  BY <1>2, <1>3 DEF IInv, ChainOk, CountersOk, IssuerOk, Roots, offChainVars

\* The new verifier is nobody else's.
LEMMA DeployVerifierStep ==
  ASSUME IInv, NEW r \in Runs, DeployVerifier(r)
  PROVE  IInv'
<1> DEFINE q == [run[r] EXCEPT !.verifier = Len(verifiers) + 1]
           done == Done(run[r]) \cup {Now(run[r])}
<1>1. /\ run[r] # Idle /\ Now(run[r]) = "verifier"
      /\ Done(run[r]) \cap {"verifier", "key", "pool"} = {}
      /\ RunOk(pools, verifiers, protocols, run[r], Done(run[r]))
  BY AtStep DEF DeployVerifier, Order
<1>2. /\ Go(r, q) /\ verifiers' = Append(verifiers, "none")
      /\ UNCHANGED <<pools, protocols, blsKeys, registryRoot, offChainVars>>
  BY DEF DeployVerifier
<1>3. /\ Len(verifiers) \in Nat /\ Len(verifiers') = Len(verifiers) + 1
      /\ verifiers' \in Seq(Keys)
      /\ \A i \in 1 .. Len(verifiers) : verifiers'[i] = verifiers[i]
  <2>1. verifiers \in Seq(Keys) /\ "none" \in Keys
    BY DEF IInv, ChainOk, Shapes, Keys
  <2> QED
    BY <1>2, <2>1, LenProperties, AppendProperties
<1>4. Shapes(pools', verifiers', protocols')
  BY <1>2, <1>3 DEF IInv, ChainOk, Shapes
<1>5. Grows(pools, verifiers, protocols, pools', verifiers', protocols')
  BY <1>2, <1>3, Lengths DEF IInv, ChainOk, Grows
<1>6. RunOk(pools', verifiers', protocols', run[r], Done(run[r]))
  BY <1>1, <1>4, <1>5, GrowthKeepsRuns DEF IInv, ChainOk
<1>7. /\ q \in RunType(pools', verifiers', protocols')
      /\ q.script = run[r].script /\ q.at = run[r].at /\ q.file = run[r].file
      /\ q.protocol = run[r].protocol /\ q.verifier = Len(verifiers) + 1
      /\ q.pool = run[r].pool /\ q.root = run[r].root
  BY <1>3, <1>6 DEF RunOk, RunType
<1> HIDE DEF q
<1>8. RunOk(pools', verifiers', protocols', q, done)
  BY <1>1, <1>3, <1>6, <1>7 DEF RunOk
<1>9. \A x \in Runs : x # r /\ HasVerifier(run[x]) /\ "verifier" \in done =>
        q.verifier # run[x].verifier
  BY <1>3, <1>7 DEF HasVerifier, IInv, RunsOk, RunOk
<1>10. RunsOk' /\ OwnVerifiers'
  BY <1>1, <1>2, <1>4, <1>5, <1>7, <1>8, <1>9, RunGoesOn
<1> QED
  BY <1>2, <1>4, <1>5, <1>10, ChainStep DEF IInv, ChainOk

\* A verifier that exists gets a key.
LEMMA KeyStep ==
  ASSUME IInv, NEW v \in 1 .. Len(verifiers), NEW key \in Keys \ {"none"},
         verifiers' = [verifiers EXCEPT ![v] = key], UNCHANGED <<pools, protocols>>
  PROVE  /\ Shapes(pools', verifiers', protocols')
         /\ Grows(pools, verifiers, protocols, pools', verifiers', protocols')
         /\ verifiers'[v] = key /\ Len(verifiers') = Len(verifiers)
<1>1. /\ verifiers' \in Seq(Keys) /\ Len(verifiers') = Len(verifiers)
      /\ verifiers'[v] = key
      /\ \A i \in 1 .. Len(verifiers) : i # v => verifiers'[i] = verifiers[i]
  <2>1. verifiers \in Seq(Keys)
    BY DEF IInv, ChainOk, Shapes
  <2> QED
    BY <2>1, ExceptSeq
<1> QED
  BY <1>1, Lengths DEF IInv, ChainOk, Shapes, Grows

\* The verifier of a run gets its key.
LEMMA SetVkStep ==
  ASSUME IInv, NEW r \in Runs, SetVk(r)
  PROVE  IInv'
<1> DEFINE done == Done(run[r]) \cup {Now(run[r])}
           v == run[r].verifier
<1>1. /\ run[r] # Idle /\ Now(run[r]) = "key" /\ "verifier" \in Done(run[r])
      /\ Done(run[r]) \cap {"key", "pool"} = {}
      /\ RunOk(pools, verifiers, protocols, run[r], Done(run[r]))
  BY AtStep DEF SetVk, Order
<1>2. /\ Go(r, run[r]) /\ verifiers' = [verifiers EXCEPT ![v] = "eight"]
      /\ UNCHANGED <<pools, protocols, blsKeys, registryRoot, offChainVars>>
  BY DEF SetVk
<1>3. v \in 1 .. Len(verifiers)
  BY <1>1 DEF RunOk
<1>4. /\ Shapes(pools', verifiers', protocols')
      /\ Grows(pools, verifiers, protocols, pools', verifiers', protocols')
      /\ verifiers'[v] = "eight"
  BY <1>2, <1>3, KeyStep DEF Keys
<1>5. RunOk(pools', verifiers', protocols', run[r], Done(run[r]))
  BY <1>1, <1>4, GrowthKeepsRuns DEF IInv, ChainOk
<1>6. RunOk(pools', verifiers', protocols', run[r], done)
  BY <1>1, <1>4, <1>5 DEF RunOk
<1>7. \A x \in Runs : x # r /\ HasVerifier(run[x]) => run[x].verifier # v
  BY <1>1 DEF HasVerifier, IInv, OwnVerifiers
<1>8. RunsOk' /\ OwnVerifiers'
  BY <1>1, <1>2, <1>4, <1>6, <1>7, RunGoesOn
<1> QED
  BY <1>2, <1>4, <1>8, ChainStep DEF IInv, ChainOk

\* Anybody gives a verifier a key: what the runs know stays true.
LEMMA AnybodySetsVkStep ==
  ASSUME IInv, NEW v, NEW key \in OutsideKeys, AnybodySetsVk(v, key)
  PROVE  IInv'
<1>1. /\ verifiers' = [verifiers EXCEPT ![v] = key]
      /\ UNCHANGED <<pools, protocols, blsKeys, registryRoot, offChainVars, run>>
  BY DEF AnybodySetsVk
<1>2. v \in 1 .. Len(verifiers)
  BY LenProperties DEF AnybodySetsVk, IInv, ChainOk, Shapes
<1>3. key \in Keys \ {"none"}
  BY DeploymentAssumption DEF DeploymentAssumption, Keys
<1>4. /\ Shapes(pools', verifiers', protocols')
      /\ Grows(pools, verifiers, protocols, pools', verifiers', protocols')
  BY <1>1, <1>2, <1>3, KeyStep
<1>5. ASSUME NEW r \in Runs, run[r] # Idle
      PROVE  RunOk(pools', verifiers', protocols', run[r], Done(run[r]))
  <2>1. RunOk(pools, verifiers, protocols, run[r], Done(run[r]))
    BY <1>5 DEF IInv, RunsOk
  <2> QED
    BY <1>4, <2>1, GrowthKeepsRuns DEF IInv, ChainOk
<1>6. RunsOk' /\ OwnVerifiers'
  BY <1>1, <1>5 DEF IInv, RunsOk, OwnVerifiers
<1> QED
  BY <1>1, <1>4, <1>6, ChainStep DEF IInv, ChainOk

\* The new pool has a verifier with a key and an AttestProtocol that is ready.
LEMMA DeployPoolStep ==
  ASSUME IInv, NEW r \in Runs, DeployPool(r)
  PROVE  IInv'
<1> DEFINE new == [by |-> run[r].script, verifier |-> VerifierOf(run[r]),
                   protocol |-> run[r].protocol]
           q == [run[r] EXCEPT !.pool = Len(pools) + 1]
           done == Done(run[r]) \cup {Now(run[r])}
<1>1. /\ run[r] # Idle /\ Now(run[r]) = "pool"
      /\ {"confirm", "load"} \subseteq Done(run[r])
      /\ run[r].script = "v12" => {"verifier", "key"} \subseteq Done(run[r])
      /\ RunOk(pools, verifiers, protocols, run[r], Done(run[r]))
  BY AtStep DEF DeployPool, Order
<1>2. /\ Go(r, q) /\ pools' = Append(pools, new)
      /\ UNCHANGED <<verifiers, protocols, blsKeys, registryRoot, offChainVars>>
  BY DEF DeployPool
<1>3. PoolOk(verifiers, protocols, new)
  <2>1. Ready(protocols, run[r].protocol) /\ FileOk(pools, verifiers, protocols, run[r].file)
    BY <1>1 DEF RunOk
  <2>2. CASE run[r].script = "v12"
    <3>1. run[r].verifier \in 1 .. Len(verifiers) /\ verifiers[run[r].verifier] # "none"
      BY <1>1, <2>2 DEF RunOk
    <3> QED
      BY <2>1, <2>2, <3>1 DEF PoolOk, HasKey, VerifierOf
  <2>3. CASE run[r].script # "v12"
    BY <2>1, <2>3 DEF PoolOk, HasKey, VerifierOf, FileOk
  <2> QED
    BY <2>2, <2>3
<1>4. new \in [by : Scripts, verifier : Nat, protocol : Nat]
  <2>1. run[r].script \in Scripts
    BY <1>1 DEF RunOk, RunType
  <2>2. new.verifier \in Nat /\ new.protocol \in Nat
    BY <1>3, Lengths DEF PoolOk, HasKey, Ready, IInv, ChainOk
  <2> QED
    BY <2>1, <2>2
<1>5. new.verifier = VerifierOf(run[r])
  OBVIOUS
<1> HIDE DEF new
<1>6. /\ Len(pools) \in Nat /\ Len(pools') = Len(pools) + 1
      /\ pools' \in Seq([by : Scripts, verifier : Nat, protocol : Nat])
      /\ \A i \in 1 .. Len(pools) : pools'[i] = pools[i]
      /\ pools'[Len(pools) + 1] = new
  <2>1. pools \in Seq([by : Scripts, verifier : Nat, protocol : Nat])
    BY DEF IInv, ChainOk, Shapes
  <2> QED
    BY <1>2, <1>4, <2>1, LenProperties, AppendProperties
<1>7. Shapes(pools', verifiers', protocols')
  BY <1>2, <1>6 DEF IInv, ChainOk, Shapes
<1>8. Grows(pools, verifiers, protocols, pools', verifiers', protocols')
  BY <1>2, <1>6, Lengths DEF IInv, ChainOk, Grows
<1>9. RunOk(pools', verifiers', protocols', run[r], Done(run[r]))
  BY <1>1, <1>2, <1>7, <1>8, GrowthKeepsRuns DEF IInv, ChainOk
<1>10. /\ q \in RunType(pools', verifiers', protocols')
       /\ q.script = run[r].script /\ q.at = run[r].at /\ q.file = run[r].file
       /\ q.protocol = run[r].protocol /\ q.verifier = run[r].verifier
       /\ q.pool = Len(pools) + 1 /\ q.root = run[r].root
  <2>1. Len(pools) + 1 \in 1 .. Len(pools')
    BY <1>6
  <2>2. run[r] \in RunType(pools', verifiers', protocols')
    BY <1>9 DEF RunOk
  <2> QED
    BY <2>1, <2>2 DEF RunType
<1> HIDE DEF q
<1>11. VerifierOf(q) = VerifierOf(run[r])
  BY <1>10 DEF VerifierOf
<1>12. RunOk(pools', verifiers', protocols', q, done)
  BY <1>1, <1>5, <1>6, <1>9, <1>10, <1>11 DEF RunOk
<1>13. \A x \in Runs : x # r /\ HasVerifier(run[x]) /\ "verifier" \in done =>
         q.verifier # run[x].verifier
  BY <1>1, <1>2, <1>10 DEF HasVerifier, IInv, OwnVerifiers
<1>14. RunsOk' /\ OwnVerifiers'
  BY <1>1, <1>2, <1>7, <1>8, <1>10, <1>12, <1>13, RunGoesOn
<1>15. \A p \in 1 .. Len(pools') : p \notin 1 .. Len(pools) =>
         PoolOk(verifiers', protocols', pools'[p])
  BY <1>2, <1>3, <1>6
<1> QED
  BY <1>2, <1>7, <1>8, <1>14, <1>15, ChainStep DEF IInv, ChainOk

\* A new AttestProtocol is named by no file.
LEMMA DeployProtocolStep ==
  ASSUME IInv, NEW r \in Runs, DeployProtocol(r)
  PROVE  IInv'
<1> DEFINE q == [run[r] EXCEPT !.protocol = Len(protocols) + 1]
           done == Done(run[r]) \cup {Now(run[r])}
<1>1. /\ run[r] # Idle /\ Now(run[r]) = "protocol" /\ Done(run[r]) = {}
      /\ RunOk(pools, verifiers, protocols, run[r], Done(run[r]))
  BY AtStep DEF DeployProtocol, Order
<1>2. /\ Go(r, q) /\ protocols' = Append(protocols, "deployed")
      /\ UNCHANGED <<pools, verifiers, blsKeys, registryRoot, offChainVars>>
  BY DEF DeployProtocol
<1>3. /\ Len(protocols) \in Nat /\ Len(protocols') = Len(protocols) + 1
      /\ protocols' \in Seq(Stages)
      /\ \A i \in 1 .. Len(protocols) : protocols'[i] = protocols[i]
  <2>1. protocols \in Seq(Stages) /\ "deployed" \in Stages
    BY DEF IInv, ChainOk, Shapes, Stages
  <2> QED
    BY <1>2, <2>1, LenProperties, AppendProperties
<1>4. Shapes(pools', verifiers', protocols')
  BY <1>2, <1>3 DEF IInv, ChainOk, Shapes
<1>5. Grows(pools, verifiers, protocols, pools', verifiers', protocols')
  BY <1>2, <1>3, Lengths DEF IInv, ChainOk, Grows
<1>6. RunOk(pools', verifiers', protocols', run[r], Done(run[r]))
  BY <1>1, <1>2, <1>4, <1>5, GrowthKeepsRuns DEF IInv, ChainOk
<1>7. /\ q \in RunType(pools', verifiers', protocols')
      /\ q.script = run[r].script /\ q.at = run[r].at
      /\ q.protocol = Len(protocols) + 1 /\ q.verifier = run[r].verifier
  BY <1>3, <1>6 DEF RunOk, RunType
<1> HIDE DEF q
<1>8. RunOk(pools', verifiers', protocols', q, done)
  BY <1>1, <1>3, <1>7 DEF RunOk
<1>9. \A x \in Runs : x # r /\ HasVerifier(run[x]) /\ "verifier" \in done =>
        q.verifier # run[x].verifier
  BY <1>1, <1>2
<1>10. RunsOk' /\ OwnVerifiers'
  BY <1>1, <1>2, <1>4, <1>5, <1>7, <1>8, <1>9, RunGoesOn
<1>11. blsKeys' \subseteq 1 .. Len(protocols')
  BY <1>2, <1>3 DEF IInv, ChainOk
<1> QED
  BY <1>2, <1>4, <1>5, <1>10, <1>11, ChainStep DEF IInv, ChainOk

\* initialize and register.
LEMMA SetUpStep ==
  ASSUME IInv, NEW r \in Runs, NEW step \in {"initialize", "register"},
         NEW from, from # "ready", NEW to \in Stages, step = "register" => to = "ready",
         SetUpProtocol(r, step, from, to)
  PROVE  IInv'
<1> DEFINE done == Done(run[r]) \cup {Now(run[r])}
           a == run[r].protocol
<1>1. /\ run[r] # Idle /\ Now(run[r]) = step /\ "protocol" \in Done(run[r])
      /\ RunOk(pools, verifiers, protocols, run[r], Done(run[r]))
  BY AtStep DEF SetUpProtocol, Order
<1>2. /\ Go(r, run[r]) /\ protocols[a] = from
      /\ protocols' = [protocols EXCEPT ![a] = to]
      /\ UNCHANGED <<pools, verifiers, blsKeys, registryRoot, offChainVars>>
  BY DEF SetUpProtocol
<1>3. a \in 1 .. Len(protocols)
  BY <1>1 DEF RunOk
<1>4. /\ protocols' \in Seq(Stages) /\ Len(protocols') = Len(protocols)
      /\ protocols'[a] = to
      /\ \A i \in 1 .. Len(protocols) : i # a => protocols'[i] = protocols[i]
  <2>1. protocols \in Seq(Stages)
    BY DEF IInv, ChainOk, Shapes
  <2> QED
    BY <1>2, <1>3, <2>1, ExceptSeq
<1>5. Shapes(pools', verifiers', protocols')
  BY <1>2, <1>4 DEF IInv, ChainOk, Shapes
<1>6. Grows(pools, verifiers, protocols, pools', verifiers', protocols')
  BY <1>2, <1>3, <1>4, Lengths DEF IInv, ChainOk, Grows
<1>7. RunOk(pools', verifiers', protocols', run[r], Done(run[r]))
  BY <1>1, <1>2, <1>5, <1>6, GrowthKeepsRuns DEF IInv, ChainOk
<1>8. RunOk(pools', verifiers', protocols', run[r], done)
  BY <1>1, <1>3, <1>4, <1>7 DEF RunOk, Ready
<1>9. \A x \in Runs : x # r /\ HasVerifier(run[x]) /\ "verifier" \in done =>
        run[r].verifier # run[x].verifier
  BY <1>1, <1>2 DEF HasVerifier, IInv, OwnVerifiers
<1>10. RunsOk' /\ OwnVerifiers'
  BY <1>1, <1>2, <1>5, <1>6, <1>8, <1>9, RunGoesOn
<1> QED
  BY <1>2, <1>4, <1>5, <1>6, <1>10, ChainStep DEF IInv, ChainOk

\* A BLS key goes to an AttestProtocol that exists, or the run ends.
LEMMA RegisterKeyStep ==
  ASSUME IInv, NEW r \in Runs, RegisterKey(r)
  PROVE  IInv'
<1> DEFINE done == Done(run[r]) \cup {Now(run[r])}
<1>1. /\ run[r] # Idle /\ Now(run[r]) = "bls" /\ "confirm" \in Done(run[r])
      /\ RunOk(pools, verifiers, protocols, run[r], Done(run[r]))
  BY AtStep DEF RegisterKey, Order
<1>2. UNCHANGED <<pools, verifiers, protocols, registryRoot, offChainVars>>
  BY DEF RegisterKey
<1>3. CASE run[r].protocol \in blsKeys
  BY <1>2, <1>3, EndOfRun DEF RegisterKey, chainVars, offChainVars
<1>4. CASE run[r].protocol \notin blsKeys
  <2>1. Go(r, run[r]) /\ blsKeys' = blsKeys \cup {run[r].protocol}
    BY <1>4 DEF RegisterKey
  <2>2. RunOk(pools, verifiers, protocols, run[r], done)
    BY <1>1 DEF RunOk
  <2>3. RunsOk' /\ OwnVerifiers'
    BY <1>1, <1>2, <2>1, <2>2, QuietStep
  <2>4. blsKeys' \subseteq 1 .. Len(protocols)
    BY <1>1, <2>1 DEF RunOk, Ready, IInv, ChainOk
  <2>5. Shapes(pools', verifiers', protocols')
    BY <1>2 DEF IInv, ChainOk
  <2>6. Grows(pools, verifiers, protocols, pools', verifiers', protocols')
    BY <1>2, NothingChanges DEF IInv, ChainOk
  <2> QED
    BY <1>2, <2>3, <2>4, <2>5, <2>6, ChainStep DEF IInv, ChainOk
<1> QED
  BY <1>3, <1>4

\* The root that the registry gets is the one the issuer answered.
LEMMA PushStep ==
  ASSUME IInv, NEW r \in Runs, Push(r)
  PROVE  IInv'
<1>1. /\ run[r] # Idle /\ Now(run[r]) = "push" /\ "ask" \in Done(run[r])
      /\ RunOk(pools, verifiers, protocols, run[r], Done(run[r]))
  BY AtStep DEF Push, Order
<1>2. /\ Go(r, run[r]) /\ registryRoot' = run[r].root
      /\ UNCHANGED <<pools, verifiers, protocols, blsKeys, offChainVars>>
  BY DEF Push
<1>3. RunOk(pools, verifiers, protocols, run[r], Done(run[r]) \cup {Now(run[r])})
  BY <1>1 DEF RunOk
<1>4. RunsOk' /\ OwnVerifiers'
  BY <1>1, <1>2, <1>3, QuietStep
<1>5. registryRoot' = getRegistryRoot
  BY <1>1, <1>2 DEF RunOk
<1>6. Shapes(pools', verifiers', protocols')
  BY <1>2 DEF IInv, ChainOk
<1>7. Grows(pools, verifiers, protocols, pools', verifiers', protocols')
  BY <1>2, NothingChanges DEF IInv, ChainOk
<1> QED
  BY <1>2, <1>4, <1>5, <1>6, <1>7, ChainStep DEF IInv, ChainOk

-----------------------------------------------------------------------------
(***************************************************************************)
(* The files.                                                              *)
(***************************************************************************)

\* What a run writes is in order: it loaded a file that was, and knows the pool, the
\* verifier or the AttestProtocol that it puts there.
LEMMA SavedIsOk ==
  ASSUME NEW ps, NEW vs, NEW aps, NEW q, NEW done, RunOk(ps, vs, aps, q, done),
         "load" \in done,
         q.script \in {"v11", "v12"} => "pool" \in done,
         q.script = "v12" => {"verifier", "key"} \subseteq done,
         q.script = "attest" => "register" \in done
  PROVE  FileOk(ps, vs, aps, Saved(q))
<1> DEFINE f == q.file
           P == (1 .. Len(ps)) \cup {None}
           V == (1 .. Len(vs)) \cup {None}
<1>1. FileOk(ps, vs, aps, f) /\ f \in IdFile(ps, vs, aps)
  BY DEF RunOk, FileOk
<1>2. /\ f.pool \in 1 .. Len(ps) /\ f.verifier \in 1 .. Len(vs)
      /\ f.v10_prev \in P /\ f.v11_prev \in P /\ f.verifier_v11_prev \in V
  BY <1>1 DEF IdFile
<1>3. CASE q.script = "v11"
  <2>1. q.pool \in 1 .. Len(ps) /\ ps[q.pool].verifier = f.verifier
    BY <1>3 DEF RunOk, VerifierOf
  <2>2. Saved(q) = [f EXCEPT !.v10_prev = IfUnset(f.v10_prev, f.pool),
                             !.v11_prev = f.pool, !.pool = q.pool]
    BY <1>3 DEF Saved, Edit, SavedV11
  <2>3. IfUnset(f.v10_prev, f.pool) \in P
    BY <1>2 DEF IfUnset
  <2>4. /\ Saved(q) \in IdFile(ps, vs, aps)
        /\ Saved(q).pool = q.pool /\ Saved(q).verifier = f.verifier
        /\ Saved(q).protocol = f.protocol
    BY <1>1, <1>2, <2>1, <2>2, <2>3 DEF IdFile
  <2> QED
    BY <1>1, <2>1, <2>4 DEF FileOk
<1>4. CASE q.script = "v12"
  <2>1. /\ q.pool \in 1 .. Len(ps) /\ ps[q.pool].verifier = q.verifier
        /\ q.verifier \in 1 .. Len(vs) /\ vs[q.verifier] # "none"
    BY <1>4 DEF RunOk, VerifierOf
  <2>2. Saved(q) = [f EXCEPT !.v11_prev = IfUnset(f.v11_prev, f.pool),
                             !.v12_prev = f.pool, !.pool = q.pool,
                             !.verifier_v11_prev = IfUnset(f.verifier_v11_prev, f.verifier),
                             !.verifier = q.verifier]
    BY <1>4 DEF Saved, Edit, SavedV12
  <2>3. /\ IfUnset(f.v11_prev, f.pool) \in P
        /\ IfUnset(f.verifier_v11_prev, f.verifier) \in V
    BY <1>2 DEF IfUnset
  <2>4. /\ Saved(q) \in IdFile(ps, vs, aps)
        /\ Saved(q).pool = q.pool /\ Saved(q).verifier = q.verifier
        /\ Saved(q).protocol = f.protocol
    BY <1>1, <1>2, <2>1, <2>2, <2>3 DEF IdFile
  <2> QED
    BY <1>1, <2>1, <2>4 DEF FileOk, HasKey
<1>5. CASE q.script = "attest"
  <2>1. Ready(aps, q.protocol)
    BY <1>5 DEF RunOk
  <2>2. Saved(q) = [f EXCEPT !.protocol = q.protocol]
    BY <1>5 DEF Saved, Edit
  <2>3. /\ Saved(q) \in IdFile(ps, vs, aps)
        /\ Saved(q).pool = f.pool /\ Saved(q).verifier = f.verifier
        /\ Saved(q).protocol = q.protocol
    BY <1>1, <2>1, <2>2 DEF IdFile, Ready
  <2> QED
    BY <1>1, <2>1, <2>3 DEF FileOk
<1>6. CASE q.script \notin {"v11", "v12", "attest"}
  BY <1>1, <1>6 DEF Saved, Edit
<1> QED
  BY <1>3, <1>4, <1>5, <1>6

\* The file is in order after a run has written it.
LEMMA WriteStep ==
  ASSUME IInv, NEW r \in Runs, Write(r)
  PROVE  IInv'
<1> DEFINE file == Saved(run[r])
           q == [run[r] EXCEPT !.file = file]
           done == Done(run[r])
<1>1. /\ run[r] # Idle /\ Now(run[r]) = "write"
      /\ "load" \in done
      /\ run[r].script \in {"v11", "v12"} => "pool" \in done
      /\ run[r].script = "v12" => {"verifier", "key"} \subseteq done
      /\ run[r].script = "attest" => "register" \in done
      /\ RunOk(pools, verifiers, protocols, run[r], done)
  BY AtStep DEF Write, Order
<1>2. /\ Go(r, q) /\ rootFile' = file
      /\ UNCHANGED <<chainVars, publicFile, issuer, started>>
  BY DEF Write
<1>3. FileOk(pools, verifiers, protocols, file)
  BY <1>1, SavedIsOk
<1>4. "pool" \in done => VerifierOf(q) = VerifierOf(run[r])
  <2>1. SUFFICES ASSUME run[r].script # "v12", "pool" \in done
                 PROVE  file.verifier = run[r].file.verifier
    BY <1>1 DEF VerifierOf, RunOk, RunType
  <2> QED
    BY <1>1, <2>1 DEF Saved, Edit, SavedV11, RunOk, FileOk, IdFile
<1>5. /\ q \in RunType(pools, verifiers, protocols)
      /\ q.script = run[r].script /\ q.at = run[r].at /\ q.file = file
      /\ q.protocol = run[r].protocol /\ q.verifier = run[r].verifier
      /\ q.pool = run[r].pool /\ q.root = run[r].root
  <2>1. file \in IdFile(pools, verifiers, protocols)
    BY <1>3 DEF FileOk
  <2> HIDE DEF file
  <2> QED
    BY <1>1, <2>1 DEF RunOk, RunType
<1> HIDE DEF q, file
<1>6. RunOk(pools, verifiers, protocols, q, done \cup {Now(run[r])})
  BY <1>1, <1>3, <1>4, <1>5 DEF RunOk
<1>7. RunsOk' /\ OwnVerifiers'
  BY <1>1, <1>2, <1>5, <1>6, QuietStep DEF chainVars
<1> QED
  BY <1>2, <1>3, <1>7 DEF IInv, ChainOk, FilesOk, CountersOk, IssuerOk, chainVars

\* So is the public copy.
LEMMA PublishStep ==
  ASSUME IInv, NEW r \in Runs, Publish(r)
  PROVE  IInv'
<1>1. /\ run[r] # Idle /\ Now(run[r]) = "publish" /\ "load" \in Done(run[r])
      /\ RunOk(pools, verifiers, protocols, run[r], Done(run[r]))
  BY AtStep DEF Publish, Order
<1>2. /\ Go(r, run[r]) /\ publicFile' = run[r].file
      /\ UNCHANGED <<chainVars, rootFile, issuer, started>>
  BY DEF Publish
<1>3. FileOk(pools, verifiers, protocols, run[r].file)
  BY <1>1 DEF RunOk
<1>4. RunOk(pools, verifiers, protocols, run[r], Done(run[r]) \cup {Now(run[r])})
  BY <1>1 DEF RunOk
<1>5. RunsOk' /\ OwnVerifiers'
  BY <1>1, <1>2, <1>4, QuietStep DEF chainVars
<1> QED
  BY <1>2, <1>3, <1>5 DEF IInv, ChainOk, FilesOk, CountersOk, IssuerOk, chainVars

\* An issuer that detects the registry mode finds the root of the two leaves.
LEMMA RestartStep ==
  ASSUME IInv, RestartIssuer
  PROVE  IInv'
  BY DEF IInv, ChainOk, FilesOk, CountersOk, IssuerOk, RunsOk, OwnVerifiers, RestartIssuer,
         DetectedMode, Roots, chainVars

\* Nothing happens.
LEMMA StutterStep ==
  ASSUME IInv, UNCHANGED vars
  PROVE  IInv'
  BY DEF IInv, ChainOk, FilesOk, CountersOk, IssuerOk, RunsOk, OwnVerifiers, vars, chainVars,
         offChainVars

-----------------------------------------------------------------------------
(***************************************************************************)
(* The invariant.                                                          *)
(***************************************************************************)

\* The deployment of v10 is in order.
LEMMA InitOk == Init => IInv
<1> SUFFICES ASSUME Init PROVE IInv
  OBVIOUS
<1>1. /\ Len(pools) = 2 /\ Len(verifiers) = 1 /\ Len(protocols) = 1
      /\ pools[1] = [by |-> "v9",  verifier |-> 1, protocol |-> 1]
      /\ pools[2] = [by |-> "v10", verifier |-> 1, protocol |-> 1]
      /\ verifiers[1] = "six" /\ protocols[1] = "ready"
  BY DEF Init
<1>2. Shapes(pools, verifiers, protocols)
  <2>1. pools \in Seq([by : Scripts, verifier : Nat, protocol : Nat])
    BY ScriptSteps DEF Init
  <2>2. verifiers \in Seq(Keys) /\ protocols \in Seq(Stages)
    BY DEF Init, Keys, Stages
  <2> QED
    BY <2>1, <2>2 DEF Shapes
<1>3. ChainOk
  <2>1. \A p \in 1 .. Len(pools) : PoolOk(verifiers, protocols, pools[p])
    BY <1>1 DEF PoolOk, HasKey, Ready
  <2> QED
    BY <1>1, <1>2, <2>1 DEF ChainOk, Init, Roots
<1>4. FilesOk
  <2>1. rootFile = publicFile /\ rootFile = File(2, 1, 1, 1, None, None, None)
    BY DEF Init
  <2>2. FileOk(pools, verifiers, protocols, File(2, 1, 1, 1, None, None, None))
    BY <1>1 DEF FileOk, File, IdFile, HasKey, Ready, None
  <2> QED
    BY <2>1, <2>2 DEF FilesOk
<1>5. CountersOk
  BY DeploymentAssumption DEF CountersOk, Init, DeploymentAssumption
<1>6. RunsOk /\ OwnVerifiers
  BY DEF RunsOk, OwnVerifiers, HasVerifier, Init
<1> QED
  BY <1>3, <1>4, <1>5, <1>6 DEF IInv, IssuerOk, Init

\* Every step, whichever script it is of, keeps the invariant.
LEMMA StepOk ==
  ASSUME IInv, [Next]_vars
  PROVE  IInv'
<1>1. ASSUME NEW r \in Runs, Transact(r)
      PROVE  IInv'
  <2>1. CASE Initialize(r)
    BY <2>1, SetUpStep DEF Initialize, Stages
  <2>2. CASE RegisterSchema(r)
    BY <2>2, SetUpStep DEF RegisterSchema, Stages
  <2> QED
    BY <1>1, <2>1, <2>2, DeployVerifierStep, SetVkStep, DeployPoolStep, DeployProtocolStep,
       RegisterKeyStep, PushStep, RetryStep DEF Transact
<1>2. ASSUME NEW r \in Runs, Continue(r)
      PROVE  IInv'
  <2>1. CASE Stop(r)
    BY <2>1, EndOfRun DEF Stop
  <2> QED
    BY <1>1, <1>2, <2>1, ConfirmStep, LoadStep, AskStep, WriteStep, PublishStep DEF Continue
<1> QED
  BY <1>2, StartStep, AnybodySetsVkStep, RestartStep, StutterStep DEF Next

\* The invariant holds in every state that can be reached.
THEOREM Invariance == Spec => []IInv
  BY InitOk, StepOk, PTL DEF Spec

-----------------------------------------------------------------------------
(***************************************************************************)
(* The theorems.                                                           *)
(***************************************************************************)

\* It contains the types.
LEMMA TypesFollow == IInv => TypeOK
<1> SUFFICES ASSUME IInv PROVE TypeOK
  OBVIOUS
<1>1. \A p \in PoolIds : pools[p] \in [by : Scripts, verifier : VerifierIds,
                                       protocol : ProtocolIds]
  <2> SUFFICES ASSUME NEW p \in 1 .. Len(pools)
               PROVE  pools[p] \in [by : Scripts, verifier : VerifierIds,
                                    protocol : ProtocolIds]
    BY DEF PoolIds
  <2>1. pools[p] \in [by : Scripts, verifier : Nat, protocol : Nat]
    <3>1. pools \in Seq([by : Scripts, verifier : Nat, protocol : Nat])
      BY DEF IInv, ChainOk, Shapes
    <3> QED
      BY <3>1, ElementOfSeq
  <2>2. pools[p].verifier \in VerifierIds /\ pools[p].protocol \in ProtocolIds
    BY DEF IInv, ChainOk, PoolOk, HasKey, Ready, VerifierIds, ProtocolIds
  <2> QED
    BY <2>1, <2>2
<1>2. \A v \in VerifierIds : verifiers[v] \in Keys
  BY ElementOfSeq DEF IInv, ChainOk, Shapes, VerifierIds
<1>3. \A p \in ProtocolIds : protocols[p] \in {"deployed", "initialized", "ready"}
  BY ElementOfSeq DEF IInv, ChainOk, Shapes, Stages, ProtocolIds
<1>4. IdFile(pools, verifiers, protocols) = Files
  BY DEF IdFile, Files, PoolIds, VerifierIds, ProtocolIds
<1>5. {rootFile, publicFile} \subseteq Files
  BY <1>4 DEF IInv, FilesOk, FileOk
<1>6. \A r \in Runs : run[r] = Idle \/ IsRun(run[r])
  BY <1>4 DEF IInv, RunsOk, RunOk, RunType, IsRun, PoolIds, VerifierIds, ProtocolIds
<1> QED
  BY <1>1, <1>2, <1>3, <1>5, <1>6
     DEF TypeOK, IInv, ChainOk, CountersOk, IssuerOk, RunsOk, ProtocolIds

\* Whatever the scripts do, every address that a file names or a run carries is that
\* of a contract that exists.
THEOREM TypeCorrect == Spec => []TypeOK
  BY Invariance, TypesFollow, PTL

\* Nobody is sent to a contract that is only half set up, however many scripts run,
\* are broken off or write over each other's files.
THEOREM ContractsReady == Spec => []NamedContractsAreReady
<1>1. IInv => NamedContractsAreReady
  BY DEF IInv, FilesOk, FileOk, IdFile, ChainOk, PoolOk, HasKey, Ready,
         NamedContractsAreReady
<1> QED
  BY <1>1, Invariance, PTL

\* The pool that a file names was deployed with the compliance verifier it names.
THEOREM PoolAndVerifierFit == Spec => []PoolFitsVerifier
<1>1. IInv => PoolFitsVerifier
  BY DEF IInv, FilesOk, FileOk, PoolFitsVerifier
<1> QED
  BY <1>1, Invariance, PTL

-----------------------------------------------------------------------------

\* The two leaves of the registry fit into the tree, each at its place.
LEMMA RegistryLeaves ==
  /\ Width \in Nat /\ Width >= 2
  /\ \A i \in 1 .. 2 : Padded(KycLeaves)[i - 1] = attribute_leaf(KYC_PROFILES[i])
<1>1. Depth - 1 \in 0 .. Depth /\ Depth \in 1 .. Depth
  BY TreeAssumption DEF TreeAssumption
<1>2. Width = 2 * Span[Depth - 1] /\ Span[Depth - 1] \in Nat \ {0}
  BY <1>1, SpanRecursion, SpanType DEF Width
<1>3. Width \in Nat /\ Width >= 2
  BY <1>2
<1>4. Len(KYC_PROFILES) = 2
  BY DEF KYC_PROFILES
<1>5. Len(KycLeaves) = 2 /\ \A i \in 1 .. 2 : KycLeaves[i] = attribute_leaf(KYC_PROFILES[i])
  BY <1>4 DEF KycLeaves
<1>6. ASSUME NEW i \in 1 .. 2
      PROVE  Padded(KycLeaves)[i - 1] = attribute_leaf(KYC_PROFILES[i])
  BY <1>3, <1>5 DEF Padded
<1> QED
  BY <1>3, <1>6

\* The circuit accepts what an issuer in registry mode answers for either side.
LEMMA RegistryIsProvable ==
  ASSUME NEW side \in {"send", "receive"}
  PROVE  Provable(complianceKycInputs("registry", side))
<1> DEFINE idx == CHOOSE i \in 1 .. Len(KYC_PROFILES) : KYC_PROFILES[i].side = side
           inputs == complianceKycInputs("registry", side)
<1>1. idx \in 1 .. 2 /\ KYC_PROFILES[idx].tier = 2 /\ KYC_PROFILES[idx].sanctioned = 0
  <2>1. \E i \in 1 .. Len(KYC_PROFILES) : KYC_PROFILES[i].side = side
    <3>1. CASE side = "send"
      <4>1. 1 \in 1 .. Len(KYC_PROFILES) /\ KYC_PROFILES[1].side = side
        BY <3>1 DEF KYC_PROFILES
      <4> QED
        BY <4>1
    <3>2. CASE side = "receive"
      <4>1. 2 \in 1 .. Len(KYC_PROFILES) /\ KYC_PROFILES[2].side = side
        BY <3>2 DEF KYC_PROFILES
      <4> QED
        BY <4>1
    <3> QED
      BY <3>1, <3>2
  <2>2. idx \in 1 .. 2
    BY <2>1 DEF KYC_PROFILES
  <2> HIDE DEF idx
  <2>3. \A i \in 1 .. 2 : KYC_PROFILES[i].tier = 2 /\ KYC_PROFILES[i].sanctioned = 0
    BY DEF KYC_PROFILES
  <2> QED
    BY <2>2, <2>3
<1>2. /\ inputs.leaf = attribute_leaf(KYC_PROFILES[idx]) /\ inputs.index = idx - 1
      /\ inputs.siblings = MerklePath(KycLeaves, idx - 1)
      /\ inputs.root = TreeRoot(KycLeaves)
      /\ inputs.tier = KYC_PROFILES[idx].tier
      /\ inputs.sanctioned = KYC_PROFILES[idx].sanctioned
  BY DEF complianceKycInputs, getAttestationForSide, runTreeUtil, getRegistryRoot
<1> HIDE DEF idx, inputs
<1>3. idx - 1 \in 0 .. Width - 1
  BY <1>1, RegistryLeaves
<1>4. compute_merkle_root(Padded(KycLeaves)[idx - 1], idx - 1,
                          MerklePath(KycLeaves, idx - 1)) = TreeRoot(KycLeaves)
  BY <1>3, PathLeadsUp
<1>5. Padded(KycLeaves)[idx - 1] = attribute_leaf(KYC_PROFILES[idx])
  BY <1>1, RegistryLeaves
<1>6. Provable(inputs)
  BY <1>1, <1>2, <1>4, <1>5 DEF Provable, MinKycTier
<1> QED
  BY <1>6 DEF inputs

\* An issuer that found the registry mode by itself goes on making proofs that the
\* circuit and the pool's registry accept: the only root that a script sets is the one
\* of an issuer in that mode.
THEOREM DetectedModeIsRight == Spec => []DetectedRegistryIsLive
<1>1. IInv => DetectedRegistryIsLive
  <2> SUFFICES ASSUME IInv, issuer = "detected", NEW side \in {"send", "receive"}
               PROVE  /\ Provable(complianceKycInputs(Mode, side))
                      /\ complianceKycInputs(Mode, side).root = registryRoot
    BY DEF DetectedRegistryIsLive
  <2>1. Mode = "registry" /\ registryRoot = getRegistryRoot
    BY DEF Mode, IInv, IssuerOk
  <2> QED
    BY <2>1, RegistryIsProvable, RootOfRegistry
<1> QED
  BY <1>1, Invariance, PTL

-----------------------------------------------------------------------------
(***************************************************************************)
(* A run gets on: how many steps it takes is bounded, whatever the others  *)
(* do.  That it goes on at all is a matter of fairness and left to TLC.    *)
(***************************************************************************)

\* The steps of a script, each as often as it may be tried.
LEMMA Attempts ==
  ASSUME NEW k \in 0 .. 6
  PROVE  /\ k * MaxAttempts \in Nat
         /\ (k + 1) * MaxAttempts = k * MaxAttempts + MaxAttempts
         /\ k * MaxAttempts + MaxAttempts <= 7 * MaxAttempts
<1>1. MaxAttempts \in Nat
  BY DeploymentAssumption DEF DeploymentAssumption
<1> QED
  BY <1>1

\* The longest script is that of v12.
LEMMA ScriptLengths == \A s \in Scripts : Len(Script[s].steps) \in 4 .. 7
<1>1. /\ Len(ReusesVerifier) = 5
      /\ Len(<<"confirm", "load", "verifier", "key", "pool", "write", "publish">>) = 7
      /\ Len(<<"protocol", "initialize", "register", "load", "write", "publish">>) = 6
      /\ Len(<<"confirm", "bls", "load", "write", "publish">>) = 5
      /\ Len(<<"load", "ask", "push", "write">>) = 4
  BY DEF ReusesVerifier
<1>2. /\ \A s \in {"v8", "v9", "v10", "v11"} : Len(Script[s].steps) = 5
      /\ Len(Script["v12"].steps) = 7 /\ Len(Script["attest"].steps) = 6
      /\ Len(Script["bls"].steps) = 5 /\ Len(Script["root"].steps) = 4
  BY <1>1, ScriptSteps, Zenon
<1>3. \A s \in Scripts : Len(Script[s].steps) \in {4, 5, 6, 7}
  BY <1>2, ScriptSteps, Zenon
<1> QED
  BY <1>3

\* A run has some steps left, and not too many.
LEMMA SomeLeft ==
  ASSUME IInv, NEW r \in Runs, run[r] # Idle
  PROVE  /\ Len(Script[run[r].script].steps) - run[r].at \in 0 .. 6
         /\ run[r].tries \in 0 .. MaxAttempts - 1
         /\ run[r].at \in Nat
         /\ StepsLeft(run[r]) =
              (Len(Script[run[r].script].steps) - run[r].at) * MaxAttempts
                + (MaxAttempts - run[r].tries)
         /\ StepsLeft(run[r]) \in 1 .. 7 * MaxAttempts
<1> DEFINE q == run[r]
           k == Len(Script[q.script].steps) - q.at
<1>1. /\ q.tries \in 0 .. MaxAttempts - 1 /\ q.script \in Scripts
      /\ q.at \in 1 .. Len(Script[q.script].steps)
  <2>1. /\ RunOk(pools, verifiers, protocols, q, Done(q))
        /\ q.at \in 1 .. Len(Script[q.script].steps)
    BY DEF IInv, RunsOk
  <2>2. q \in RunType(pools, verifiers, protocols)
    BY <2>1 DEF RunOk
  <2> QED
    BY <2>1, <2>2 DEF RunType
<1>2. Len(Script[q.script].steps) \in 4 .. 7
  BY <1>1, ScriptLengths
<1>3. k \in 0 .. 6 /\ q.at \in Nat
  <2> DEFINE length == Len(Script[q.script].steps)
             place  == q.at
  <2>1. length \in 4 .. 7 /\ place \in 1 .. length
    BY <1>1, <1>2
  <2> HIDE DEF length, place
  <2>2. length - place \in 0 .. 6 /\ place \in Nat
    BY <2>1
  <2> QED
    BY <2>2 DEF length, place
<1>4. StepsLeft(q) = k * MaxAttempts + (MaxAttempts - q.tries)
  BY DEF StepsLeft
<1>5. MaxAttempts \in Nat
  BY DeploymentAssumption DEF DeploymentAssumption
<1> HIDE DEF k, q
<1>6. StepsLeft(q) \in 1 .. 7 * MaxAttempts
  BY <1>1, <1>3, <1>4, <1>5, Attempts
<1> QED
  BY <1>1, <1>3, <1>4, <1>6 DEF k, q

\* A run that does a step goes on to the next one, does it again, or ends.
LEMMA StepMoves ==
  ASSUME IInv, NEW r \in Runs, Continue(r)
  PROVE  /\ run[r] # Idle
         /\ \/ run'[r] = Idle
            \/ /\ run'[r] # Idle /\ run'[r].script = run[r].script
               /\ \/ run'[r].at = run[r].at + 1 /\ run'[r].tries = 0
                  \/ run'[r].at = run[r].at /\ run'[r].tries = run[r].tries + 1
<1> DEFINE q == run[r]
<1>1. q # Idle
  BY DEF Continue, Transact, Confirm, Load, Ask, DeployVerifier, SetVk, DeployPool, DeployProtocol,
         Initialize, RegisterSchema, SetUpProtocol, RegisterKey, Push, Retry, Write, Publish,
         Stop, Doing
<1>2. q \in RunType(pools, verifiers, protocols) /\ DOMAIN run = Runs
  BY <1>1 DEF IInv, RunsOk, RunOk
<1>3. ASSUME NEW n, Set(r, n) PROVE run'[r] = n
  BY <1>2, <1>3 DEF Set
<1>4. ASSUME NEW n, Go(r, n), n \in [DOMAIN q -> {n[f] : f \in DOMAIN q}],
             n.script = q.script, n.at = q.at
      PROVE  \/ run'[r] = Idle
             \/ /\ run'[r] # Idle /\ run'[r].script = q.script
                /\ run'[r].at = q.at + 1 /\ run'[r].tries = 0
  <2> DEFINE m == [n EXCEPT !.at = @ + 1, !.tries = 0]
  <2>1. DOMAIN q = {"script", "at", "tries", "file", "protocol", "verifier", "pool", "root"}
    BY <1>2 DEF RunType
  <2>2. m.script = q.script /\ m.at = q.at + 1 /\ m.tries = 0 /\ DOMAIN m = DOMAIN q
    BY <1>4, <2>1
  <2>3. m # Idle
    BY <2>1, <2>2 DEF Idle
  <2> HIDE DEF m
  <2>4. Set(r, Idle) \/ Set(r, m)
    BY <1>4 DEF Go, m
  <2> QED
    BY <1>3, <2>2, <2>3, <2>4
<1>5. CASE Stop(r)
  BY <1>1, <1>3, <1>5 DEF Stop
<1>6. CASE Retry(r)
  <2> DEFINE m == [q EXCEPT !.tries = @ + 1]
  <2>1. /\ m.script = q.script /\ m.at = q.at /\ m.tries = q.tries + 1
        /\ m # Idle
    BY <1>2 DEF RunType, Idle
  <2>2. run'[r] = m
    BY <1>3, <1>6 DEF Retry
  <2> QED
    BY <1>1, <2>1, <2>2
<1>7. CASE \E n : /\ Go(r, n) /\ n.script = q.script /\ n.at = q.at
                  /\ n \in [DOMAIN q -> {n[f] : f \in DOMAIN q}]
  BY <1>1, <1>4, <1>7
<1>8. ASSUME NEW v
      PROVE  \A n \in {q, [q EXCEPT !.protocol = v], [q EXCEPT !.file = v],
                       [q EXCEPT !.root = v], [q EXCEPT !.verifier = v],
                       [q EXCEPT !.pool = v]} :
               /\ n.script = q.script /\ n.at = q.at
               /\ n \in [DOMAIN q -> {n[f] : f \in DOMAIN q}]
  BY <1>2 DEF RunType
<1>9. CASE Confirm(r) \/ Load(r) \/ Ask(r) \/ Write(r) \/ Publish(r)
  <2>1. CASE Confirm(r)
    BY <1>7, <1>8, <2>1 DEF Confirm
  <2>2. CASE Load(r)
    BY <1>7, <1>8, <2>2 DEF Load
  <2>3. CASE Ask(r)
    BY <1>7, <1>8, <2>3 DEF Ask
  <2>4. CASE Write(r)
    BY <1>7, <1>8, <2>4 DEF Write
  <2>5. CASE Publish(r)
    BY <1>7, <1>8, <2>5 DEF Publish
  <2> QED
    BY <1>9, <2>1, <2>2, <2>3, <2>4, <2>5
<1>10. CASE DeployVerifier(r) \/ DeployPool(r) \/ DeployProtocol(r)
  <2>1. CASE DeployVerifier(r)
    BY <1>7, <1>8, <2>1 DEF DeployVerifier
  <2>2. CASE DeployPool(r)
    BY <1>7, <1>8, <2>2 DEF DeployPool
  <2>3. CASE DeployProtocol(r)
    BY <1>7, <1>8, <2>3 DEF DeployProtocol
  <2> QED
    BY <1>10, <2>1, <2>2, <2>3
<1>11. CASE SetVk(r) \/ Initialize(r) \/ RegisterSchema(r) \/ Push(r)
  BY <1>7, <1>8, <1>11 DEF SetVk, Initialize, RegisterSchema, SetUpProtocol, Push
<1>12. CASE RegisterKey(r)
  BY <1>1, <1>3, <1>7, <1>8, <1>12 DEF RegisterKey
<1> QED
  BY <1>5, <1>6, <1>9, <1>10, <1>11, <1>12 DEF Continue, Transact

\* A step of anybody else leaves a run alone, unless it starts it.
LEMMA OthersStay ==
  ASSUME IInv, NEW r \in Runs, [Next]_vars, ~ Continue(r)
  PROVE  run'[r] = run[r] \/ \E s \in Used : Start(r, s)
<1>1. DOMAIN run = Runs
  BY DEF IInv, RunsOk
<1>2. ASSUME NEW x \in Runs, Continue(x) PROVE run'[r] = run[r]
  <2>1. x # r
    BY <1>2
  <2> QED
    BY <1>1, <1>2, <2>1
       DEF Continue, Transact, Confirm, Load, Ask, DeployVerifier, SetVk, DeployPool,
           DeployProtocol, Initialize, RegisterSchema, SetUpProtocol, RegisterKey, Push, Retry,
           Write, Publish, Stop, Go, Set
<1>3. ASSUME NEW x \in Runs, NEW s \in Used, Start(x, s)
      PROVE  run'[r] = run[r] \/ Start(r, s)
  <2>1. CASE x = r
    BY <1>3, <2>1
  <2>2. CASE x # r
    BY <1>1, <1>3, <2>2 DEF Start, Set
  <2> QED
    BY <2>1, <2>2
<1> QED
  BY <1>2, <1>3 DEF Next, AnybodySetsVk, RestartIssuer, vars

\* Each script ends after seven steps at most, each of them tried MaxAttempts times
\* at most: what runs at the same time, writes over its file or deploys before it
\* does not send it back.
THEOREM RunsGetOnAlways == Spec => RunsGetOn
<1> DEFINE GetsOn(r) ==
             LET left == StepsLeft(run[r])  leftNow == StepsLeft(run'[r]) IN
               /\ left <= 7 * MaxAttempts
               /\ Continue(r) => leftNow < left
               /\ run[r] # Idle => left > 0 /\ leftNow <= left
<1>1. IInv /\ IInv' /\ [Next]_vars => [\A r \in Runs : GetsOn(r)]_vars
  <2> SUFFICES ASSUME IInv, IInv', [Next]_vars, NEW r \in Runs PROVE GetsOn(r)
    OBVIOUS
  <2>1. MaxAttempts \in Nat /\ StepsLeft(Idle) = 0
    BY DeploymentAssumption DEF DeploymentAssumption, StepsLeft
  <2>2. CASE run[r] = Idle
    BY <2>1, <2>2, StepMoves
  <2>3. CASE run[r] # Idle /\ Continue(r)
    <3>1. StepsLeft(run[r]) \in 1 .. 7 * MaxAttempts
      BY <2>3, SomeLeft
    <3>2. StepsLeft(run'[r]) \in Nat /\ StepsLeft(run'[r]) < StepsLeft(run[r])
      <4>1. CASE run'[r] = Idle
        BY <2>1, <3>1, <4>1
      <4>2. CASE run'[r] # Idle
        <5> DEFINE q == run[r]
                   n == run'[r]
                   length == Len(Script[q.script].steps)
                   k == length - q.at
        <5>1. /\ k \in 0 .. 6 /\ q.tries \in 0 .. MaxAttempts - 1 /\ q.at \in Nat
              /\ StepsLeft(q) = k * MaxAttempts + (MaxAttempts - q.tries)
          BY <2>3, SomeLeft
        <5>2. /\ n.script = q.script
              /\ \/ n.at = q.at + 1 /\ n.tries = 0
                 \/ n.at = q.at /\ n.tries = q.tries + 1
          BY <2>3, <4>2, StepMoves
        <5>3. /\ n.tries \in 0 .. MaxAttempts - 1
              /\ n.at \in 1 .. Len(Script[n.script].steps)
          BY <4>2 DEF IInv, RunsOk, RunOk, RunType
        <5>4. StepsLeft(n) = (Len(Script[n.script].steps) - n.at) * MaxAttempts
                               + (MaxAttempts - n.tries)
          BY <4>2 DEF StepsLeft
        <5>5. length \in Nat
          BY <2>3, ScriptSteps DEF IInv, RunsOk, RunOk, RunType, ReusesVerifier
        <5> HIDE DEF n, q
        <5>6. CASE n.at = q.at + 1 /\ n.tries = 0
          <6>1. k - 1 \in 0 .. 6 /\ Len(Script[n.script].steps) - n.at = k - 1
            <7>1. Len(Script[n.script].steps) = length
              BY <5>2
            <7>2. q.at + 1 <= length
              BY <5>3, <5>5, <5>6, <7>1
            <7> HIDE DEF length
            <7>3. k - 1 \in 0 .. 6 /\ length - (q.at + 1) = k - 1
              BY <5>1, <5>5, <7>2
            <7> QED
              BY <5>6, <7>1, <7>3
          <6>2. StepsLeft(n) = (k - 1) * MaxAttempts + MaxAttempts
            BY <2>1, <5>4, <5>6, <6>1
          <6> HIDE DEF k
          <6>3. k * MaxAttempts = (k - 1) * MaxAttempts + MaxAttempts
                /\ k * MaxAttempts \in Nat
            BY <5>1, <6>1, <2>1, Attempts
          <6> QED
            BY <2>1, <5>1, <6>2, <6>3 DEF n, q
        <5>7. CASE n.at = q.at /\ n.tries = q.tries + 1
          <6>1. StepsLeft(n) = k * MaxAttempts + (MaxAttempts - (q.tries + 1))
            BY <5>2, <5>4, <5>7
          <6> HIDE DEF k
          <6>2. k * MaxAttempts \in Nat
            BY <5>1, Attempts
          <6> QED
            BY <2>1, <5>1, <5>3, <5>7, <6>1, <6>2 DEF n, q
        <5> QED
          BY <5>2, <5>6, <5>7
      <4> QED
        BY <4>1, <4>2
    <3> QED
      BY <2>1, <3>1, <3>2
  <2>4. CASE run[r] # Idle /\ ~ Continue(r)
    <3>1. run'[r] = run[r]
      BY <2>4, OthersStay DEF Start
    <3>2. StepsLeft(run[r]) \in 1 .. 7 * MaxAttempts
      BY <2>4, SomeLeft
    <3> QED
      BY <2>1, <2>4, <3>1, <3>2
  <2> QED
    BY <2>2, <2>3, <2>4
<1> QED
  BY <1>1, Invariance, PTL DEF Spec, RunsGetOn

-----------------------------------------------------------------------------
(***************************************************************************)
(* The scripts leave the keys of the verifiers that pools use alone.       *)
(***************************************************************************)

\* Until a run deploys a pool, no pool has its new verifier.
UnusedVerifiers ==
  \A r \in Runs : HasVerifier(run[r]) /\ "pool" \notin Done(run[r]) =>
    \A p \in 1 .. Len(pools) : pools[p].verifier # run[r].verifier

\* The verifier that a run gives its new pool is no other run's new one.
LEMMA PoolOfItsOwn ==
  ASSUME IInv, UnusedVerifiers, NEW r \in Runs, DeployPool(r),
         NEW x \in Runs, x # r, HasVerifier(run[x]), "pool" \notin Done(run[x])
  PROVE  VerifierOf(run[r]) # run[x].verifier
<1>1. /\ run[r] # Idle /\ "load" \in Done(run[r])
      /\ run[r].script = "v12" => "verifier" \in Done(run[r])
      /\ RunOk(pools, verifiers, protocols, run[r], Done(run[r]))
  BY AtStep DEF DeployPool, Order
<1>2. CASE run[r].script = "v12"
  BY <1>1, <1>2 DEF VerifierOf, IInv, OwnVerifiers, HasVerifier
<1>3. CASE run[r].script # "v12"
  <2>1. FileOk(pools, verifiers, protocols, run[r].file)
    BY <1>1 DEF RunOk
  <2> QED
    BY <1>3, <2>1 DEF VerifierOf, FileOk, IdFile, UnusedVerifiers
<1> QED
  BY <1>2, <1>3

\* A run that goes on from a step has that one behind it as well.
LEMMA OneMoreDone ==
  ASSUME IInv, NEW r \in Runs, NEW step, Doing(r, step), NEW n, Go(r, n),
         n \in [DOMAIN run[r] -> {n[f] : f \in DOMAIN run[r]}],
         n.script = run[r].script, n.at = run[r].at, run'[r] # Idle
  PROVE  Done(run'[r]) = Done(run[r]) \cup {step} /\ run'[r].verifier = n.verifier
<1> DEFINE q == run[r]
           m == [n EXCEPT !.at = @ + 1, !.tries = 0]
<1>1. q # Idle /\ IsAt(q) /\ Now(q) = step /\ q \in RunType(pools, verifiers, protocols)
  BY AtStep DEF RunOk
<1>2. DOMAIN n = {"script", "at", "tries", "file", "protocol", "verifier", "pool", "root"}
  BY <1>1 DEF RunType
<1>3. m.script = q.script /\ m.at = q.at + 1 /\ m.verifier = n.verifier
  BY <1>2
<1> HIDE DEF m
<1>4. Set(r, Idle) \/ Set(r, m)
  BY DEF Go, m
<1>5. DOMAIN run = Runs
  BY DEF IInv, RunsOk
<1>6. run'[r] = m
  BY <1>4, <1>5 DEF Set
<1> QED
  BY <1>1, <1>3, <1>6, OneStepFurther

\* A run that has deployed its pool has that behind it.
LEMMA PoolIsDone ==
  ASSUME IInv, NEW x \in Runs, DeployPool(x), run'[x] # Idle
  PROVE  "pool" \in Done(run'[x])
<1> DEFINE n == [run[x] EXCEPT !.pool = Len(pools) + 1]
<1>1. Doing(x, "pool") /\ Go(x, n)
  BY DEF DeployPool
<1>2. run[x] \in RunType(pools, verifiers, protocols)
  BY <1>1, AtStep DEF RunOk
<1>3. /\ n.script = run[x].script /\ n.at = run[x].at
      /\ n \in [DOMAIN run[x] -> {n[f] : f \in DOMAIN run[x]}]
  BY <1>2 DEF RunType
<1> HIDE DEF n
<1> QED
  BY <1>1, <1>3, OneMoreDone

\* A run that has a new verifier and no pool has just deployed it or had it before.
LEMMA HadVerifier ==
  ASSUME IInv, [Next]_vars, NEW x \in Runs, HasVerifier(run'[x]),
         "pool" \notin Done(run'[x])
  PROVE  \/ DeployVerifier(x)
         \/ /\ HasVerifier(run[x]) /\ "pool" \notin Done(run[x])
            /\ run'[x].verifier = run[x].verifier
<1> DEFINE q == run[x]
           HadIt == /\ HasVerifier(q) /\ "pool" \notin Done(q)
                    /\ run'[x].verifier = q.verifier
<1>1. run'[x] # Idle /\ "verifier" \in Done(run'[x])
  BY DEF HasVerifier
<1>2. CASE Continue(x)
  <2>1. q # Idle /\ q \in RunType(pools, verifiers, protocols) /\ DOMAIN run = Runs
    BY <1>2, StepMoves DEF IInv, RunsOk, RunOk
  <2> DEFINE Same(n) == /\ n.script = q.script /\ n.at = q.at /\ n.verifier = q.verifier
                        /\ n \in [DOMAIN q -> {n[f] : f \in DOMAIN q}]
             Passes(step) == Doing(x, step) /\ \E n : Go(x, n) /\ Same(n)
  <2>2. ASSUME NEW step \in {"confirm", "load", "ask", "key", "pool", "protocol",
                             "initialize", "register", "bls", "push", "write", "publish"},
               Passes(step)
        PROVE  HadIt
    <3>1. PICK n : Go(x, n) /\ Same(n)
      BY <2>2
    <3>2. Done(run'[x]) = Done(q) \cup {step} /\ run'[x].verifier = n.verifier
      BY <1>1, <2>2, <3>1, OneMoreDone
    <3> QED
      BY <1>1, <2>1, <2>2, <3>1, <3>2 DEF HasVerifier
  <2>3. ASSUME NEW v
        PROVE  /\ Same(q) /\ Same([q EXCEPT !.protocol = v])
               /\ Same([q EXCEPT !.file = v]) /\ Same([q EXCEPT !.root = v])
               /\ Same([q EXCEPT !.pool = v])
    BY <2>1 DEF RunType
  <2> HIDE DEF HadIt, Same
  <2>4. ASSUME Confirm(x) PROVE HadIt
    <3>1. Passes("confirm")
      BY <2>3, <2>4 DEF Confirm
    <3> QED
      BY <2>2, <3>1
  <2>5. ASSUME Load(x) PROVE HadIt
    <3>1. Passes("load")
      BY <2>3, <2>5 DEF Load
    <3> QED
      BY <2>2, <3>1
  <2>6. ASSUME Ask(x) PROVE HadIt
    <3>1. Passes("ask")
      BY <2>3, <2>6 DEF Ask
    <3> QED
      BY <2>2, <3>1
  <2>7. ASSUME SetVk(x) PROVE HadIt
    <3>1. Passes("key")
      BY <2>3, <2>7 DEF SetVk
    <3> QED
      BY <2>2, <3>1
  <2>8. ASSUME DeployPool(x) PROVE HadIt
    <3>1. Passes("pool")
      BY <2>3, <2>8 DEF DeployPool
    <3> QED
      BY <2>2, <3>1
  <2>9. ASSUME DeployProtocol(x) PROVE HadIt
    <3>1. Passes("protocol")
      BY <2>3, <2>9 DEF DeployProtocol
    <3> QED
      BY <2>2, <3>1
  <2>10. ASSUME Initialize(x) PROVE HadIt
    <3>1. Passes("initialize")
      BY <2>3, <2>10 DEF Initialize, SetUpProtocol
    <3> QED
      BY <2>2, <3>1
  <2>11. ASSUME RegisterSchema(x) PROVE HadIt
    <3>1. Passes("register")
      BY <2>3, <2>11 DEF RegisterSchema, SetUpProtocol
    <3> QED
      BY <2>2, <3>1
  <2>12. ASSUME Push(x) PROVE HadIt
    <3>1. Passes("push")
      BY <2>3, <2>12 DEF Push
    <3> QED
      BY <2>2, <3>1
  <2>13. ASSUME Write(x) PROVE HadIt
    <3>1. Passes("write")
      BY <2>3, <2>13 DEF Write
    <3> QED
      BY <2>2, <3>1
  <2>14. ASSUME Publish(x) PROVE HadIt
    <3>1. Passes("publish")
      BY <2>3, <2>14 DEF Publish
    <3> QED
      BY <2>2, <3>1
  <2>15. ASSUME RegisterKey(x) PROVE HadIt
    <3>1. Doing(x, "bls") /\ (Set(x, Idle) \/ Go(x, q))
      BY <2>15 DEF RegisterKey
    <3>2. ~Set(x, Idle)
      BY <1>1, <2>1 DEF Set
    <3>3. Passes("bls")
      BY <2>3, <3>1, <3>2
    <3> QED
      BY <2>2, <3>3
  <2>16. ASSUME Retry(x) PROVE HadIt
    <3>1. run'[x] = [q EXCEPT !.tries = @ + 1]
      BY <2>1, <2>16 DEF Retry, Set
    <3>2. run'[x].script = q.script /\ run'[x].at = q.at /\ run'[x].verifier = q.verifier
      BY <2>1, <3>1 DEF RunType
    <3>3. Done(run'[x]) = Done(q)
      BY <3>2 DEF Done
    <3> QED
      BY <1>1, <2>1, <3>2, <3>3 DEF HadIt, HasVerifier
  <2>17. ~Stop(x)
    BY <1>1, <2>1 DEF Stop, Set
  <2> QED
    BY <1>2, <2>4, <2>5, <2>6, <2>7, <2>8, <2>9, <2>10, <2>11, <2>12, <2>13, <2>14, <2>15, <2>16, <2>17
       DEF Continue, Transact, HadIt
<1>3. CASE ~Continue(x)
  <2>1. run'[x] = q \/ \E s \in Used : Start(x, s)
    BY <1>3, OthersStay
  <2>2. ASSUME NEW s \in Used, Start(x, s) PROVE FALSE
    <3>1. run'[x].at = 1
      BY <2>2 DEF Start, Set, IInv, RunsOk
    <3> QED
      BY <1>1, <3>1 DEF Done
  <2>3. Done(run'[x]) = Done(q)
    BY <2>1, <2>2 DEF Done
  <2> QED
    BY <1>1, <2>1, <2>2, <2>3 DEF HasVerifier
<1> QED
  BY <1>2, <1>3

\* Only the scripts deploy pools.
LEMMA NewPools == [Next]_vars => pools' = pools \/ \E r \in Runs : DeployPool(r)
  BY DEF Next, Continue, Transact, Confirm, Load, Ask, DeployVerifier, SetVk, DeployProtocol,
         Initialize, RegisterSchema, SetUpProtocol, RegisterKey, Push, Retry, Write, Publish,
         Stop, Start, AnybodySetsVk, RestartIssuer, vars, chainVars

\* A new verifier stays without a pool until its own run deploys one.
LEMMA UnusedKept == IInv /\ UnusedVerifiers /\ [Next]_vars => UnusedVerifiers'
<1> SUFFICES ASSUME IInv, UnusedVerifiers, [Next]_vars,
                    NEW x \in Runs, HasVerifier(run'[x]), "pool" \notin Done(run'[x]),
                    NEW p \in 1 .. Len(pools')
             PROVE  pools'[p].verifier # run'[x].verifier
  BY DEF UnusedVerifiers, HasVerifier, Done
<1>1. CASE DeployVerifier(x)
  <2>1. /\ pools' = pools /\ HasKey(verifiers, pools[p].verifier)
    BY <1>1 DEF DeployVerifier, IInv, ChainOk, PoolOk
  <2>2. run'[x].verifier = Len(verifiers) + 1 \/ run'[x] = Idle
    BY <1>1 DEF DeployVerifier, Go, Set, IInv, RunsOk, RunOk, RunType, Doing
  <2> QED
    BY <2>1, <2>2, Lengths DEF HasKey, IInv, ChainOk, HasVerifier
<1>2. CASE /\ HasVerifier(run[x]) /\ "pool" \notin Done(run[x])
           /\ run'[x].verifier = run[x].verifier
  <2>1. CASE pools' = pools
    BY <1>2, <2>1 DEF UnusedVerifiers
  <2>2. CASE \E r \in Runs : DeployPool(r)
    <3>1. PICK r \in Runs : DeployPool(r)
      BY <2>2
    <3>2. x # r
      BY <3>1, PoolIsDone DEF HasVerifier
    <3>3. VerifierOf(run[r]) # run[x].verifier
      BY <1>2, <3>1, <3>2, PoolOfItsOwn
    <3>4. /\ Len(pools) \in Nat /\ Len(pools') = Len(pools) + 1
          /\ \A i \in 1 .. Len(pools) : pools'[i] = pools[i]
          /\ pools'[Len(pools) + 1].verifier = VerifierOf(run[r])
      <4>1. pools \in Seq([by : Scripts, verifier : Nat, protocol : Nat])
        BY DEF IInv, ChainOk, Shapes
      <4>2. pools' \in Seq([by : Scripts, verifier : Nat, protocol : Nat])
        BY <3>1, DeployPoolStep DEF IInv, ChainOk, Shapes
      <4>3. pools' = Append(pools, [by |-> run[r].script, verifier |-> VerifierOf(run[r]),
                                    protocol |-> run[r].protocol])
        BY <3>1 DEF DeployPool
      <4> QED
        BY <4>1, <4>2, <4>3, LenProperties
    <3> QED
      BY <1>2, <3>3, <3>4 DEF UnusedVerifiers
  <2> QED
    BY <2>1, <2>2, NewPools
<1> QED
  BY <1>1, <1>2, HadVerifier

\* No script changes the key of a verifier that a pool uses, however many of them run
\* and however they interleave; only a call from outside does.
THEOREM KeysStay == Spec => KeysOfPoolsStay
<1>1. Init => UnusedVerifiers
  BY DEF Init, UnusedVerifiers, HasVerifier
<1>2. IInv /\ UnusedVerifiers /\ [Next]_vars =>
        [\A p \in PoolIds :
           LET v == pools[p].verifier IN
             verifiers'[v] # verifiers[v] =>
               \E key \in OutsideKeys : AnybodySetsVk(v, key)]_vars
  <2> SUFFICES ASSUME IInv, UnusedVerifiers, [Next]_vars, NEW p \in PoolIds,
                      verifiers'[pools[p].verifier] # verifiers[pools[p].verifier]
               PROVE  \E key \in OutsideKeys : AnybodySetsVk(pools[p].verifier, key)
    OBVIOUS
  <2> DEFINE v == pools[p].verifier
  <2>1. v \in 1 .. Len(verifiers) /\ verifiers \in Seq(Keys)
    BY DEF PoolIds, IInv, ChainOk, PoolOk, HasKey, Shapes
  <2>2. ~ \E r \in Runs : DeployVerifier(r)
    <3> SUFFICES ASSUME NEW r \in Runs, DeployVerifier(r) PROVE FALSE
      OBVIOUS
    <3>1. verifiers' = Append(verifiers, "none")
      BY DEF DeployVerifier
    <3> QED
      BY <2>1, <3>1
  <2>3. ~ \E r \in Runs : SetVk(r)
    <3> SUFFICES ASSUME NEW r \in Runs, SetVk(r) PROVE FALSE
      OBVIOUS
    <3>1. /\ run[r] # Idle /\ "verifier" \in Done(run[r]) /\ "pool" \notin Done(run[r])
      BY AtStep DEF SetVk, Order
    <3>2. v # run[r].verifier
      BY <3>1 DEF UnusedVerifiers, HasVerifier, PoolIds
    <3>3. verifiers' = [verifiers EXCEPT ![run[r].verifier] = "eight"]
      BY DEF SetVk
    <3> QED
      BY <2>1, <3>2, <3>3
  <2>4. verifiers' # verifiers
    OBVIOUS
  <2>5. PICK w \in 1 .. MaxVerifiers, key \in OutsideKeys : AnybodySetsVk(w, key)
    BY <2>2, <2>3, <2>4
       DEF Next, Continue, Transact, Confirm, Load, Ask, DeployPool, DeployProtocol,
           Initialize, RegisterSchema, SetUpProtocol, RegisterKey, Push, Retry, Write,
           Publish, Stop, Start, RestartIssuer, vars, chainVars
  <2>6. w = v
    <3>1. verifiers' = [verifiers EXCEPT ![w] = key]
      BY <2>5 DEF AnybodySetsVk
    <3> QED
      BY <2>1, <3>1
  <2> QED
    BY <2>5, <2>6
<1> QED
  BY <1>1, <1>2, UnusedKept, Invariance, PTL DEF Spec, KeysOfPoolsStay
=============================================================================
