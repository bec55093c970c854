------------------------------ MODULE Deployment ------------------------------
(***************************************************************************)
(* Deploying the corridor: the operator's scripts (scripts/deploy-pool-v8  *)
(* to -v12.mjs, deploy-attest-protocol.mjs, register-kyc-bls.mjs,          *)
(* set-registry-root.mjs) against the chain, the issuer and the file of    *)
(* addresses.  The file exists twice: the issuer and the scripts read the  *)
(* one in the repository's root, the web pages the public copy.            *)
(*                                                                         *)
(* A run of a script is a sequence of steps and a private copy of the file *)
(* that it writes back whole.  Runs interleave, fail or are interrupted    *)
(* between any two steps, and are started again.  A contract is known by   *)
(* its place in the order of deployment.                                   *)
(***************************************************************************)
EXTENDS ComplianceTree

CONSTANTS
  Runs,           \* runs that may be going on at the same time
  Used,           \* the scripts that the operator uses
  OutsideKeys,    \* keys that callers other than the scripts may give a verifier
  MaxStarts,      \* bound: runs of scripts, one after the other or together
  MaxPools,       \* bound: pools, the ones there were at first included
  MaxVerifiers,   \* bound: compliance verifiers
  MaxProtocols,   \* bound: AttestProtocol contracts
  MaxAttempts     \* attempts at a deployment (4 or 6) and at set_vk (8)

ASSUME DeploymentAssumption ==
  /\ Used \subseteq {"v8", "v9", "v10", "v11", "v12", "attest", "bls", "root"}
  /\ OutsideKeys \subseteq {"six", "eight", "other"}
  /\ MaxStarts \in Nat
  /\ MaxPools \in Nat /\ MaxVerifiers \in Nat /\ MaxProtocols \in Nat
  /\ MaxAttempts \in Nat \ {0}

VARIABLES
  pools,         \* of each pool: the script, its verifier, its AttestProtocol
  verifiers,     \* the key each compliance verifier holds
  protocols,     \* how far each AttestProtocol has been set up
  blsKeys,       \* the AttestProtocols that know the authority's BLS key
  registryRoot,  \* ComplianceRegistry
  rootFile,      \* testnet-addresses.json
  publicFile,    \* frontend/public/testnet-addresses.json
  issuer,        \* KYC mode: "demo", "registry" as told, or "detected" registry
  started,       \* number of runs so far
  run

chainVars == <<pools, verifiers, protocols, blsKeys, registryRoot>>
offChainVars == <<rootFile, publicFile, issuer, started>>
vars == <<chainVars, offChainVars, run>>

None == 0

\* Of the file: the contracts in use and the fallbacks of the last two scripts.
File(pool, verifier, protocol, v10, v11, v12, oldVerifier) ==
  [pool |-> pool, verifier |-> verifier, protocol |-> protocol,
   v10_prev |-> v10, v11_prev |-> v11, v12_prev |-> v12,
   verifier_v11_prev |-> oldVerifier]
NoFile == File(None, None, None, None, None, None, None)

-----------------------------------------------------------------------------
(***************************************************************************)
(* The scripts: their steps in order and, if they deploy a pool, the       *)
(* arguments they give to its constructor.                                 *)
(***************************************************************************)

V8Args == {"admin", "asset", "compliance_verifier", "shielded_verifier",
           "registry", "corridor_id", "initial_root"}
V9Args == V8Args \cup {"operator_pubkey"}
V10Args == V9Args \cup {"attest_protocol", "kyc_authority", "kyc_schema"}
V11Args == V10Args \cup {"kyc_value_send", "kyc_value_receive"}

\* The arguments that the pool of this repository must be given.
Constructor ==
  {"admin", "asset", "compliance_verifier", "shielded_verifier", "registry",
   "corridor_id", "initial_root", "operator_pubkey", "attest_protocol",
   "kyc_authority", "kyc_schema", "kyc_value_send", "kyc_value_receive"}

ReusesVerifier == <<"confirm", "load", "pool", "write", "publish">>

V8 == [steps |-> ReusesVerifier, args |-> V8Args]
V9 == [steps |-> ReusesVerifier, args |-> V9Args]
V10 == [steps |-> ReusesVerifier, args |-> V10Args]
V11 == [steps |-> ReusesVerifier, args |-> V11Args]

\* Mutant: the file is written before the new verifier has its key.
V12WritesEarly ==
  [steps |-> <<"confirm", "load", "verifier", "pool", "write", "publish", "key">>,
   args |-> V11Args]

V12 ==
  [steps |-> <<"confirm", "load", "verifier", "key", "pool", "write", "publish">>,
   args |-> V11Args]

DeployAttest ==
  [steps |-> <<"protocol", "initialize", "register", "load", "write", "publish">>]
RegisterBls == [steps |-> <<"confirm", "bls", "load", "write", "publish">>]
SetRegistryRoot == [steps |-> <<"load", "ask", "push", "write">>]

Script ==
  [v8 |-> V8, v9 |-> V9, v10 |-> V10, v11 |-> V11, v12 |-> V12,
   attest |-> DeployAttest, bls |-> RegisterBls, root |-> SetRegistryRoot]
Scripts == DOMAIN Script

Idle == [script |-> "none"]
Steps(r) == Script[run[r].script].steps

Doing(r, step) == run[r] # Idle /\ Steps(r)[run[r].at] = step

Set(r, new) == run' = [run EXCEPT ![r] = new]

\* On to the next step with what this one found out, or to the end.
Go(r, q) ==
  Set(r, IF q.at = Len(Steps(r)) THEN Idle ELSE [q EXCEPT !.at = @ + 1, !.tries = 0])

Start(r, s) ==
  /\ run[r] = Idle
  /\ started < MaxStarts
  /\ started' = started + 1
  /\ Set(r, [script |-> s, at |-> 1, tries |-> 0, file |-> NoFile, protocol |-> None,
             verifier |-> None, pool |-> None, root |-> Zero])
  /\ UNCHANGED <<chainVars, rootFile, publicFile, issuer>>

-----------------------------------------------------------------------------
(***************************************************************************)
(* Reading: the issuer's answers and the file.                             *)
(***************************************************************************)

\* /api/kyc/config: the issuer reads the file of addresses for each request.
ConfiguredProtocol == rootFile.protocol

\* waitForIssuer, /api/operator-pubkey and /api/kyc/config.
Confirm(r) ==
  /\ Doing(r, "confirm")
  /\ Go(r, [run[r] EXCEPT !.protocol = ConfiguredProtocol])
  /\ UNCHANGED <<chainVars, offChainVars>>

Load(r) ==
  /\ Doing(r, "load")
  /\ Go(r, [run[r] EXCEPT !.file = rootFile])
  /\ UNCHANGED <<chainVars, offChainVars>>

\* kycMode
Mode == IF issuer = "demo" THEN "demo" ELSE "registry"

\* Mutant: the root is taken from an issuer in either mode.
AskAnyMode(r) ==
  /\ Doing(r, "ask")
  /\ Go(r, [run[r] EXCEPT !.root = complianceKycInputs(Mode, "send").root])
  /\ UNCHANGED <<chainVars, offChainVars>>

\* /api/attestation, which must come from an issuer in registry mode.
Ask(r) ==
  /\ Doing(r, "ask")
  /\ Mode = "registry"
  /\ Go(r, [run[r] EXCEPT !.root = complianceKycInputs(Mode, "send").root])
  /\ UNCHANGED <<chainVars, offChainVars>>

-----------------------------------------------------------------------------
(***************************************************************************)
(* Transactions.                                                           *)
(***************************************************************************)

DeployVerifier(r) ==
  /\ Doing(r, "verifier")
  /\ Len(verifiers) < MaxVerifiers
  /\ verifiers' = Append(verifiers, "none")
  /\ Go(r, [run[r] EXCEPT !.verifier = Len(verifiers) + 1])
  /\ UNCHANGED <<pools, protocols, blsKeys, registryRoot, offChainVars>>

\* Mutant: the key goes to the verifier in use, as an update of the keys would do it.
KeySharedVerifier(r) ==
  /\ Doing(r, "key")
  /\ verifiers' = [verifiers EXCEPT ![run[r].verifier] = "eight", ![run[r].file.verifier] = "eight"]
  /\ Go(r, run[r])
  /\ UNCHANGED <<pools, protocols, blsKeys, registryRoot, offChainVars>>

\* A script's call: the key of the circuit with eight public signals, for the
\* verifier that the run has deployed.
SetVk(r) ==
  /\ Doing(r, "key")
  /\ verifiers' = [verifiers EXCEPT ![run[r].verifier] = "eight"]
  /\ Go(r, run[r])
  /\ UNCHANGED <<pools, protocols, blsKeys, registryRoot, offChainVars>>

\* set_vk asks neither who calls it nor whether there is a key: somebody who runs
\* none of the scripts gives a verifier a key.
AnybodySetsVk(v, key) ==
  /\ v \in DOMAIN verifiers
  /\ verifiers[v] # key
  /\ verifiers' = [verifiers EXCEPT ![v] = key]
  /\ UNCHANGED <<pools, protocols, blsKeys, registryRoot, offChainVars, run>>

\* v12 has its own verifier, the others the one that the file names.
VerifierOf(q) == IF q.script = "v12" THEN q.verifier ELSE q.file.verifier

\* Mutant: an output without a contract id is not noticed.
DeployPoolUnparsed(r) ==
  /\ Doing(r, "pool")
  /\ Script[run[r].script].args = Constructor
  /\ Go(r, run[r])
  /\ UNCHANGED <<chainVars, offChainVars>>

\* Fails for the scripts whose arguments the constructor does not take.
DeployPool(r) ==
  /\ Doing(r, "pool")
  /\ Script[run[r].script].args = Constructor
  /\ Len(pools) < MaxPools
  /\ pools' = Append(pools, [by       |-> run[r].script,
                             verifier |-> VerifierOf(run[r]),
                             protocol |-> run[r].protocol])
  /\ Go(r, [run[r] EXCEPT !.pool = Len(pools) + 1])
  /\ UNCHANGED <<verifiers, protocols, blsKeys, registryRoot, offChainVars>>

DeployProtocol(r) ==
  /\ Doing(r, "protocol")
  /\ Len(protocols) < MaxProtocols
  /\ protocols' = Append(protocols, "deployed")
  /\ Go(r, [run[r] EXCEPT !.protocol = Len(protocols) + 1])
  /\ UNCHANGED <<pools, verifiers, blsKeys, registryRoot, offChainVars>>

\* initialize, and then register, which makes the KYC schema known.
SetUpProtocol(r, step, from, to) ==
  /\ Doing(r, step)
  /\ protocols[run[r].protocol] = from
  /\ protocols' = [protocols EXCEPT ![run[r].protocol] = to]
  /\ Go(r, run[r])
  /\ UNCHANGED <<pools, verifiers, blsKeys, registryRoot, offChainVars>>

Initialize(r) == SetUpProtocol(r, "initialize", "deployed", "initialized")
RegisterSchema(r) == SetUpProtocol(r, "register", "initialized", "ready")

\* register_bls_key may be called once; a script that finds the key there ends.
RegisterKey(r) ==
  /\ Doing(r, "bls")
  /\ IF run[r].protocol \in blsKeys
       THEN Set(r, Idle) /\ UNCHANGED blsKeys
       ELSE Go(r, run[r]) /\ blsKeys' = blsKeys \cup {run[r].protocol}
  /\ UNCHANGED <<pools, verifiers, protocols, registryRoot, offChainVars>>

Push(r) ==
  /\ Doing(r, "push")
  /\ registryRoot' = run[r].root
  /\ Go(r, run[r])
  /\ UNCHANGED <<pools, verifiers, protocols, blsKeys, offChainVars>>

\* Mutant: after a transient error the script starts over.
StartOver(r) ==
  /\ \E step \in {"verifier", "key", "pool", "protocol"} : Doing(r, step)
  /\ run[r].tries + 1 < MaxAttempts
  /\ Set(r, [run[r] EXCEPT !.at = 1])
  /\ UNCHANGED <<chainVars, offChainVars>>

\* A transient error (a sequence number taken, a contract that the RPC node does
\* not see yet): the same call again.  v8 tries its deployment once.
Retry(r) ==
  /\ run[r] # Idle /\ run[r].script # "v8"
  /\ \E step \in {"verifier", "key", "pool", "protocol"} : Doing(r, step)
  /\ run[r].tries + 1 < MaxAttempts
  /\ Set(r, [run[r] EXCEPT !.tries = @ + 1])
  /\ UNCHANGED <<chainVars, offChainVars>>

\* Any other error, the last attempt's, a check that fails, or an interruption.  A
\* transaction that lands although its call fails is the step followed by this.
Stop(r) ==
  /\ run[r] # Idle
  /\ Set(r, Idle)
  /\ UNCHANGED <<chainVars, offChainVars>>

-----------------------------------------------------------------------------
(***************************************************************************)
(* Writing the file.                                                       *)
(***************************************************************************)

IfUnset(old, new) == IF old = None THEN new ELSE old

SavedV11(f, q) ==
  [f EXCEPT !.v10_prev = IfUnset(@, f.pool), !.v11_prev = f.pool, !.pool = q.pool]

SavedV12(f, q) ==
  [f EXCEPT !.v11_prev = IfUnset(@, f.pool), !.v12_prev = f.pool, !.pool = q.pool,
            !.verifier_v11_prev = IfUnset(@, f.verifier), !.verifier = q.verifier]

\* What a run makes of the file f: bls and root only note their transactions.
Edit(f, q) ==
  CASE q.script = "v11"    -> SavedV11(f, q)
    [] q.script = "v12"    -> SavedV12(f, q)
    [] q.script = "attest" -> [f EXCEPT !.protocol = q.protocol]
    [] OTHER               -> f

\* Mutant: the edits are made to the file as it is now.
SavedAfresh(q) == Edit(rootFile, q)

\* The whole file is written back as it was loaded, with the run's edits.
Saved(q) == Edit(q.file, q)

Write(r) ==
  /\ Doing(r, "write")
  /\ rootFile' = Saved(run[r])
  /\ Go(r, [run[r] EXCEPT !.file = Saved(run[r])])
  /\ UNCHANGED <<chainVars, publicFile, issuer, started>>

Publish(r) ==
  /\ Doing(r, "publish")
  /\ publicFile' = run[r].file
  /\ Go(r, run[r])
  /\ UNCHANGED <<chainVars, rootFile, issuer, started>>

-----------------------------------------------------------------------------
(***************************************************************************)
(* The issuer.                                                             *)
(***************************************************************************)

\* resolveKycMode without KYC_MODE: compare the root on the chain; main falls back
\* to the legacy mode when it cannot be read.
DetectedMode(readable) == readable /\ registryRoot # DemoRoot

\* main, with KYC_MODE or without it.
RestartIssuer ==
  /\ \/ issuer' \in {"demo", "registry"}
     \/ \E readable \in BOOLEAN :
          issuer' = IF DetectedMode(readable) THEN "detected" ELSE "demo"
  /\ UNCHANGED <<chainVars, rootFile, publicFile, started, run>>

-----------------------------------------------------------------------------

\* The file as deploy-pool-v10.mjs left it when it was run.  Pools 1 and 2 are of
\* v9 and v10; verifier 1 has the key for six signals.
Init ==
  /\ pools = << [by |-> "v9",  verifier |-> 1, protocol |-> 1],
                [by |-> "v10", verifier |-> 1, protocol |-> 1] >>
  /\ verifiers = <<"six">>
  /\ protocols = <<"ready">>
  /\ blsKeys = {1}
  /\ registryRoot = DemoRoot
  /\ rootFile = File(2, 1, 1, 1, None, None, None)
  /\ publicFile = rootFile
  /\ issuer = "demo"
  /\ started = 0
  /\ run = [r \in Runs |-> Idle]

Transact(r) ==
  \/ DeployVerifier(r)
  \/ SetVk(r)
  \/ DeployPool(r)
  \/ DeployProtocol(r)
  \/ Initialize(r)
  \/ RegisterSchema(r)
  \/ RegisterKey(r)
  \/ Push(r)
  \/ Retry(r)

Continue(r) ==
  \/ Confirm(r)
  \/ Load(r)
  \/ Ask(r)
  \/ Transact(r)
  \/ Write(r)
  \/ Publish(r)
  \/ Stop(r)

Next ==
  \/ \E r \in Runs : Continue(r) \/ \E s \in Used : Start(r, s)
  \/ \E v \in 1 .. MaxVerifiers, key \in OutsideKeys : AnybodySetsVk(v, key)
  \/ RestartIssuer

\* A call of the command line tool returns, and every wait has an end.
Spec == Init /\ [][Next]_vars /\ \A r \in Runs : WF_vars(Continue(r))

-----------------------------------------------------------------------------
(***************************************************************************)
(* Properties.                                                             *)
(***************************************************************************)

PoolIds == 1 .. Len(pools)
VerifierIds == 1 .. Len(verifiers)
ProtocolIds == 1 .. Len(protocols)
Keys == {"none", "six", "eight", "other"}
Roots == {DemoRoot, getRegistryRoot}

Files ==
  [pool : PoolIds, verifier : VerifierIds, protocol : ProtocolIds,
   v10_prev : PoolIds \cup {None}, v11_prev : PoolIds \cup {None},
   v12_prev : PoolIds \cup {None}, verifier_v11_prev : VerifierIds \cup {None}]

IsRun(q) ==
  /\ q \in [script : Scripts, at : Nat, tries : 0 .. MaxAttempts - 1,
            file : Files \cup {NoFile}, protocol : ProtocolIds \cup {None},
            verifier : VerifierIds \cup {None}, pool : PoolIds \cup {None},
            root : Roots \cup {Zero}]
  /\ q.at \in 1 .. Len(Script[q.script].steps)

\* The variables have their types: in particular every address that a file names
\* is that of a contract that exists.
TypeOK ==
  /\ \A p \in PoolIds : pools[p] \in [by : Scripts, verifier : VerifierIds,
                                      protocol : ProtocolIds]
  /\ \A v \in VerifierIds : verifiers[v] \in Keys
  /\ \A p \in ProtocolIds : protocols[p] \in {"deployed", "initialized", "ready"}
  /\ blsKeys \subseteq ProtocolIds
  /\ registryRoot \in Roots
  /\ {rootFile, publicFile} \subseteq Files
  /\ issuer \in {"demo", "registry", "detected"}
  /\ started \in 0 .. MaxStarts
  /\ DOMAIN run = Runs
  /\ \A r \in Runs : run[r] = Idle \/ IsRun(run[r])

\* Nobody is ever sent to a contract that is only half set up, wherever a script was
\* interrupted and whatever was written over: the verifiers that a file names
\* and the one of its pool hold a key, and their AttestProtocols know the KYC
\* schema.
NamedContractsAreReady ==
  \A f \in {rootFile, publicFile} :
    LET p == pools[f.pool] IN
      /\ verifiers[f.verifier] # "none"
      /\ verifiers[p.verifier] # "none"
      /\ protocols[f.protocol] = "ready"
      /\ protocols[p.protocol] = "ready"

\* The pool and the compliance verifier of a file belong together, although two
\* scripts may write over each other's files: the pool was deployed with it.
PoolFitsVerifier ==
  \A f \in {rootFile, publicFile} : pools[f.pool].verifier = f.verifier

\* "v11 + its 6-signal compliance verifier remain deployed and untouched"
\* (deploy-pool-v12.mjs:37): no run of a script, however it interleaves with others,
\* changes the key of a verifier that a pool was deployed with.  Only a call from
\* outside does, which set_vk lets anybody make.
KeysOfPoolsStay ==
  [][\A p \in PoolIds :
       LET v == pools[p].verifier IN
         verifiers'[v] # verifiers[v] => \E key \in OutsideKeys : AnybodySetsVk(v, key)]_vars

\* An issuer that found the registry mode by itself makes proofs that the pool's
\* registry accepts, for both sides of the corridor, for as long as it runs.
DetectedRegistryIsLive ==
  issuer = "detected" =>
    \A side \in {"send", "receive"} :
      LET inputs == complianceKycInputs(Mode, side) IN
        Provable(inputs) /\ inputs.root = registryRoot

\* The steps a run has left at most, repeated ones included.
StepsLeft(q) ==
  IF q = Idle
    THEN 0
    ELSE (Len(Script[q.script].steps) - q.at) * MaxAttempts + (MaxAttempts - q.tries)

\* Each step of a run, a repeated one too, takes it closer to its end, and no other
\* script takes it further away: the longest has seven steps.
RunsGetOn ==
  [][\A r \in Runs :
       LET left == StepsLeft(run[r])  leftNow == StepsLeft(run'[r]) IN
         /\ left <= 7 * MaxAttempts
         /\ Continue(r) => leftNow < left
         /\ run[r] # Idle => left > 0 /\ leftNow <= left]_vars

\* A script ends, in spite of its waits and retries.
EveryRunEnds == \A r \in Runs : run[r] # Idle ~> run[r] = Idle
=============================================================================
