----------------------------- MODULE Deployment -----------------------------
(***************************************************************************)
(* The mainnet deployment: the five scripts of scripts/ that send the      *)
(* deployer's transactions one after the other and keep what they need of  *)
(* them in .mainnet_state.json.  An operator runs one script at a time, in *)
(* any order and again and again; a script may stop at every transaction   *)
(* and at every write of the file.                                         *)
(*                                                                         *)
(* A script is the sequence of the steps it still has to take.  A step is  *)
(* one transaction, or a few of which nothing is kept before the last.     *)
(* The file is a function: 0 for a key it does not have, n for the n-th    *)
(* contract of that kind.                                                  *)
(***************************************************************************)
EXTENDS Integers, Sequences, FiniteSets, SequencesExt

CONSTANTS
  SizeLimits,      \* whether the chain enforces EIP-170, the values to check
  MaxRuns,         \* bound: scripts started
  MaxInterrupts    \* bound: scripts interrupted

ASSUME DeploymentAssumption ==
  /\ SizeLimits \subseteq BOOLEAN
  /\ MaxRuns \in Nat
  /\ MaxInterrupts \in Nat

\* The keys of the file.
Linked    == {"SlotsBitmapLibrary", "SuperfluidPoolDeployerLibrary"}
Oversized == "SuperfluidGDAv1DeployerLibrary"
Libraries == Linked \cup {Oversized}
Addresses == {"PoolINFT", "MockUSDC", "USDCx"}
Txs       == {"mint_1m_usdc", "gda_create_pool"}
Superfluid == Libraries \cup
  {"framework_deployer", "framework", "forwarders", "superTokenFactoryImpl"}
Keys      == Addresses \cup Txs \cup Superfluid

Nothing == [k \in Keys |-> 0]
Torn    == [torn |-> TRUE]   \* a write of the file, or of .env.mainnet, was cut off

VARIABLES
  file,        \* .mainnet_state.json: Nothing before it exists, Torn, or what it says
  env,         \* the addresses in .env.mainnet, or Torn
  script,      \* the script that is running, "none" between two
  prog,        \* the steps it still has to take
  mem,         \* what it knows, as the file would say it
  made,        \* on chain: how many contracts of each kind,
  done,        \*   what has been set up of each framework,
  wraps,       \*   the MockUSDC and the framework of each USDCx,
  funded,      \*   the MockUSDCs the deployer has minted,
  minted,      \*   the PoolINFTs that have a token 1,
  flows,       \*   the GDA pools into which the deployer streams
  sizeLimit,   \* whether the chain enforces EIP-170
  runs, interrupts, forgets   \* history: scripts started, interrupted, and
                              \* started without a use of the file there is

chainVars == <<made, done, wraps, funded, minted, flows>>
vars == <<file, env, script, prog, mem, chainVars, sizeLimit, runs, interrupts, forgets>>

-----------------------------------------------------------------------------
(* The scripts.                                                            *)

Has(m, k) == m[k] # 0

\* deploy_mainnet.py.
PoolinftPhase == <<"PoolINFT", "save">>

\* Mutant: it saves as soon as the contract is there.
UsdcPhaseSavesEarly(skipDeploy) ==
  (IF skipDeploy THEN <<>> ELSE <<"MockUSDC", "save">>) \o <<"mint_1m_usdc">>

UsdcPhase(skipDeploy) ==
  (IF skipDeploy THEN <<>> ELSE <<"MockUSDC">>) \o <<"mint_1m_usdc", "save">>

DemoPhase == <<"PoolINFT.mint", "transferWithAuthorization", "save">>

\* out, with the ABIs that --resume restores left out.
Loaded(resume) ==
  IF resume THEN [k \in Keys |-> IF k \in Superfluid THEN 0 ELSE file[k]] ELSE Nothing

\* Mutant: a contract that is there is deployed again.
PhaseAgain(ph, resume, out) ==
  CASE ph = "poolinft" -> PoolinftPhase
    [] ph = "usdc" -> IF resume /\ Has(out, "MockUSDC") /\ Has(out, "mint_1m_usdc")
                        THEN <<>> ELSE UsdcPhase(resume /\ Has(out, "MockUSDC"))
    [] ph = "demo" -> DemoPhase

Phase(ph, resume, out) ==
  CASE ph = "poolinft" -> IF resume /\ Has(out, "PoolINFT") THEN <<>> ELSE PoolinftPhase
    [] ph = "usdc" -> IF resume /\ Has(out, "MockUSDC") /\ Has(out, "mint_1m_usdc")
                        THEN <<>> ELSE UsdcPhase(resume /\ Has(out, "MockUSDC"))
    [] ph = "demo" -> DemoPhase

DeployMainnet(phase, resume) ==
  LET Chosen(ph) == IF phase \in {ph, "all"} THEN Phase(ph, resume, Loaded(resume)) ELSE <<>>
  IN Chosen("poolinft") \o Chosen("usdc") \o Chosen("demo") \o <<"save", "write_env">>

Phases == {"poolinft", "usdc", "demo", "all"}

\* The components of a framework, in the order of deploy_superfluid_manual.py,
\* each with its implementation, its proxy and the proxy's initialization.
HostSteps == <<"framework", "host", "Host.initialize", "Governance.initialize">>
AgreementSteps ==
  <<"cfa", "registerAgreementClass(CFA proxy)",
    "poolBeacon", "gda", "registerAgreementClass(GDA proxy)", "PoolBeacon.upgradeTo",
    "ida", "registerAgreementClass(IDA proxy)">>
FactorySteps == <<"poolAdminNFT", "superTokenFactory", "Factory.initialize">>

\* Mutant: the framework is saved before its forwarder is trusted.
ForwarderStepsSavedFirst == <<"forwarders", "save", "enableTrustedForwarder(GDA)">>

ForwarderSteps == <<"forwarders", "enableTrustedForwarder(GDA)", "save">>

WrapSteps == <<"USDCx", "save">>

\* Mutant: the stream is left to run.
DemoStepsKeepsFlow ==
  <<"approve", "upgrade", "gda_create_pool", "updateMemberUnits",
    "distributeFlow(rate)", "save">>

\* 11) Demo flow.
DemoSteps ==
  <<"approve", "upgrade", "gda_create_pool", "updateMemberUnits",
    "distributeFlow(rate)", "distributeFlow(0)", "save">>

SuperfluidManual ==
  HostSteps \o AgreementSteps \o FactorySteps \o <<"updateContracts(factory proxy)">>
    \o ForwarderSteps \o WrapSteps \o DemoSteps

\* What the file has is not deployed again.
Missing(k) == IF Has(file, k) THEN <<>> ELSE <<k>>

\* deploy_superfluid_mainnet.py: the libraries the file has are reused, and
\* saved when all are there.
DeployLibraries ==
  Missing("SlotsBitmapLibrary") \o Missing("SuperfluidPoolDeployerLibrary")
    \o Missing(Oversized) \o <<"save">>

\* SuperfluidFrameworkDeployer hands the governance the implementations.
ExecuteSteps ==
  HostSteps \o
  <<"cfa", "registerAgreementClass(CFA)", "poolBeacon", "gda", "registerAgreementClass(GDA)",
    "PoolBeacon.upgradeTo", "ida", "registerAgreementClass(IDA)">>
  \o FactorySteps
  \o <<"updateContracts(factory impl)", "forwarders", "enableTrustedForwarder(GDA)">>

\* deploy_usdcx_wrapper.
MainnetWrapSteps == <<"USDCx", "save">>

\* superfluid_demo: the transactions of the manual script.
SuperfluidDemo == DemoSteps

SuperfluidMainnet ==
  DeployLibraries \o <<"framework_deployer", "save">> \o ExecuteSteps \o <<"save">>
    \o MainnetWrapSteps \o SuperfluidDemo

\* finish_superfluid_demo.py.
FinishFramework ==
  <<"updateContracts(factory impl)">> \o Missing("forwarders")
    \o <<"enableTrustedForwarder(GDA)", "enableTrustedForwarder(CFA)", "save">>

FinishWrapAndDemo == <<"USDCx", "save">> \o DemoSteps

FinishDemo == FinishFramework \o FinishWrapAndDemo

\* more_demo_txs.py.
MoreDemoTxs ==
  <<"authorizeUsage", "cloneWithProof", "USDC.transfer", "transferWithAuthorization", "save">>

-----------------------------------------------------------------------------
(* The chain.                                                              *)

Contracts == Addresses \cup Libraries \cup {"framework_deployer", "framework", "gda_create_pool"}

\* The calls only the governance of a framework may make.
ByProxy ==
  {"registerAgreementClass(CFA proxy)", "registerAgreementClass(GDA proxy)",
   "registerAgreementClass(IDA proxy)"}
ByImplementation ==
  {"registerAgreementClass(CFA)", "registerAgreementClass(GDA)", "registerAgreementClass(IDA)"}
Updates == {"updateContracts(factory proxy)", "updateContracts(factory impl)"}
Governed ==
  Updates \cup ByProxy \cup ByImplementation
    \cup {"enableTrustedForwarder(GDA)", "enableTrustedForwarder(CFA)"}
SetUp ==
  Governed \cup
  {"host", "Host.initialize", "Governance.initialize", "cfa", "poolBeacon", "gda",
   "PoolBeacon.upgradeTo", "ida", "poolAdminNFT", "superTokenFactory", "Factory.initialize",
   "forwarders"}

\* What a framework is used for goes through its forwarder, which reaches no
\* agreement that was registered by its proxy.
Framework == done[mem["framework"]]
Forwards == "enableTrustedForwarder(GDA)" \in Framework
            /\ "registerAgreementClass(GDA)" \in Framework

\* The transactions the contracts do not revert.
Accepted(w) ==
  /\ w = Oversized => ~sizeLimit
  /\ w \in {"Host.initialize", "cfa", "gda", "ida"} => "host" \in Framework
  /\ w = "Governance.initialize" => "Host.initialize" \in Framework
  /\ w \in Governed => "Governance.initialize" \in Framework
  /\ w = "Factory.initialize" => "superTokenFactory" \in Framework
  /\ w = "PoolBeacon.upgradeTo" => {"poolBeacon", "gda"} \subseteq Framework
  /\ w = "enableTrustedForwarder(GDA)" => "forwarders" \in Framework
  /\ w = "USDCx" => Framework \cap Updates # {}
  /\ w \in {"approve", "USDC.transfer", "transferWithAuthorization"} => mem["MockUSDC"] \in funded
  /\ w \in {"authorizeUsage", "cloneWithProof"} => mem["PoolINFT"] \in minted
  /\ w \in {"gda_create_pool", "updateMemberUnits", "distributeFlow(rate)", "distributeFlow(0)"} =>
       Forwards

\* What the contracts may revert all the same, as far as the scripts tell: an
\* updateContracts whose new factory is a proxy in front of a proxy, and the
\* createERC20Wrapper with four arguments, of which finish_superfluid_demo.py
\* says that it needs a mapping that neither of the other scripts initializes.
MayRevert(w) ==
  \/ w = "updateContracts(factory proxy)"
  \/ w = "USDCx" /\ script # "finish_superfluid_demo"

\* What the transaction of step w does.
Mine(w) ==
  /\ made' = IF w \in Contracts THEN [made EXCEPT ![w] = @ + 1] ELSE made
  /\ done' = CASE w = "framework" -> Append(done, {})
               [] w \in SetUp -> [done EXCEPT ![mem["framework"]] = @ \cup {w}]
               [] OTHER -> done
  /\ wraps' = IF w = "USDCx"
                THEN Append(wraps, [usdc |-> mem["MockUSDC"], framework |-> mem["framework"]])
                ELSE wraps
  /\ funded' = IF w = "mint_1m_usdc" THEN funded \cup {mem["MockUSDC"]} ELSE funded
  /\ minted' = IF w = "PoolINFT.mint" THEN minted \cup {mem["PoolINFT"]} ELSE minted
  /\ flows' = CASE w = "distributeFlow(rate)" -> flows \cup {mem["gda_create_pool"]}
                [] w = "distributeFlow(0)" -> flows \ {mem["gda_create_pool"]}
                [] OTHER -> flows

-----------------------------------------------------------------------------
(* Running a script.                                                       *)

Init ==
  \* The file an operator starts from: none, or one in which a part of a
  \* framework was written down by hand.
  /\ \E byHand \in BOOLEAN :
       LET n == IF byHand THEN 1 ELSE 0
           hand == {"PoolINFT", "MockUSDC", "mint_1m_usdc", "framework", "superTokenFactoryImpl"}
                   \cup Linked
       IN /\ file = [k \in Keys |-> IF k \in hand THEN n ELSE 0]
          /\ made = [k \in Contracts |-> IF k \in hand THEN n ELSE 0]
          /\ done = IF byHand THEN <<ToSet(HostSteps \o AgreementSteps \o <<"poolAdminNFT">>) \ {"framework"}>>
                    ELSE <<>>
          /\ funded = 1 .. n
          /\ minted = 1 .. n
  /\ env = [k \in Addresses |-> 0]
  /\ script = "none"
  /\ prog = <<>>
  /\ mem = Nothing
  /\ wraps = <<>>
  /\ flows = {}
  /\ sizeLimit \in SizeLimits
  /\ runs = 0 /\ interrupts = 0 /\ forgets = 0

Start(name, knows, steps) ==
  /\ script = "none"
  /\ runs < MaxRuns
  /\ script' = name
  /\ mem' = knows
  /\ prog' = steps
  /\ runs' = runs + 1
  /\ UNCHANGED <<file, env, chainVars, sizeLimit, interrupts>>

\* With a torn file --resume raises before anything is sent.
StartDeployMainnet(phase, resume) ==
  /\ resume => file # Torn
  /\ Start("deploy_mainnet", Loaded(resume), DeployMainnet(phase, resume))
  /\ forgets' = IF resume \/ file = Nothing THEN forgets ELSE forgets + 1

\* The others read the file and raise, or exit, if it lacks what they need.
Readable(needed) == file # Torn /\ \A k \in needed : Has(file, k)

StartSuperfluidMainnet ==
  /\ Readable({"MockUSDC"})
  /\ Start("deploy_superfluid_mainnet", file, SuperfluidMainnet)
  /\ UNCHANGED forgets
StartSuperfluidManual ==
  /\ Readable({"MockUSDC"} \cup Linked)
  /\ Start("deploy_superfluid_manual", file, SuperfluidManual)
  /\ UNCHANGED forgets
StartFinishDemo ==
  /\ Readable({"MockUSDC", "framework", "superTokenFactoryImpl"})
  /\ Start("finish_superfluid_demo", file, FinishDemo)
  /\ UNCHANGED forgets
StartMoreDemoTxs ==
  /\ Readable({"PoolINFT", "MockUSDC"})
  /\ Start("more_demo_txs", file, MoreDemoTxs)
  /\ UNCHANGED forgets

Exit == script' = "none" /\ prog' = <<>> /\ mem' = Nothing
Rest == prog' = Tail(prog) /\ UNCHANGED script

Sends == prog # <<>> /\ Head(prog) \notin {"save", "write_env"}

\* The addresses a step uses that its script may not know.
Known(w) == /\ w = "PoolINFT.mint" => Has(mem, "PoolINFT")
            /\ w = "transferWithAuthorization" => Has(mem, "MockUSDC")

\* send: the receipt arrives, and what it says of the contract is kept.
Send ==
  /\ Sends
  /\ Known(Head(prog)) /\ Accepted(Head(prog))
  /\ Mine(Head(prog))
  /\ mem' = [k \in Keys |->
       CASE k = Head(prog) /\ k \in Contracts -> made'[k]
         [] k = Head(prog) /\ k = "mint_1m_usdc" -> mem["MockUSDC"]
         [] k = Head(prog) /\ k = "forwarders" -> mem["framework"]
         [] k \in {"forwarders", "superTokenFactoryImpl"} /\ Head(prog) = "framework" -> 0
         [] OTHER -> mem[k]]
  /\ Rest
  /\ UNCHANGED <<file, env, sizeLimit, runs, interrupts, forgets>>

\* Mutant: the status in the receipt is not looked at.
RaiseNot ==
  /\ Sends
  /\ ~(Known(Head(prog)) /\ Accepted(Head(prog))) \/ MayRevert(Head(prog))
  /\ mem' = [k \in Keys |-> IF k = Head(prog) /\ k \in Contracts THEN made[k] + 1 ELSE mem[k]]
  /\ Rest
  /\ UNCHANGED <<file, env, chainVars, sizeLimit, runs, interrupts, forgets>>

\* An address is missing, or the transaction is reverted: the script raises.
Raise ==
  /\ Sends
  /\ ~(Known(Head(prog)) /\ Accepted(Head(prog))) \/ MayRevert(Head(prog))
  /\ Exit
  /\ UNCHANGED <<file, env, chainVars, sizeLimit, runs, interrupts, forgets>>

\* save_state writes what out holds, which has no "superfluid"; the other
\* scripts write all they have read.
SavedState ==
  IF script = "deploy_mainnet"
    THEN [k \in Keys |-> IF k \in Superfluid THEN 0 ELSE mem[k]] ELSE mem

Save ==
  /\ prog # <<>> /\ Head(prog) = "save"
  /\ file' = SavedState
  /\ Rest
  /\ UNCHANGED <<env, mem, chainVars, sizeLimit, runs, interrupts, forgets>>

WriteEnv ==
  /\ prog # <<>> /\ Head(prog) = "write_env"
  /\ env' = [k \in Addresses |-> mem[k]]
  /\ Rest
  /\ UNCHANGED <<file, mem, chainVars, sizeLimit, runs, interrupts, forgets>>

End ==
  /\ script # "none" /\ prog = <<>>
  /\ Exit
  /\ UNCHANGED <<file, env, chainVars, sizeLimit, runs, interrupts, forgets>>

\* The script stops: before its transaction is sent, or after, whether the
\* receipt does not arrive in time or the process is killed; or while it
\* writes a file, which write_text has truncated.
Interrupt ==
  /\ prog # <<>>
  /\ interrupts < MaxInterrupts
  /\ interrupts' = interrupts + 1
  /\ Exit
  /\ \/ UNCHANGED <<file, env, chainVars>>
     \/ Sends /\ Known(Head(prog)) /\ Accepted(Head(prog)) /\ Mine(Head(prog))
        /\ UNCHANGED <<file, env>>
     \/ Head(prog) = "save" /\ file' = Torn /\ UNCHANGED <<env, chainVars>>
     \/ Head(prog) = "write_env" /\ env' = Torn /\ UNCHANGED <<file, chainVars>>
  /\ UNCHANGED <<sizeLimit, runs, forgets>>

Next ==
  \/ \E phase \in Phases, resume \in BOOLEAN : StartDeployMainnet(phase, resume)
  \/ StartSuperfluidMainnet
  \/ StartSuperfluidManual
  \/ StartFinishDemo
  \/ StartMoreDemoTxs
  \/ Send \/ Raise \/ Save \/ WriteEnv \/ End
  \/ Interrupt

Spec == Init /\ [][Next]_vars

-----------------------------------------------------------------------------
(* What must hold.                                                         *)

Files == [Keys -> Nat]

TypeOK ==
  /\ file \in Files \/ file = Torn
  /\ env \in [Addresses -> Nat] \/ env = Torn
  /\ mem \in Files
  /\ made \in [Contracts -> Nat]
  /\ \A f \in DOMAIN done : done[f] \subseteq SetUp
  /\ Len(done) = made["framework"]
  /\ Len(wraps) = made["USDCx"]
  /\ funded \subseteq 1 .. made["MockUSDC"]
  /\ minted \subseteq 1 .. made["PoolINFT"]
  /\ flows \subseteq 1 .. made["gda_create_pool"]

\* A contract is written down when it is deployed and never before: whatever
\* is interrupted, .mainnet_state.json and .env.mainnet name no contract that
\* is not there.
RecordedOnChain ==
  /\ file # Torn => \A k \in Contracts : file[k] <= made[k]
  /\ env # Torn => \A k \in Addresses : env[k] <= made[k]

\* The records belong together: the MockUSDC is one the deployer was minted,
\* and the USDCx wraps it.  Between two runs, of which none was interrupted,
\* the USDCx is of the framework the file names, unless that framework has no
\* USDCx at all: its script was refused at the wrapper, and the file is left
\* with the wrapper of an earlier one.
RecordsAgree ==
  file # Torn =>
    /\ Has(file, "MockUSDC") => file["MockUSDC"] \in funded
    /\ file["mint_1m_usdc"] = file["MockUSDC"]
    /\ Has(file, "USDCx") => wraps[file["USDCx"]].usdc = file["MockUSDC"]
    /\ script = "none" /\ interrupts = 0 /\ Has(file, "USDCx") /\ Has(file, "framework") =>
         \/ wraps[file["USDCx"]].framework = file["framework"]
         \/ \A u \in DOMAIN wraps : wraps[u].framework # file["framework"]

\* What finish_superfluid_demo.py relies on when it reuses the forwarders of
\* the file, and the orchestrator when it is given them: they belong to the
\* framework of the file, which is whole: its host and governance are there,
\* the three agreements and a factory are registered, and the GDA forwarder is
\* trusted.  That does not make it usable: either the agreements and the
\* factory are registered by implementation, and calls of the forwarder get
\* through, or the agreements are registered by proxy, and then they do not.
Parts ==
  {"Host.initialize", "Governance.initialize", "cfa", "gda", "ida", "PoolBeacon.upgradeTo",
   "forwarders", "enableTrustedForwarder(GDA)"}
RegisteredByImplementation(d) == ByImplementation \cup {"updateContracts(factory impl)"} \subseteq d
RegisteredByProxy(d) == ByProxy \subseteq d /\ d \cap Updates # {}
Whole(d) == Parts \subseteq d /\ (RegisteredByImplementation(d) \/ RegisteredByProxy(d))
SavedFrameworkReady ==
  file # Torn /\ Has(file, "forwarders") =>
    file["forwarders"] = file["framework"] /\ Whole(done[file["framework"]])

\* The demo streams the deployer's tokens and no later run stops a stream: as
\* many are left open as scripts were interrupted, at most.
FlowsClosed == script = "none" => Cardinality(flows) <= interrupts

\* --resume: "skip phases whose contracts are already deployed".  A second
\* contract is only deployed after an interruption, or if the operator leaves
\* --resume out.
ResumeDeploysOnce ==
  \A k \in {"PoolINFT", "MockUSDC"} : made[k] <= 1 + forgets + interrupts

=============================================================================
