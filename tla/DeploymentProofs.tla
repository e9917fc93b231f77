-------------------------- MODULE DeploymentProofs --------------------------
(***************************************************************************)
(* What the deployment scripts' records are worth, for any number of runs  *)
(* and interruptions.  A script is the sequence of the steps it has yet to *)
(* take: lemmas say what holds of the pieces the programs are joined from  *)
(* and of what remains of one, and the invariant relies on that.           *)
(***************************************************************************)
EXTENDS Deployment, FiniteSetTheorems, TLAPS

\* What a script knows of is there, too.
KnownOnChain == \A k \in Contracts : mem[k] <= made[k]

Typed ==
  /\ file \in Files \/ file = Torn
  /\ mem \in Files
  /\ env \in [Addresses -> Nat] \/ env = Torn
  /\ made \in [Contracts -> Nat]

RecordsInv == Typed /\ KnownOnChain /\ RecordedOnChain

LEMMA ContractKeys == Contracts \subseteq Keys /\ Addresses \subseteq Contracts /\ "torn" \notin Keys
BY DEF Contracts, Keys, Superfluid, Libraries, Addresses, Txs, Linked, Oversized

\* A transaction deploys at most one contract and takes none away.
LEMMA MineAdds ==
  ASSUME Typed, NEW w, Mine(w)
  PROVE  /\ made' \in [Contracts -> Nat]
         /\ \A k \in Contracts : made[k] <= made'[k]
BY DEF Mine, Typed

LEMMA RecordsInit == Init => RecordsInv
<1> SUFFICES ASSUME Init PROVE RecordsInv
  OBVIOUS
<1> DEFINE hand == {"PoolINFT", "MockUSDC", "mint_1m_usdc", "framework", "superTokenFactoryImpl"}
                   \cup Linked
<1>1. PICK n \in {0, 1} : /\ file = [k \in Keys |-> IF k \in hand THEN n ELSE 0]
                          /\ made = [k \in Contracts |-> IF k \in hand THEN n ELSE 0]
  BY DEF Init
<1>2. env = [k \in Addresses |-> 0] /\ mem = Nothing
  BY DEF Init
<1> QED
  BY <1>1, <1>2, ContractKeys
     DEF RecordsInv, Typed, KnownOnChain, RecordedOnChain, Files, Nothing

\* What a script that starts knows, it has read.
LEMMA StartKnows ==
  ASSUME RecordsInv, NEW knows \in Files, NEW name, NEW steps,
         \A k \in Contracts : knows[k] <= made[k],
         Start(name, knows, steps)
  PROVE  RecordsInv'
BY DEF RecordsInv, Typed, KnownOnChain, RecordedOnChain, Start, chainVars

LEMMA RecordsStep ==
  ASSUME RecordsInv, [Next]_vars
  PROVE  RecordsInv'
<1> USE DEF RecordsInv, Typed
<1>1. CASE UNCHANGED vars
  BY <1>1 DEF vars, chainVars, KnownOnChain, RecordedOnChain
<1>2. ASSUME NEW phase \in Phases, NEW resume \in BOOLEAN, StartDeployMainnet(phase, resume)
      PROVE  RecordsInv'
  <2>1. Loaded(resume) \in Files
    BY <1>2 DEF StartDeployMainnet, Loaded, Files, Nothing
  <2>2. \A k \in Contracts : Loaded(resume)[k] <= made[k]
    BY <1>2, ContractKeys DEF StartDeployMainnet, Loaded, Nothing, RecordedOnChain
  <2> QED
    BY <1>2, <2>1, <2>2, StartKnows DEF StartDeployMainnet
<1>3. ASSUME StartSuperfluidMainnet \/ StartSuperfluidManual \/ StartFinishDemo \/ StartMoreDemoTxs
      PROVE  RecordsInv'
  <2>1. file \in Files /\ file # Torn
    BY <1>3 DEF StartSuperfluidMainnet, StartSuperfluidManual, StartFinishDemo, StartMoreDemoTxs,
                Readable
  <2>2. \A k \in Contracts : file[k] <= made[k]
    BY <2>1 DEF RecordedOnChain
  <2>3. \E name, steps : Start(name, file, steps)
    BY <1>3 DEF StartSuperfluidMainnet, StartSuperfluidManual, StartFinishDemo, StartMoreDemoTxs
  <2> QED
    BY <2>1, <2>2, <2>3, StartKnows
<1>4. CASE Send
  <2>1. /\ made' \in [Contracts -> Nat]
        /\ \A k \in Contracts : made[k] <= made'[k]
    BY <1>4, MineAdds DEF Send
  <2>2. PICK w : w = Head(prog)
    OBVIOUS
  <2>3. mem' = [k \in Keys |->
          CASE k = w /\ k \in Contracts -> made'[k]
            [] k = w /\ k = "mint_1m_usdc" -> mem["MockUSDC"]
            [] k = w /\ k = "forwarders" -> mem["framework"]
            [] k \in {"forwarders", "superTokenFactoryImpl"} /\ w = "framework" -> 0
            [] OTHER -> mem[k]]
    BY <1>4, <2>2 DEF Send
  <2>4. {"MockUSDC", "framework"} \subseteq Keys
        /\ Contracts \cap {"mint_1m_usdc", "forwarders", "superTokenFactoryImpl"} = {}
    BY DEF Keys, Addresses, Superfluid, Contracts, Libraries, Linked, Oversized
  <2>5. mem' \in Files
    BY <2>1, <2>3, <2>4, ContractKeys DEF Files
  <2>6. \A k \in Contracts : mem'[k] = made'[k] \/ mem'[k] = mem[k]
    BY <2>3, <2>4, ContractKeys
  <2>7. \A k \in Contracts : mem[k] \in Nat /\ made[k] \in Nat /\ made'[k] \in Nat /\ mem[k] <= made[k]
    BY <2>1, ContractKeys DEF KnownOnChain, Files
  <2>8. KnownOnChain'
    BY <2>1, <2>6, <2>7 DEF KnownOnChain
  <2>9. file' = file /\ env' = env
    BY <1>4 DEF Send
  <2>10. RecordedOnChain'
    <3>1. \A k \in Contracts : file # Torn => file[k] \in Nat
      BY ContractKeys DEF Files
    <3> QED
      BY <2>1, <2>7, <2>9, <3>1, ContractKeys DEF RecordedOnChain
  <2> QED
    BY <2>1, <2>5, <2>8, <2>9, <2>10
<1>5. ASSUME Raise \/ End PROVE RecordsInv'
  BY <1>5, ContractKeys DEF Raise, End, Exit, chainVars, KnownOnChain, RecordedOnChain, Nothing, Files
<1>6. CASE Save
  <2>1. file' = SavedState /\ UNCHANGED <<env, mem, made>>
    BY <1>6 DEF Save, chainVars
  <2>2. SavedState \in Files /\ \A k \in Contracts : SavedState[k] <= made[k]
    BY ContractKeys DEF SavedState, Files, KnownOnChain
  <2> QED
    BY <2>1, <2>2 DEF KnownOnChain, RecordedOnChain
<1>7. CASE WriteEnv
  <2>1. env' = [k \in Addresses |-> mem[k]] /\ UNCHANGED <<file, mem, made>>
    BY <1>7 DEF WriteEnv, chainVars
  <2>2. \A k \in Addresses : mem[k] \in Nat /\ mem[k] <= made[k]
    BY ContractKeys DEF Files, KnownOnChain
  <2> QED
    BY <2>1, <2>2 DEF KnownOnChain, RecordedOnChain
<1>8. CASE Interrupt
  <2>1. mem' = Nothing /\ (env' = env \/ env' = Torn) /\ (file' = file \/ file' = Torn)
    BY <1>8 DEF Interrupt, Exit, chainVars
  <2>2. /\ made' \in [Contracts -> Nat]
        /\ \A k \in Contracts : made[k] <= made'[k]
    BY <1>8, MineAdds DEF Interrupt, chainVars
  <2>3. /\ \A k \in Contracts : made[k] \in Nat /\ made'[k] \in Nat /\ (file \in Files => file[k] \in Nat)
        /\ env # Torn => \A k \in Addresses : env[k] \in Nat
    BY <2>2, ContractKeys DEF Files
  <2>4. RecordedOnChain'
    BY <2>1, <2>2, <2>3, ContractKeys DEF RecordedOnChain
  <2> QED
    BY <2>1, <2>2, <2>4, ContractKeys DEF KnownOnChain, Nothing, Files
<1> QED
  BY <1>1, <1>2, <1>3, <1>4, <1>5, <1>6, <1>7, <1>8 DEF Next

\* .mainnet_state.json and .env.mainnet name no contract that is not on chain,
\* whichever scripts run and wherever they are interrupted.
THEOREM RecordsAreReal == Spec => []RecordedOnChain
<1>1. RecordsInv => RecordedOnChain
  BY DEF RecordsInv
<1> QED
  BY <1>1, RecordsInit, RecordsStep, PTL DEF Spec

-----------------------------------------------------------------------------
(* Sequences of steps.                                                     *)

Steps(s) == {s[i] : i \in 1 .. Len(s)}

\* The steps before the i-th, and those before each of the steps x.
Before(s, i) == {s[j] : j \in 1 .. i - 1}
At(s, x)     == {Before(s, i) : i \in {i \in 1 .. Len(s) : s[i] = x}}

\* Each x is followed by a y; each y but a first step follows an x.
Follows(s, x, y)   == \A i \in 1 .. Len(s) : s[i] = x => i < Len(s) /\ s[i + 1] = y
OnlyAfter(s, x, y) == \A i \in 2 .. Len(s) : s[i] = y => s[i - 1] = x

Names ==
  SetUp \cup Contracts \cup
  {"save", "write_env", "mint_1m_usdc", "PoolINFT.mint", "approve", "upgrade", "updateMemberUnits",
   "distributeFlow(rate)", "distributeFlow(0)", "authorizeUsage", "cloneWithProof",
   "USDC.transfer", "transferWithAuthorization"}
Programs == Seq(Names)

LEMMA ConcatSteps ==
  ASSUME NEW s \in Programs, NEW t \in Programs
  PROVE  /\ s \o t \in Programs /\ Len(s \o t) = Len(s) + Len(t)
         /\ \A i \in 1 .. Len(s) : (s \o t)[i] = s[i]
         /\ \A i \in 1 .. Len(t) : (s \o t)[Len(s) + i] = t[i]
         /\ \A i \in 1 .. Len(s \o t) : i \in 1 .. Len(s) \/ \E j \in 1 .. Len(t) : i = Len(s) + j
<1>1. s \o t \in Programs /\ Len(s \o t) = Len(s) + Len(t) /\ Len(s) \in Nat /\ Len(t) \in Nat
  BY DEF Programs
<1>2. \A i \in 1 .. Len(s) : (s \o t)[i] = s[i]
  BY DEF Programs
<1>3. \A i \in 1 .. Len(t) : (s \o t)[Len(s) + i] = t[i]
  BY DEF Programs
<1>4. ASSUME NEW i \in 1 .. Len(s \o t), i \notin 1 .. Len(s) PROVE \E j \in 1 .. Len(t) : i = Len(s) + j
  <2>1. i - Len(s) \in 1 .. Len(t) /\ i = Len(s) + (i - Len(s))
    BY <1>1, <1>4
  <2> QED
    BY <2>1
<1> QED
  BY <1>1, <1>2, <1>3, <1>4

LEMMA StepsConcat ==
  ASSUME NEW s \in Programs, NEW t \in Programs
  PROVE  Steps(s \o t) = Steps(s) \cup Steps(t)
<1>1. ASSUME NEW x \in Steps(s \o t) PROVE x \in Steps(s) \cup Steps(t)
  BY <1>1, ConcatSteps DEF Steps
<1>2. ASSUME NEW x \in Steps(s) PROVE x \in Steps(s \o t)
  <2>1. PICK i \in 1 .. Len(s) : x = s[i]
    BY <1>2 DEF Steps
  <2>2. i \in 1 .. Len(s \o t) /\ x = (s \o t)[i]
    BY <2>1, ConcatSteps DEF Programs
  <2> QED
    BY <2>2 DEF Steps
<1>3. ASSUME NEW x \in Steps(t) PROVE x \in Steps(s \o t)
  <2>1. PICK i \in 1 .. Len(t) : x = t[i]
    BY <1>3 DEF Steps
  <2>2. Len(s) + i \in 1 .. Len(s \o t) /\ x = (s \o t)[Len(s) + i]
    BY <2>1, ConcatSteps DEF Programs
  <2> QED
    BY <2>2 DEF Steps
<1> QED
  BY <1>1, <1>2, <1>3

LEMMA BeforeConcat ==
  ASSUME NEW s \in Programs, NEW t \in Programs
  PROVE  /\ \A i \in 1 .. Len(s) : Before(s \o t, i) = Before(s, i)
         /\ \A i \in 1 .. Len(t) : Before(s \o t, Len(s) + i) = Steps(s) \cup Before(t, i)
<1>1. Len(s) \in Nat /\ Len(t) \in Nat
  BY DEF Programs
<1>2. ASSUME NEW i \in 1 .. Len(s) PROVE Before(s \o t, i) = Before(s, i)
  <2>1. \A j \in 1 .. i - 1 : (s \o t)[j] = s[j]
    BY <1>1, ConcatSteps
  <2> QED
    BY <2>1 DEF Before
<1>3. ASSUME NEW i \in 1 .. Len(t) PROVE Before(s \o t, Len(s) + i) = Steps(s) \cup Before(t, i)
  <2>1. ASSUME NEW x \in Before(s \o t, Len(s) + i) PROVE x \in Steps(s) \cup Before(t, i)
    <3>1. PICK j \in 1 .. Len(s) + i - 1 : x = (s \o t)[j]
      BY <2>1 DEF Before
    <3>2. CASE j <= Len(s)
      BY <1>1, <3>1, <3>2, ConcatSteps DEF Steps
    <3>3. CASE j > Len(s)
      <4>1. j - Len(s) \in 1 .. i - 1 /\ j - Len(s) \in 1 .. Len(t) /\ j = Len(s) + (j - Len(s))
        BY <1>1, <3>1, <3>3
      <4>2. x = t[j - Len(s)]
        BY <3>1, <4>1, ConcatSteps
      <4> QED
        BY <4>1, <4>2 DEF Before
    <3> QED
      BY <1>1, <3>2, <3>3
  <2>2. ASSUME NEW x \in Steps(s) PROVE x \in Before(s \o t, Len(s) + i)
    <3>1. PICK j \in 1 .. Len(s) : x = s[j]
      BY <2>2 DEF Steps
    <3>2. j \in 1 .. Len(s) + i - 1 /\ x = (s \o t)[j]
      BY <1>1, <3>1, ConcatSteps
    <3> QED
      BY <3>2 DEF Before
  <2>3. ASSUME NEW x \in Before(t, i) PROVE x \in Before(s \o t, Len(s) + i)
    <3>1. PICK j \in 1 .. i - 1 : x = t[j]
      BY <2>3 DEF Before
    <3>2. Len(s) + j \in 1 .. Len(s) + i - 1 /\ x = (s \o t)[Len(s) + j]
      BY <1>1, <3>1, ConcatSteps
    <3> QED
      BY <3>2 DEF Before
  <2> QED
    BY <2>1, <2>2, <2>3
<1> QED
  BY <1>2, <1>3

LEMMA AtConcat ==
  ASSUME NEW s \in Programs, NEW t \in Programs, NEW x
  PROVE  At(s \o t, x) = At(s, x) \cup {Steps(s) \cup b : b \in At(t, x)}
<1>1. Len(s) \in Nat /\ Len(t) \in Nat
  BY DEF Programs
<1>2. ASSUME NEW b \in At(s \o t, x) PROVE b \in At(s, x) \cup {Steps(s) \cup c : c \in At(t, x)}
  <2>1. PICK i \in 1 .. Len(s \o t) : (s \o t)[i] = x /\ b = Before(s \o t, i)
    BY <1>2 DEF At
  <2>2. CASE i \in 1 .. Len(s)
    <3>1. /\ \A k \in 1 .. Len(s) : (s \o t)[k] = s[k]
          /\ \A k \in 1 .. Len(s) : Before(s \o t, k) = Before(s, k)
      BY ConcatSteps, BeforeConcat
    <3>2. s[i] = x /\ b = Before(s, i)
      BY <2>1, <2>2, <3>1
    <3>3. \E k \in 1 .. Len(s) : s[k] = x /\ b = Before(s, k)
      BY <2>2, <3>2
    <3>4. b \in At(s, x)
      BY <3>3 DEF At
    <3> QED
      BY <3>4
  <2>3. ASSUME NEW j \in 1 .. Len(t), i = Len(s) + j
        PROVE  b \in {Steps(s) \cup c : c \in At(t, x)}
    <3>1. /\ \A k \in 1 .. Len(t) : (s \o t)[Len(s) + k] = t[k]
          /\ \A k \in 1 .. Len(t) : Before(s \o t, Len(s) + k) = Steps(s) \cup Before(t, k)
      BY ConcatSteps, BeforeConcat
    <3>2. t[j] = x /\ b = Steps(s) \cup Before(t, j)
      BY <2>1, <2>3, <3>1
    <3>3. Before(t, j) \in At(t, x)
      BY <3>2 DEF At
    <3> QED
      BY <3>2, <3>3
  <2> QED
    BY <2>1, <2>2, <2>3, ConcatSteps
<1>3. ASSUME NEW b \in At(s, x) PROVE b \in At(s \o t, x)
  <2>1. PICK i \in 1 .. Len(s) : s[i] = x /\ b = Before(s, i)
    BY <1>3 DEF At
  <2>2. i \in 1 .. Len(s \o t) /\ (s \o t)[i] = x /\ b = Before(s \o t, i)
    BY <1>1, <2>1, ConcatSteps, BeforeConcat
  <2> QED
    BY <2>2 DEF At
<1>4. ASSUME NEW b \in At(t, x) PROVE Steps(s) \cup b \in At(s \o t, x)
  <2>1. PICK i \in 1 .. Len(t) : t[i] = x /\ b = Before(t, i)
    BY <1>4 DEF At
  <2>2. (s \o t)[Len(s) + i] = t[i] /\ Before(s \o t, Len(s) + i) = Steps(s) \cup Before(t, i)
    <3>1. \A k \in 1 .. Len(t) : (s \o t)[Len(s) + k] = t[k]
      BY ConcatSteps
    <3>2. \A k \in 1 .. Len(t) : Before(s \o t, Len(s) + k) = Steps(s) \cup Before(t, k)
      BY BeforeConcat
    <3> QED
      BY <3>1, <3>2
  <2>3. Len(s) + i \in 1 .. Len(s \o t)
    BY <1>1, ConcatSteps
  <2>4. Len(s) + i \in 1 .. Len(s \o t) /\ (s \o t)[Len(s) + i] = x
        /\ Steps(s) \cup b = Before(s \o t, Len(s) + i)
    BY <2>1, <2>2, <2>3
  <2> QED
    BY <2>4 DEF At
<1> QED
  BY <1>2, <1>3, <1>4

\* Nothing is before a step that is not taken.
LEMMA AtAbsent ==
  ASSUME NEW s, NEW x, x \notin Steps(s)
  PROVE  At(s, x) = {}
BY DEF At, Steps

LEMMA AtWithin ==
  ASSUME NEW s \in Programs, NEW x, NEW b \in At(s, x)
  PROVE  b \subseteq Steps(s)
<1>1. PICK i \in 1 .. Len(s) : b = Before(s, i)
  BY DEF At
<1>2. \A j \in 1 .. i - 1 : j \in 1 .. Len(s)
  BY DEF Programs
<1> QED
  BY <1>1, <1>2 DEF Before, Steps

\* When the first step has been taken.
LEMMA TailSteps ==
  ASSUME NEW s \in Programs, s # <<>>
  PROVE  /\ Tail(s) \in Programs /\ Len(Tail(s)) = Len(s) - 1 /\ Len(s) \in Nat \ {0}
         /\ Head(s) = s[1]
         /\ \A i \in 1 .. Len(s) - 1 : Tail(s)[i] = s[i + 1]
         /\ Steps(s) = {Head(s)} \cup Steps(Tail(s))
<1>1. /\ Tail(s) \in Programs /\ Len(Tail(s)) = Len(s) - 1 /\ Len(s) \in Nat \ {0}
      /\ Head(s) = s[1]
      /\ \A i \in 1 .. Len(s) - 1 : Tail(s)[i] = s[i + 1]
  BY DEF Programs
<1>2. ASSUME NEW x \in Steps(s) PROVE x \in {Head(s)} \cup Steps(Tail(s))
  <2>1. PICK i \in 1 .. Len(s) : x = s[i]
    BY <1>2 DEF Steps
  <2>2. CASE i = 1
    BY <1>1, <2>1, <2>2
  <2>3. CASE i # 1
    <3>1. i - 1 \in 1 .. Len(Tail(s)) /\ Tail(s)[i - 1] = s[i - 1 + 1] /\ i - 1 + 1 = i
      BY <1>1, <2>1, <2>3
    <3> QED
      BY <2>1, <3>1 DEF Steps
  <2> QED
    BY <2>2, <2>3
<1>3. ASSUME NEW x \in Steps(Tail(s)) PROVE x \in Steps(s)
  <2>1. PICK i \in 1 .. Len(Tail(s)) : x = Tail(s)[i]
    BY <1>3 DEF Steps
  <2>2. i + 1 \in 1 .. Len(s) /\ x = s[i + 1]
    BY <1>1, <2>1
  <2> QED
    BY <2>2 DEF Steps
<1>4. Head(s) \in Steps(s)
  BY <1>1 DEF Steps
<1> QED
  BY <1>1, <1>2, <1>3, <1>4

LEMMA TailBefore ==
  ASSUME NEW s \in Programs, s # <<>>, NEW i \in 1 .. Len(Tail(s))
  PROVE  Before(s, i + 1) = {Head(s)} \cup Before(Tail(s), i)
<1>1. ASSUME NEW x \in Before(s, i + 1) PROVE x \in {Head(s)} \cup Before(Tail(s), i)
  <2>1. PICK j \in 1 .. i : x = s[j]
    BY <1>1, TailSteps DEF Before
  <2>2. CASE j = 1
    BY <2>1, <2>2, TailSteps
  <2>3. CASE j # 1
    <3>1. j - 1 \in 1 .. i - 1 /\ Tail(s)[j - 1] = s[j - 1 + 1] /\ j - 1 + 1 = j
      BY <2>1, <2>3, TailSteps
    <3> QED
      BY <2>1, <3>1 DEF Before
  <2> QED
    BY <2>2, <2>3
<1>2. ASSUME NEW x \in Before(Tail(s), i) PROVE x \in Before(s, i + 1)
  <2>1. PICK j \in 1 .. i - 1 : x = Tail(s)[j]
    BY <1>2 DEF Before
  <2>2. j + 1 \in 1 .. i + 1 - 1 /\ x = s[j + 1]
    BY <2>1, TailSteps
  <2> QED
    BY <2>2 DEF Before
<1>3. Head(s) \in Before(s, i + 1)
  BY TailSteps DEF Before
<1> QED
  BY <1>1, <1>2, <1>3

LEMMA AtTail ==
  ASSUME NEW s \in Programs, s # <<>>, NEW x
  PROVE  /\ \A b \in At(Tail(s), x) : {Head(s)} \cup b \in At(s, x)
         /\ Head(s) = x => {} \in At(s, x)
<1>1. ASSUME NEW b \in At(Tail(s), x) PROVE {Head(s)} \cup b \in At(s, x)
  <2>1. PICK i \in 1 .. Len(Tail(s)) : Tail(s)[i] = x /\ b = Before(Tail(s), i)
    BY <1>1 DEF At
  <2>2. i + 1 \in 1 .. Len(s) /\ s[i + 1] = x
    BY <2>1, TailSteps
  <2>3. {Head(s)} \cup b = Before(s, i + 1)
    <3>1. Before(s, i + 1) = {Head(s)} \cup Before(Tail(s), i)
      BY TailBefore
    <3> QED
      BY <2>1, <3>1
  <2> QED
    BY <2>2, <2>3 DEF At
<1>2. ASSUME Head(s) = x PROVE {} \in At(s, x)
  <2>1. 1 \in 1 .. Len(s) /\ s[1] = x /\ Before(s, 1) = {}
    BY <1>2, TailSteps DEF Before
  <2> QED
    BY <2>1 DEF At
<1> QED
  BY <1>1, <1>2
-----------------------------------------------------------------------------
(* What comes right after what, in every program.                          *)

FlowOn  == "distributeFlow(rate)"
FlowOff == "distributeFlow(0)"

Windows(s) ==
  /\ Follows(s, "PoolINFT", "save")
  /\ Follows(s, "MockUSDC", "mint_1m_usdc")
  /\ Follows(s, "mint_1m_usdc", "save")
  /\ Follows(s, "USDCx", "save")
  /\ Follows(s, FlowOn, FlowOff)
  /\ OnlyAfter(s, FlowOn, FlowOff)

\* A piece of a program that may come first.
Block(s) == s \in Programs /\ Windows(s) /\ (s # <<>> => s[1] # FlowOff)

LEMMA FollowsConcat ==
  ASSUME NEW s \in Programs, NEW t \in Programs, NEW x, NEW y, Follows(s, x, y), Follows(t, x, y)
  PROVE  Follows(s \o t, x, y)
<1>1. Len(s) \in Nat /\ Len(t) \in Nat
  BY DEF Programs
<1> SUFFICES ASSUME NEW i \in 1 .. Len(s \o t), (s \o t)[i] = x
             PROVE  i < Len(s \o t) /\ (s \o t)[i + 1] = y
  BY DEF Follows
<1>2. CASE i \in 1 .. Len(s)
  <2>1. \A k \in 1 .. Len(s) : (s \o t)[k] = s[k]
    BY ConcatSteps
  <2>2. i < Len(s) /\ s[i + 1] = y
    BY <1>2, <2>1 DEF Follows
  <2>3. i + 1 \in 1 .. Len(s) /\ Len(s \o t) = Len(s) + Len(t)
    BY <1>1, <1>2, <2>2, ConcatSteps
  <2> QED
    BY <1>1, <2>1, <2>2, <2>3
<1>3. ASSUME NEW j \in 1 .. Len(t), i = Len(s) + j
      PROVE  i < Len(s \o t) /\ (s \o t)[i + 1] = y
  <2>1. \A k \in 1 .. Len(t) : (s \o t)[Len(s) + k] = t[k]
    BY ConcatSteps
  <2>2. j < Len(t) /\ t[j + 1] = y
    BY <1>3, <2>1 DEF Follows
  <2>3. j + 1 \in 1 .. Len(t) /\ i + 1 = Len(s) + (j + 1) /\ i < Len(s \o t)
    BY <1>1, <1>3, <2>2, ConcatSteps
  <2>4. (s \o t)[Len(s) + (j + 1)] = t[j + 1]
    BY <2>1, <2>3
  <2>5. (s \o t)[i + 1] = t[j + 1]
    BY <2>3, <2>4, Zenon
  <2> QED
    BY <1>3, <2>2, <2>3, <2>5
<1>4. i \in 1 .. Len(s) \/ \E j \in 1 .. Len(t) : i = Len(s) + j
  BY ConcatSteps
<1> QED
  BY <1>2, <1>3, <1>4, Zenon

LEMMA OnlyAfterConcat ==
  ASSUME NEW s \in Programs, NEW t \in Programs, NEW x, NEW y, OnlyAfter(s, x, y), OnlyAfter(t, x, y),
         t # <<>> => t[1] # y
  PROVE  OnlyAfter(s \o t, x, y)
<1>1. Len(s) \in Nat /\ Len(t) \in Nat /\ (Len(t) # 0 => t # <<>>)
  <2>1. Len(s) \in Nat /\ Len(t) \in Nat
    BY DEF Programs
  <2>2. t = <<>> => Len(t) = 0
    OBVIOUS
  <2> QED
    BY <2>1, <2>2
<1> SUFFICES ASSUME NEW i \in 2 .. Len(s \o t), (s \o t)[i] = y
             PROVE  (s \o t)[i - 1] = x
  BY DEF OnlyAfter
<1>2. i \in 1 .. Len(s \o t) /\ Len(s \o t) = Len(s) + Len(t)
  BY <1>1, ConcatSteps
<1>3. CASE i \in 1 .. Len(s)
  <2>1. \A k \in 1 .. Len(s) : (s \o t)[k] = s[k]
    BY ConcatSteps
  <2>2. i \in 2 .. Len(s) /\ i - 1 \in 1 .. Len(s)
    BY <1>1, <1>3
  <2>3. s[i] = y
    BY <1>3, <2>1
  <2>4. s[i - 1] = x
    BY <2>2, <2>3 DEF OnlyAfter
  <2> QED
    BY <2>1, <2>2, <2>4
<1>4. CASE i > Len(s)
  <2>1. \A k \in 1 .. Len(t) : (s \o t)[Len(s) + k] = t[k]
    BY ConcatSteps
  <2>2. PICK j \in 1 .. Len(t) : i = Len(s) + j
    <3>1. i - Len(s) \in 1 .. Len(t) /\ i = Len(s) + (i - Len(s))
      BY <1>1, <1>2, <1>4
    <3> QED
      BY <3>1
  <2>3. t[j] = y
    BY <2>1, <2>2
  <2>4. j # 1
    BY <1>1, <2>2, <2>3
  <2>5. j \in 2 .. Len(t) /\ j - 1 \in 1 .. Len(t) /\ i - 1 = Len(s) + (j - 1)
    BY <1>1, <2>2, <2>4
  <2>6. t[j - 1] = x
    BY <2>3, <2>5 DEF OnlyAfter
  <2> QED
    BY <2>1, <2>5, <2>6
<1> QED
  BY <1>1, <1>2, <1>3, <1>4

LEMMA BlockConcat ==
  ASSUME NEW s, NEW t, Block(s), Block(t)
  PROVE  Block(s \o t)
<1>1. s \in Programs /\ t \in Programs /\ s \o t \in Programs
  BY ConcatSteps DEF Block
<1>2. Windows(s \o t)
  <2>1. Follows(s \o t, "PoolINFT", "save")
    BY <1>1, FollowsConcat DEF Block, Windows
  <2>2. Follows(s \o t, "MockUSDC", "mint_1m_usdc")
    BY <1>1, FollowsConcat DEF Block, Windows
  <2>3. Follows(s \o t, "mint_1m_usdc", "save")
    BY <1>1, FollowsConcat DEF Block, Windows
  <2>4. Follows(s \o t, "USDCx", "save")
    BY <1>1, FollowsConcat DEF Block, Windows
  <2>5. Follows(s \o t, FlowOn, FlowOff)
    BY <1>1, FollowsConcat DEF Block, Windows
  <2>6. OnlyAfter(s \o t, FlowOn, FlowOff)
    BY <1>1, OnlyAfterConcat DEF Block, Windows
  <2> QED
    BY <2>1, <2>2, <2>3, <2>4, <2>5, <2>6 DEF Windows
<1>3. ASSUME s \o t # <<>> PROVE (s \o t)[1] # FlowOff
  <2>1. CASE s = <<>>
    <3>1. s \o t = t
      BY <1>1, <2>1 DEF Programs
    <3> QED
      BY <1>3, <3>1 DEF Block
  <2>2. CASE s # <<>>
    <3>1. 1 \in 1 .. Len(s)
      BY <1>1, <2>2 DEF Programs
    <3>2. (s \o t)[1] = s[1]
      BY <1>1, <3>1, ConcatSteps
    <3> QED
      BY <2>2, <3>2 DEF Block
  <2> QED
    BY <2>1, <2>2
<1> QED
  BY <1>1, <1>2, <1>3 DEF Block

LEMMA WindowsTail ==
  ASSUME NEW s \in Programs, s # <<>>, Windows(s)
  PROVE  /\ Windows(Tail(s))
         /\ Head(s) \in {"PoolINFT", "mint_1m_usdc", "USDCx"} => Tail(s) # <<>> /\ Head(Tail(s)) = "save"
         /\ Head(s) = "MockUSDC" => Tail(s) # <<>> /\ Head(Tail(s)) = "mint_1m_usdc"
         /\ Head(s) = FlowOn => Tail(s) # <<>> /\ Head(Tail(s)) = FlowOff
         /\ Tail(s) # <<>> /\ Head(Tail(s)) = FlowOff => Head(s) = FlowOn
<1>1. /\ Tail(s) \in Programs /\ Len(Tail(s)) = Len(s) - 1 /\ Len(s) \in Nat \ {0}
      /\ Head(s) = s[1]
      /\ \A i \in 1 .. Len(s) - 1 : Tail(s)[i] = s[i + 1]
  BY TailSteps
<1>2. ASSUME NEW x, NEW y, Follows(s, x, y)
      PROVE  /\ Follows(Tail(s), x, y)
             /\ Head(s) = x => Tail(s) # <<>> /\ Head(Tail(s)) = y
  <2>1. ASSUME NEW i \in 1 .. Len(Tail(s)), Tail(s)[i] = x
        PROVE  i < Len(Tail(s)) /\ Tail(s)[i + 1] = y
    <3>1. i + 1 \in 1 .. Len(s) /\ s[i + 1] = x
      BY <1>1, <2>1
    <3>2. i + 1 < Len(s) /\ s[i + 1 + 1] = y
      BY <1>2, <3>1 DEF Follows
    <3>3. i + 1 \in 1 .. Len(s) - 1
      BY <1>1, <3>2
    <3> QED
      BY <1>1, <3>2, <3>3
  <2>2. ASSUME Head(s) = x PROVE Tail(s) # <<>> /\ Head(Tail(s)) = y
    <3>1. 1 < Len(s) /\ s[1 + 1] = y
      BY <1>1, <1>2, <2>2 DEF Follows
    <3>2. 1 \in 1 .. Len(s) - 1 /\ Tail(s)[1] = y /\ Len(Tail(s)) # 0
      BY <1>1, <3>1
    <3>3. Tail(s) # <<>>
      <4>1. Len(<<>>) = 0
        OBVIOUS
      <4> QED
        BY <3>2, <4>1
    <3>4. Head(Tail(s)) = Tail(s)[1]
      BY <1>1, <3>3, TailSteps
    <3> QED
      BY <3>2, <3>3, <3>4
  <2> QED
    BY <2>1, <2>2 DEF Follows
<1>3. OnlyAfter(Tail(s), FlowOn, FlowOff)
  <2>1. ASSUME NEW i \in 2 .. Len(Tail(s)), Tail(s)[i] = FlowOff
        PROVE  Tail(s)[i - 1] = FlowOn
    <3>1. i + 1 \in 2 .. Len(s) /\ s[i + 1] = FlowOff /\ i \in 1 .. Len(s) - 1 /\ i - 1 \in 1 .. Len(s) - 1
      BY <1>1, <2>1
    <3>2. s[i + 1 - 1] = FlowOn
      BY <3>1 DEF Windows, OnlyAfter
    <3>3. Tail(s)[i - 1] = s[i - 1 + 1] /\ i - 1 + 1 = i + 1 - 1
      BY <1>1, <3>1
    <3> QED
      BY <3>2, <3>3
  <2> QED
    BY <2>1 DEF OnlyAfter
<1>4. ASSUME Tail(s) # <<>>, Head(Tail(s)) = FlowOff PROVE Head(s) = FlowOn
  <2>1. 1 \in 1 .. Len(Tail(s)) /\ Tail(s)[1] = FlowOff
    BY <1>1, <1>4 DEF Programs
  <2>2. 2 \in 2 .. Len(s) /\ s[2] = FlowOff
    BY <1>1, <2>1
  <2>3. s[2 - 1] = FlowOn
    BY <2>2 DEF Windows, OnlyAfter
  <2> QED
    BY <1>1, <2>3
<1>5. Windows(Tail(s))
  BY <1>2, <1>3 DEF Windows
<1>6. Head(s) \in {"PoolINFT", "mint_1m_usdc", "USDCx"} => Tail(s) # <<>> /\ Head(Tail(s)) = "save"
  BY <1>2 DEF Windows
<1>7. /\ Head(s) = "MockUSDC" => Tail(s) # <<>> /\ Head(Tail(s)) = "mint_1m_usdc"
      /\ Head(s) = FlowOn => Tail(s) # <<>> /\ Head(Tail(s)) = FlowOff
  BY <1>2 DEF Windows
<1> QED
  BY <1>4, <1>5, <1>6, <1>7
-----------------------------------------------------------------------------
(* The pieces of the programs.                                             *)

LEMMA NamesAre ==
  Names =
    {"host", "Host.initialize", "Governance.initialize", "cfa", "poolBeacon", "gda",
     "PoolBeacon.upgradeTo", "ida", "poolAdminNFT", "superTokenFactory", "Factory.initialize",
     "forwarders",
     "updateContracts(factory proxy)", "updateContracts(factory impl)",
     "enableTrustedForwarder(GDA)", "enableTrustedForwarder(CFA)",
     "registerAgreementClass(CFA)", "registerAgreementClass(CFA proxy)",
     "registerAgreementClass(GDA)", "registerAgreementClass(GDA proxy)",
     "registerAgreementClass(IDA)", "registerAgreementClass(IDA proxy)",
     "PoolINFT", "MockUSDC", "USDCx", "SlotsBitmapLibrary", "SuperfluidPoolDeployerLibrary",
     "SuperfluidGDAv1DeployerLibrary", "framework_deployer", "framework", "gda_create_pool"}
    \cup
    {"save", "write_env", "mint_1m_usdc", "PoolINFT.mint", "approve", "upgrade", "updateMemberUnits",
     "distributeFlow(rate)", "distributeFlow(0)", "authorizeUsage", "cloneWithProof",
     "USDC.transfer", "transferWithAuthorization"}
BY DEF Names, SetUp, Governed, Updates, ByProxy, ByImplementation, Contracts, Addresses, Libraries, Linked, Oversized

Timed == {"PoolINFT", "MockUSDC", "mint_1m_usdc", "USDCx", FlowOn, FlowOff}

\* A piece that has none of the steps in a window may stand anywhere.
LEMMA PlainBlock ==
  ASSUME NEW s \in Programs,
         Steps(s) \cap Timed = {}
  PROVE  Block(s)
<1>1. \A i \in 1 .. Len(s) : s[i] \notin Timed
  BY DEF Steps
<1>2. Windows(s)
  BY <1>1 DEF Timed, Windows, Follows, OnlyAfter, Programs
<1>3. s # <<>> => 1 \in 1 .. Len(s)
  BY DEF Programs
<1> QED
  BY <1>1, <1>2, <1>3 DEF Block, Timed

LEMMA StepAt ==
  ASSUME NEW s, NEW i \in 1 .. Len(s)
  PROVE  s[i] \in Steps(s)
BY DEF Steps

\* A piece in which nothing is saved and no framework is deployed either.
Quiet(s) == Block(s) /\ Steps(s) \cap (Timed \cup {"framework", "save"}) = {}

LEMMA Piece ==
  ASSUME NEW S, S \subseteq Names, S \cap Timed = {}, NEW s \in Seq(S)
  PROVE  Block(s) /\ Steps(s) \subseteq S
<1>1. s \in Programs
  BY DEF Programs
<1>2. Steps(s) \subseteq S
  BY DEF Steps
<1> QED
  BY <1>1, <1>2, PlainBlock

LEMMA QuietPiece ==
  ASSUME NEW S, S \subseteq Names, S \cap (Timed \cup {"framework", "save"}) = {}, NEW s \in Seq(S)
  PROVE  Quiet(s) /\ Steps(s) \subseteq S
BY Piece DEF Quiet

LEMMA QuietConcat ==
  ASSUME NEW s, NEW t, Quiet(s), Quiet(t)
  PROVE  Quiet(s \o t)
<1>1. Block(s \o t)
  BY BlockConcat DEF Quiet
<1>2. Steps(s \o t) = Steps(s) \cup Steps(t)
  BY StepsConcat DEF Quiet, Block
<1> QED
  BY <1>1, <1>2 DEF Quiet

HostNames == {"framework", "host", "Host.initialize", "Governance.initialize"}

LEMMA HostPiece ==
  /\ Block(HostSteps)
  /\ Steps(HostSteps) \subseteq HostNames
  /\ {"framework", "Host.initialize", "Governance.initialize"} \subseteq Steps(HostSteps)
  /\ \A b \in At(HostSteps, "framework") : b = {}
<1>1. HostSteps \in Seq(HostNames)
  BY DEF HostSteps, HostNames
<1>2. HostNames \subseteq Names /\ HostNames \cap Timed = {}
  BY NamesAre DEF HostNames, Timed, FlowOn, FlowOff
<1>3. {"framework", "Host.initialize", "Governance.initialize"} \subseteq Steps(HostSteps)
  BY DEF Steps, HostSteps
<1>4. \A b \in At(HostSteps, "framework") : b = {}
  BY DEF At, Before, HostSteps
<1>5. Block(HostSteps) /\ Steps(HostSteps) \subseteq HostNames
  BY <1>1, <1>2, Piece
<1> QED
  BY <1>3, <1>4, <1>5


AgreementNames ==
  {"cfa", "registerAgreementClass(CFA proxy)", "poolBeacon", "gda",
   "registerAgreementClass(GDA proxy)", "PoolBeacon.upgradeTo", "ida", "registerAgreementClass(IDA proxy)"}

LEMMA AgreementPiece ==
  /\ Quiet(AgreementSteps)
  /\ Steps(AgreementSteps) \subseteq AgreementNames
  /\ {"cfa", "gda", "ida", "PoolBeacon.upgradeTo"} \cup ByProxy \subseteq Steps(AgreementSteps)
<1>1. AgreementSteps \in Seq(AgreementNames)
  BY DEF AgreementSteps, AgreementNames
<1>2. AgreementNames \subseteq Names /\ AgreementNames \cap (Timed \cup {"framework", "save"}) = {}
  BY NamesAre DEF AgreementNames, Timed, FlowOn, FlowOff
<1>3. Quiet(AgreementSteps) /\ Steps(AgreementSteps) \subseteq AgreementNames
  BY <1>1, <1>2, QuietPiece
<1>4. /\ Len(AgreementSteps) = 8
      /\ AgreementSteps[1] = "cfa" /\ AgreementSteps[2] = "registerAgreementClass(CFA proxy)"
      /\ AgreementSteps[4] = "gda" /\ AgreementSteps[5] = "registerAgreementClass(GDA proxy)"
      /\ AgreementSteps[6] = "PoolBeacon.upgradeTo"
      /\ AgreementSteps[7] = "ida" /\ AgreementSteps[8] = "registerAgreementClass(IDA proxy)"
  BY DEF AgreementSteps
<1>5. \A i \in 1 .. 8 : AgreementSteps[i] \in Steps(AgreementSteps)
  BY <1>4, StepAt
<1>6. {"cfa", "gda", "ida", "PoolBeacon.upgradeTo"} \subseteq Steps(AgreementSteps)
  <2>1. 1 \in 1 .. 8 /\ 4 \in 1 .. 8 /\ 6 \in 1 .. 8 /\ 7 \in 1 .. 8
    OBVIOUS
  <2> QED
    BY <1>4, <1>5, <2>1
<1>7. ByProxy \subseteq Steps(AgreementSteps)
  <2>1. 2 \in 1 .. 8 /\ 5 \in 1 .. 8 /\ 8 \in 1 .. 8
    OBVIOUS
  <2> QED
    BY <1>4, <1>5, <2>1 DEF ByProxy
<1> QED
  BY <1>3, <1>6, <1>7

\* The agreements as SuperfluidFrameworkDeployer registers them.
RegisterSteps ==
  <<"cfa", "registerAgreementClass(CFA)", "poolBeacon", "gda", "registerAgreementClass(GDA)",
    "PoolBeacon.upgradeTo", "ida", "registerAgreementClass(IDA)">>

RegisterNames ==
  {"cfa", "registerAgreementClass(CFA)", "poolBeacon", "gda",
   "registerAgreementClass(GDA)", "PoolBeacon.upgradeTo", "ida", "registerAgreementClass(IDA)"}

LEMMA RegisterPiece ==
  /\ Quiet(RegisterSteps)
  /\ Steps(RegisterSteps) \subseteq RegisterNames
  /\ {"cfa", "gda", "ida", "PoolBeacon.upgradeTo"} \cup ByImplementation \subseteq Steps(RegisterSteps)
<1>1. RegisterSteps \in Seq(RegisterNames)
  BY DEF RegisterSteps, RegisterNames
<1>2. RegisterNames \subseteq Names /\ RegisterNames \cap (Timed \cup {"framework", "save"}) = {}
  BY NamesAre DEF RegisterNames, Timed, FlowOn, FlowOff
<1>3. Quiet(RegisterSteps) /\ Steps(RegisterSteps) \subseteq RegisterNames
  BY <1>1, <1>2, QuietPiece
<1>4. /\ Len(RegisterSteps) = 8
      /\ RegisterSteps[1] = "cfa" /\ RegisterSteps[2] = "registerAgreementClass(CFA)"
      /\ RegisterSteps[4] = "gda" /\ RegisterSteps[5] = "registerAgreementClass(GDA)"
      /\ RegisterSteps[6] = "PoolBeacon.upgradeTo"
      /\ RegisterSteps[7] = "ida" /\ RegisterSteps[8] = "registerAgreementClass(IDA)"
  BY DEF RegisterSteps
<1>5. \A i \in 1 .. 8 : RegisterSteps[i] \in Steps(RegisterSteps)
  BY <1>4, StepAt
<1>6. {"cfa", "gda", "ida", "PoolBeacon.upgradeTo"} \subseteq Steps(RegisterSteps)
  <2>1. 1 \in 1 .. 8 /\ 4 \in 1 .. 8 /\ 6 \in 1 .. 8 /\ 7 \in 1 .. 8
    OBVIOUS
  <2> QED
    BY <1>4, <1>5, <2>1
<1>7. ByImplementation \subseteq Steps(RegisterSteps)
  <2>1. 2 \in 1 .. 8 /\ 5 \in 1 .. 8 /\ 8 \in 1 .. 8
    OBVIOUS
  <2> QED
    BY <1>4, <1>5, <2>1 DEF ByImplementation
<1> QED
  BY <1>3, <1>6, <1>7

FactoryNames == {"poolAdminNFT", "superTokenFactory", "Factory.initialize"}

LEMMA FactoryPiece == Quiet(FactorySteps) /\ Steps(FactorySteps) \subseteq FactoryNames
<1>1. FactorySteps \in Seq(FactoryNames)
  BY DEF FactorySteps, FactoryNames
<1>2. FactoryNames \subseteq Names /\ FactoryNames \cap (Timed \cup {"framework", "save"}) = {}
  BY NamesAre DEF FactoryNames, Timed, FlowOn, FlowOff
<1> QED
  BY <1>1, <1>2, QuietPiece

LEMMA UpdatePiece ==
  ASSUME NEW u \in Updates
  PROVE  Quiet(<<u>>) /\ Steps(<<u>>) = {u}
<1>1. {u} \subseteq Names /\ {u} \cap (Timed \cup {"framework", "save"}) = {}
  BY NamesAre DEF Updates, Timed, FlowOn, FlowOff
<1>2. <<u>> \in Seq({u})
  OBVIOUS
<1>3. Steps(<<u>>) = {u}
  BY DEF Steps
<1> QED
  BY <1>1, <1>2, <1>3, QuietPiece

\* The end of ExecuteSteps.
TrustSteps ==
  <<"updateContracts(factory impl)", "forwarders", "enableTrustedForwarder(GDA)">>

TrustNames ==
  {"updateContracts(factory impl)", "forwarders", "enableTrustedForwarder(GDA)"}

LEMMA TrustPiece == Quiet(TrustSteps) /\ Steps(TrustSteps) = TrustNames
<1>1. TrustSteps \in Seq(TrustNames)
  BY DEF TrustSteps, TrustNames
<1>2. TrustNames \subseteq Names /\ TrustNames \cap (Timed \cup {"framework", "save"}) = {}
  BY NamesAre DEF TrustNames, Timed, FlowOn, FlowOff
<1>3. /\ Len(TrustSteps) = 3
      /\ TrustSteps[1] = "updateContracts(factory impl)"
      /\ TrustSteps[2] = "forwarders" /\ TrustSteps[3] = "enableTrustedForwarder(GDA)"
  BY DEF TrustSteps
<1>4. \A i \in 1 .. 3 : TrustSteps[i] \in Steps(TrustSteps)
  BY <1>3, StepAt
<1>5. TrustNames \subseteq Steps(TrustSteps)
  <2>1. 1 \in 1 .. 3 /\ 2 \in 1 .. 3 /\ 3 \in 1 .. 3
    OBVIOUS
  <2> QED
    BY <1>3, <1>4, <2>1 DEF TrustNames
<1> QED
  BY <1>1, <1>2, <1>5, QuietPiece

LEMMA MissingPiece ==
  ASSUME NEW k \in Libraries \cup {"forwarders"}
  PROVE  Quiet(Missing(k)) /\ Steps(Missing(k)) = IF Has(file, k) THEN {} ELSE {k}
<1>1. {k} \subseteq Names /\ {k} \cap (Timed \cup {"framework", "save"}) = {}
  BY NamesAre DEF Libraries, Linked, Oversized, Timed, FlowOn, FlowOff
<1>2. Missing(k) \in Seq({k})
  BY DEF Missing
<1>3. Steps(Missing(k)) = IF Has(file, k) THEN {} ELSE {k}
  BY DEF Steps, Missing
<1> QED
  BY <1>1, <1>2, <1>3, QuietPiece

\* A step, or two, that end in a save.
SaveStep == <<"save">>

LEMMA SavePiece ==
  /\ Block(SaveStep) /\ Steps(SaveStep) = {"save"}
  /\ \A b \in At(SaveStep, "save") : b = {}
<1>1. SaveStep \in Seq({"save"}) /\ Steps(SaveStep) = {"save"}
  BY DEF SaveStep, Steps
<1>2. {"save"} \subseteq Names /\ {"save"} \cap Timed = {}
  BY NamesAre DEF Timed, FlowOn, FlowOff
<1>3. Block(SaveStep)
  BY <1>1, <1>2, Piece
<1>4. \A b \in At(SaveStep, "save") : b = {}
  BY DEF At, Before, SaveStep
<1> QED
  BY <1>1, <1>3, <1>4

LEMMA ForwarderPiece ==
  /\ Block(ForwarderSteps)
  /\ Steps(ForwarderSteps) \subseteq {"forwarders", "enableTrustedForwarder(GDA)", "save"}
  /\ {"forwarders", "enableTrustedForwarder(GDA)"} \subseteq Steps(ForwarderSteps)
  /\ \A b \in At(ForwarderSteps, "save") : {"forwarders", "enableTrustedForwarder(GDA)"} \subseteq b
<1> DEFINE Elements == {"forwarders", "enableTrustedForwarder(GDA)", "save"}
<1>1. ForwarderSteps \in Seq(Elements)
  BY DEF ForwarderSteps
<1>2. Elements \subseteq Names /\ Elements \cap Timed = {}
  BY NamesAre DEF Timed, FlowOn, FlowOff
<1>3. Block(ForwarderSteps) /\ Steps(ForwarderSteps) \subseteq Elements
  <2> HIDE DEF Elements
  <2> QED
    BY <1>1, <1>2, Piece
<1>4. {"forwarders", "enableTrustedForwarder(GDA)"} \subseteq Steps(ForwarderSteps)
  BY DEF Steps, ForwarderSteps
<1>5. ASSUME NEW b \in At(ForwarderSteps, "save")
      PROVE  {"forwarders", "enableTrustedForwarder(GDA)"} \subseteq b
  <2>1. b = Before(ForwarderSteps, 3)
    BY DEF At, ForwarderSteps
  <2>2. 1 \in 1 .. 3 - 1 /\ 2 \in 1 .. 3 - 1 /\ ForwarderSteps[1] = "forwarders"
        /\ ForwarderSteps[2] = "enableTrustedForwarder(GDA)"
    BY DEF ForwarderSteps
  <2> QED
    BY <2>1, <2>2 DEF Before
<1> QED
  BY <1>3, <1>4, <1>5

\* The end of finish_superfluid_demo.py's part of the framework.
ReTrustSteps == <<"enableTrustedForwarder(GDA)", "enableTrustedForwarder(CFA)", "save">>

LEMMA ReTrustPiece ==
  /\ Block(ReTrustSteps)
  /\ Steps(ReTrustSteps) \subseteq {"enableTrustedForwarder(GDA)", "enableTrustedForwarder(CFA)", "save"}
  /\ "enableTrustedForwarder(GDA)" \in Steps(ReTrustSteps)
  /\ \A b \in At(ReTrustSteps, "save") : "enableTrustedForwarder(GDA)" \in b
<1> DEFINE Elements == {"enableTrustedForwarder(GDA)", "enableTrustedForwarder(CFA)", "save"}
<1>1. ReTrustSteps \in Seq(Elements)
  BY DEF ReTrustSteps
<1>2. Elements \subseteq Names /\ Elements \cap Timed = {}
  BY NamesAre DEF Timed, FlowOn, FlowOff
<1>3. Block(ReTrustSteps) /\ Steps(ReTrustSteps) \subseteq Elements
  <2> HIDE DEF Elements
  <2> QED
    BY <1>1, <1>2, Piece
<1>4. "enableTrustedForwarder(GDA)" \in Steps(ReTrustSteps)
  BY DEF Steps, ReTrustSteps
<1>5. ASSUME NEW b \in At(ReTrustSteps, "save")
      PROVE  "enableTrustedForwarder(GDA)" \in b
  <2>1. b = Before(ReTrustSteps, 3)
    BY DEF At, ReTrustSteps
  <2>2. 1 \in 1 .. 3 - 1 /\ ReTrustSteps[1] = "enableTrustedForwarder(GDA)"
    BY DEF ReTrustSteps
  <2> QED
    BY <2>1, <2>2 DEF Before
<1> QED
  BY <1>3, <1>4, <1>5

LEMMA WrapPiece ==
  Block(WrapSteps) /\ Steps(WrapSteps) = {"USDCx", "save"}
<1>1. WrapSteps \in Seq({"USDCx", "save"}) /\ Steps(WrapSteps) = {"USDCx", "save"}
  BY DEF WrapSteps, Steps
<1>2. {"USDCx", "save"} \subseteq Names
  BY NamesAre
<1>3. WrapSteps \in Programs
  BY <1>1, <1>2 DEF Programs
<1>4. Windows(WrapSteps) /\ WrapSteps # <<>> /\ WrapSteps[1] = "USDCx"
  BY DEF Windows, Follows, OnlyAfter, FlowOn, FlowOff, WrapSteps
<1> QED
  BY <1>1, <1>3, <1>4 DEF Block, FlowOff

DemoNames ==
  {"approve", "upgrade", "gda_create_pool", "updateMemberUnits", FlowOn, FlowOff, "save"}

LEMMA DemoPiece == Block(DemoSteps) /\ Steps(DemoSteps) \subseteq DemoNames
<1>1. DemoSteps \in Seq(DemoNames)
  BY DEF DemoSteps, DemoNames, FlowOn, FlowOff
<1>2. DemoNames \subseteq Names
  BY NamesAre DEF DemoNames, FlowOn, FlowOff
<1>3. DemoSteps \in Programs
  BY <1>1, <1>2 DEF Programs
<1>4. Steps(DemoSteps) \subseteq DemoNames
  BY <1>1 DEF Steps
<1>5. \A i \in 1 .. Len(DemoSteps) : DemoSteps[i] \notin {"PoolINFT", "MockUSDC", "mint_1m_usdc", "USDCx"}
  BY DEF DemoSteps
<1>6. Follows(DemoSteps, FlowOn, FlowOff)
  BY DEF Follows, DemoSteps, FlowOn, FlowOff
<1>7. OnlyAfter(DemoSteps, FlowOn, FlowOff)
  BY DEF OnlyAfter, DemoSteps, FlowOn, FlowOff
<1>8. Windows(DemoSteps)
  BY <1>5, <1>6, <1>7 DEF Windows, Follows
<1>9. DemoSteps[1] # FlowOff
  BY DEF DemoSteps, FlowOff
<1> QED
  BY <1>3, <1>4, <1>8, <1>9 DEF Block

MoreNames == {"authorizeUsage", "cloneWithProof", "USDC.transfer", "transferWithAuthorization", "save"}

LEMMA MorePiece == Block(MoreDemoTxs) /\ Steps(MoreDemoTxs) \subseteq MoreNames
<1>1. MoreDemoTxs \in Seq(MoreNames)
  BY DEF MoreDemoTxs, MoreNames
<1>2. MoreNames \subseteq Names /\ MoreNames \cap Timed = {}
  BY NamesAre DEF MoreNames, Timed, FlowOn, FlowOff
<1> QED
  BY <1>1, <1>2, Piece

\* What --resume may leave of the phases of deploy_mainnet.py.
LEMMA PoolinftPiece ==
  /\ Block(PoolinftPhase)
  /\ Steps(PoolinftPhase) = {"PoolINFT", "save"}
  /\ \A b \in At(PoolinftPhase, "PoolINFT") : b = {}
<1>1. PoolinftPhase \in Seq({"PoolINFT", "save"}) /\ Steps(PoolinftPhase) = {"PoolINFT", "save"}
  BY DEF PoolinftPhase, Steps
<1>2. {"PoolINFT", "save"} \subseteq Names
  BY NamesAre
<1>3. PoolinftPhase \in Programs
  BY <1>1, <1>2 DEF Programs
<1>4. Windows(PoolinftPhase) /\ PoolinftPhase[1] = "PoolINFT"
  BY DEF Windows, Follows, OnlyAfter, FlowOn, FlowOff, PoolinftPhase
<1>5. \A b \in At(PoolinftPhase, "PoolINFT") : b = {}
  BY DEF At, Before, PoolinftPhase
<1> QED
  BY <1>1, <1>3, <1>4, <1>5 DEF Block, FlowOff

DemoPhaseNames == {"PoolINFT.mint", "transferWithAuthorization", "save"}

LEMMA DemoPhasePiece == Block(DemoPhase) /\ Steps(DemoPhase) \subseteq DemoPhaseNames
<1>1. DemoPhase \in Seq(DemoPhaseNames)
  BY DEF DemoPhase, DemoPhaseNames
<1>2. DemoPhaseNames \subseteq Names /\ DemoPhaseNames \cap Timed = {}
  BY NamesAre DEF DemoPhaseNames, Timed, FlowOn, FlowOff
<1> QED
  BY <1>1, <1>2, Piece

LastSteps == <<"save", "write_env">>

LEMMA LastPiece == Block(LastSteps) /\ Steps(LastSteps) \subseteq {"save", "write_env"}
<1>1. LastSteps \in Seq({"save", "write_env"})
  BY DEF LastSteps
<1>2. {"save", "write_env"} \subseteq Names /\ {"save", "write_env"} \cap Timed = {}
  BY NamesAre DEF Timed, FlowOn, FlowOff
<1> QED
  BY <1>1, <1>2, Piece

LEMMA EmptyPiece == Block(<<>>) /\ Steps(<<>>) = {}
<1>1. <<>> \in Programs /\ Steps(<<>>) = {}
  BY DEF Programs, Steps
<1> QED
  BY <1>1, PlainBlock

LEMMA SameSteps ==
  ASSUME NEW S, NEW s \in Seq(S), NEW t \in Seq(S), Len(s) = Len(t),
         \A i \in 1 .. Len(s) : s[i] = t[i]
  PROVE  s = t
OBVIOUS

UsdcNames == {"MockUSDC", "mint_1m_usdc", "save"}

LEMMA UsdcPiece ==
  ASSUME NEW skipDeploy \in BOOLEAN
  PROVE  /\ Block(UsdcPhase(skipDeploy))
         /\ Steps(UsdcPhase(skipDeploy)) \subseteq UsdcNames
         /\ \A b \in At(UsdcPhase(skipDeploy), "MockUSDC") : b = {} /\ ~skipDeploy
<1> DEFINE mint == <<"mint_1m_usdc", "save">>
           deploy == <<"MockUSDC", "mint_1m_usdc", "save">>
<1>1. UsdcPhase(TRUE) = mint /\ UsdcPhase(FALSE) = <<"MockUSDC">> \o mint
  <2>1. mint \in Seq({"mint_1m_usdc", "save"}) /\ <<>> \o mint = mint
    OBVIOUS
  <2> QED
    BY <2>1 DEF UsdcPhase
<1>2. <<"MockUSDC">> \o mint = deploy
  <2>1. <<"MockUSDC">> \in Seq(UsdcNames) /\ mint \in Seq(UsdcNames) /\ deploy \in Seq(UsdcNames)
    BY DEF UsdcNames
  <2>2. <<"MockUSDC">> \o mint \in Seq(UsdcNames)
    <3> HIDE DEF mint
    <3> QED
      BY <2>1
  <2>3. Len(<<"MockUSDC">> \o mint) = 3 /\ Len(deploy) = 3
    OBVIOUS
  <2>4. /\ (<<"MockUSDC">> \o mint)[1] = deploy[1]
        /\ (<<"MockUSDC">> \o mint)[2] = deploy[2]
        /\ (<<"MockUSDC">> \o mint)[3] = deploy[3]
    OBVIOUS
  <2>5. \A i \in 1 .. 3 : (<<"MockUSDC">> \o mint)[i] = deploy[i]
    <3>1. \A i \in 1 .. 3 : i = 1 \/ i = 2 \/ i = 3
      OBVIOUS
    <3> HIDE DEF mint, deploy
    <3> QED
      BY <2>4, <3>1
  <2> HIDE DEF mint, deploy
  <2> QED
    BY <2>1, <2>2, <2>3, <2>5, SameSteps
<1>3. UsdcNames \subseteq Names
  BY NamesAre DEF UsdcNames
<1>4. CASE skipDeploy
  <2>1. mint \in Seq(UsdcNames) /\ mint[1] = "mint_1m_usdc"
    BY DEF UsdcNames
  <2>2. Windows(mint)
    BY DEF Windows, Follows, OnlyAfter, FlowOn, FlowOff
  <2>3. Steps(mint) \subseteq UsdcNames /\ "MockUSDC" \notin Steps(mint)
    BY DEF Steps, UsdcNames
  <2>4. UsdcPhase(skipDeploy) = mint
    BY <1>1, <1>4
  <2>5. mint \in Programs
    BY <1>3, <2>1 DEF Programs
  <2> HIDE DEF mint
  <2> QED
    BY <2>1, <2>2, <2>3, <2>4, <2>5, AtAbsent DEF Block, FlowOff
<1>5. CASE ~skipDeploy
  <2>1. deploy \in Seq(UsdcNames) /\ deploy[1] = "MockUSDC"
    BY DEF UsdcNames
  <2>2. Windows(deploy)
    BY DEF Windows, Follows, OnlyAfter, FlowOn, FlowOff
  <2>3. Steps(deploy) \subseteq UsdcNames
    BY DEF Steps, UsdcNames
  <2>4. \A b \in At(deploy, "MockUSDC") : b = {}
    BY DEF At, Before
  <2>5. UsdcPhase(skipDeploy) = deploy
    BY <1>1, <1>2, <1>5
  <2>6. deploy \in Programs
    BY <1>3, <2>1 DEF Programs
  <2> HIDE DEF deploy
  <2> QED
    BY <1>5, <2>1, <2>2, <2>3, <2>4, <2>5, <2>6 DEF Block, FlowOff
<1> QED
  BY <1>4, <1>5
-----------------------------------------------------------------------------
(* The programs.                                                           *)

Base == {"Host.initialize", "Governance.initialize", "cfa", "gda", "ida", "PoolBeacon.upgradeTo"}

\* A framework that finish_superfluid_demo.py makes whole.
Based(d) == Base \subseteq d /\ (RegisteredByImplementation(d) \/ ByProxy \subseteq d)

Relevant == Parts \cup Updates \cup ByProxy \cup ByImplementation

LEMMA RelevantSteps ==
  /\ Relevant \subseteq SetUp /\ "framework" \notin SetUp
  /\ Parts = Base \cup {"forwarders", "enableTrustedForwarder(GDA)"}
  /\ {"updateContracts(factory proxy)", "updateContracts(factory impl)"} = Updates
  /\ "forwarders" \in Relevant
<1>1. Parts = Base \cup {"forwarders", "enableTrustedForwarder(GDA)"}
  BY DEF Parts, Base
<1>2. Parts \subseteq SetUp
  BY DEF Parts, SetUp, Governed
<1>3. Updates \subseteq SetUp /\ ByProxy \subseteq SetUp /\ ByImplementation \subseteq SetUp
  BY DEF SetUp, Governed
<1>4. "framework" \notin SetUp
  BY DEF SetUp, Governed, Updates, ByProxy, ByImplementation
<1> QED
  BY <1>1, <1>2, <1>3, <1>4 DEF Relevant, Updates

LEMMA WholeGrows ==
  ASSUME NEW c, NEW d, c \cap Relevant \subseteq d
  PROVE  (Whole(c) => Whole(d)) /\ (Based(c) => Based(d))
<1>1. /\ Base \subseteq Relevant /\ Parts \subseteq Relevant /\ ByProxy \subseteq Relevant
      /\ ByImplementation \cup {"updateContracts(factory impl)"} \subseteq Relevant
      /\ Updates \subseteq Relevant
  BY RelevantSteps DEF Relevant
<1>2. RegisteredByImplementation(c) => RegisteredByImplementation(d)
  BY <1>1 DEF RegisteredByImplementation
<1>3. RegisteredByProxy(c) => RegisteredByProxy(d)
  BY <1>1 DEF RegisteredByProxy
<1> QED
  BY <1>1, <1>2, <1>3 DEF Whole, Based

LEMMA WholeIsBased ==
  ASSUME NEW d, Whole(d)
  PROVE  Based(d)
BY RelevantSteps DEF Whole, Based, RegisteredByProxy

LEMMA FinishedWhole ==
  ASSUME NEW c, NEW d, Based(c), c \subseteq d,
         {"updateContracts(factory impl)", "forwarders", "enableTrustedForwarder(GDA)"} \subseteq d
  PROVE  Whole(d)
<1>1. Based(d)
  BY WholeGrows
<1>2. Parts \subseteq d /\ d \cap Updates # {}
  BY <1>1, RelevantSteps DEF Based
<1> QED
  BY <1>1, <1>2 DEF Whole, Based, RegisteredByProxy

\* The forwarders that are known belong to the framework that is known.
Complete(m) == Has(m, "forwarders") => m["forwarders"] = m["framework"]

\* What a save after the steps b of a script that knows m would say of the
\* frameworks d is true.
Fine(b, m, d) ==
  IF "framework" \in b
    THEN Whole(b)
    ELSE Has(m, "framework") =>
           /\ Based(d[m["framework"]] \cup b)
           /\ Has(m, "forwarders") \/ "forwarders" \in b => Whole(d[m["framework"]] \cup b)

\* What the program s of a script that knows m can be relied on for.
Plan(s, m, d) ==
  /\ s \in Programs /\ Windows(s)
  /\ \A k \in {"PoolINFT", "MockUSDC"} : \A b \in At(s, k) : k \notin b /\ m[k] = 0
  /\ "USDCx" \in Steps(s) => Has(m, "MockUSDC")
  /\ \A b \in At(s, "framework") : b \cap (Relevant \cup {"framework"}) = {}
  /\ \A b \in At(s, "save") : Fine(b, m, d)

\* Every framework that is written down can be made whole, and is if its
\* forwarders are written down, too.
FileReady ==
  file # Torn =>
    /\ Complete(file)
    /\ Has(file, "framework") =>
         /\ Based(done[file["framework"]])
         /\ Has(file, "forwarders") => Whole(done[file["framework"]])

LEMMA AtSplit ==
  ASSUME NEW s \in Programs, NEW t \in Programs, NEW x, NEW b \in At(s \o t, x)
  PROVE  b \in At(s, x) \/ \E c \in At(t, x) : b = Steps(s) \cup c
BY AtConcat

\* A save before which no framework is deployed or trusted repeats the file.
LEMMA FileFine ==
  ASSUME FileReady, file # Torn, NEW b, "framework" \notin b, "forwarders" \notin b
  PROVE  Fine(b, file, done)
<1>1. /\ Based(done[file["framework"]]) => Based(done[file["framework"]] \cup b)
      /\ Whole(done[file["framework"]]) => Whole(done[file["framework"]] \cup b)
  BY WholeGrows
<1> QED
  BY <1>1 DEF FileReady, Fine

LEMMA FrameworkPiece ==
  ASSUME NEW agreements, Quiet(agreements), NEW R,
         {"cfa", "gda", "ida", "PoolBeacon.upgradeTo"} \cup R \subseteq Steps(agreements)
  PROVE  LET f == HostSteps \o agreements \o FactorySteps
         IN /\ Block(f) /\ Steps(f) \cap (Timed \cup {"save"}) = {}
            /\ Base \cup {"framework"} \cup R \subseteq Steps(f)
            /\ \A b \in At(f, "framework") : b = {}
<1> DEFINE h == HostSteps \o agreements
           f == h \o FactorySteps
<1>1. Block(h) /\ Block(f)
  BY HostPiece, FactoryPiece, BlockConcat DEF Quiet
<1>2. /\ HostSteps \in Programs /\ agreements \in Programs /\ h \in Programs
      /\ FactorySteps \in Programs /\ f \in Programs
  BY <1>1, HostPiece, FactoryPiece DEF Quiet, Block
<1>3. Steps(h) = Steps(HostSteps) \cup Steps(agreements) /\ Steps(f) = Steps(h) \cup Steps(FactorySteps)
  BY <1>2, StepsConcat
<1>4. Steps(f) \cap (Timed \cup {"save"}) = {}
  BY <1>3, HostPiece, FactoryPiece DEF Quiet, HostNames, Timed, FlowOn, FlowOff
<1>5. Base \cup {"framework"} \cup R \subseteq Steps(f)
  BY <1>3, HostPiece DEF Base
<1>6. ASSUME NEW b \in At(f, "framework") PROVE b = {}
  <2>1. "framework" \notin Steps(agreements) /\ "framework" \notin Steps(FactorySteps)
    BY FactoryPiece DEF Quiet
  <2>2. At(agreements, "framework") = {} /\ At(FactorySteps, "framework") = {}
    BY <2>1, AtAbsent
  <2>3. b \in At(h, "framework")
    BY <1>2, <1>6, <2>2, AtSplit
  <2>4. b \in At(HostSteps, "framework")
    BY <1>2, <2>2, <2>3, AtSplit
  <2> QED
    BY <2>4, HostPiece
<1> QED
  BY <1>1, <1>4, <1>5, <1>6

\* The wrapper and the demo, after the steps s.
LEMMA WrapAndDemo ==
  ASSUME NEW s, Block(s), Steps(s) \cap {"PoolINFT", "MockUSDC"} = {}
  PROVE  LET q == s \o WrapSteps \o DemoSteps
         IN /\ Block(q)
            /\ Steps(q) \cap {"PoolINFT", "MockUSDC"} = {}
            /\ "framework" \notin Steps(s) => "framework" \notin Steps(q)
            /\ \A b \in At(q, "framework") : b \in At(s, "framework")
            /\ \A b \in At(q, "save") : b \in At(s, "save") \/ Steps(s) \subseteq b
<1> DEFINE p == s \o WrapSteps
           q == p \o DemoSteps
<1>1. Block(p) /\ Block(q)
  BY WrapPiece, DemoPiece, BlockConcat
<1>2. s \in Programs /\ WrapSteps \in Programs /\ p \in Programs /\ DemoSteps \in Programs
  BY <1>1, WrapPiece, DemoPiece DEF Block
<1>3. Steps(p) = Steps(s) \cup Steps(WrapSteps) /\ Steps(q) = Steps(p) \cup Steps(DemoSteps)
  BY <1>2, StepsConcat
<1>4. Steps(q) \cap {"PoolINFT", "MockUSDC"} = {}
  BY <1>3, WrapPiece, DemoPiece DEF DemoNames, FlowOn, FlowOff
<1>5. "framework" \notin Steps(DemoSteps) /\ "framework" \notin Steps(WrapSteps)
  BY WrapPiece, DemoPiece DEF DemoNames, FlowOn, FlowOff
<1>6. At(DemoSteps, "framework") = {} /\ At(WrapSteps, "framework") = {}
  BY <1>5, AtAbsent
<1>7. ASSUME NEW b \in At(q, "framework") PROVE b \in At(s, "framework")
  <2>1. b \in At(p, "framework")
    BY <1>2, <1>6, <1>7, AtSplit
  <2> QED
    BY <1>2, <1>6, <2>1, AtSplit
<1>8. ASSUME NEW b \in At(q, "save") PROVE b \in At(s, "save") \/ Steps(s) \subseteq b
  <2>1. b \in At(p, "save") \/ Steps(p) \subseteq b
    BY <1>2, <1>8, AtSplit
  <2>2. b \in At(p, "save") => b \in At(s, "save") \/ Steps(s) \subseteq b
    BY <1>2, AtSplit
  <2> QED
    BY <1>3, <2>1, <2>2
<1>9. "framework" \notin Steps(s) => "framework" \notin Steps(q)
  BY <1>3, <1>5
<1> QED
  BY <1>1, <1>4, <1>7, <1>8, <1>9

LEMMA ConcatAssociates ==
  ASSUME NEW s \in Programs, NEW t \in Programs, NEW u \in Programs
  PROVE  (s \o t) \o u = s \o (t \o u)
<1>1. (s \o t) \o u \in Seq(Names) /\ s \o (t \o u) \in Seq(Names)
  BY DEF Programs
<1>2. /\ s \o t \in Programs /\ t \o u \in Programs
      /\ Len(s) \in Nat /\ Len(t) \in Nat /\ Len(u) \in Nat
      /\ Len(s \o t) = Len(s) + Len(t) /\ Len(t \o u) = Len(t) + Len(u)
      /\ Len((s \o t) \o u) = Len(s) + Len(t) + Len(u)
      /\ Len(s \o (t \o u)) = Len(s) + Len(t) + Len(u)
  <2>1. s \o t \in Programs /\ t \o u \in Programs
    BY ConcatSteps
  <2> QED
    BY <2>1, ConcatSteps DEF Programs
<1>3. ASSUME NEW i \in 1 .. Len(s) + Len(t) + Len(u)
      PROVE  ((s \o t) \o u)[i] = (s \o (t \o u))[i]
  <2>1. CASE i \in 1 .. Len(s)
    <3>1. i \in 1 .. Len(s \o t)
      BY <1>2, <2>1
    <3>2. ((s \o t) \o u)[i] = (s \o t)[i] /\ (s \o t)[i] = s[i] /\ (s \o (t \o u))[i] = s[i]
      BY <1>2, <2>1, <3>1, ConcatSteps
    <3> QED
      BY <3>2
  <2>2. ASSUME NEW j \in 1 .. Len(t), i = Len(s) + j PROVE ((s \o t) \o u)[i] = (s \o (t \o u))[i]
    <3>1. i \in 1 .. Len(s \o t) /\ j \in 1 .. Len(t \o u)
      BY <1>2, <2>2
    <3>2. /\ \A k \in 1 .. Len(s \o t) : ((s \o t) \o u)[k] = (s \o t)[k]
          /\ \A k \in 1 .. Len(t) : (s \o t)[Len(s) + k] = t[k]
          /\ \A k \in 1 .. Len(t \o u) : (s \o (t \o u))[Len(s) + k] = (t \o u)[k]
          /\ \A k \in 1 .. Len(t) : (t \o u)[k] = t[k]
      BY <1>2, ConcatSteps
    <3> QED
      BY <2>2, <3>1, <3>2
  <2>3. ASSUME NEW j \in 1 .. Len(u), i = Len(s) + Len(t) + j
        PROVE  ((s \o t) \o u)[i] = (s \o (t \o u))[i]
    <3>1. i = Len(s \o t) + j /\ i = Len(s) + (Len(t) + j) /\ Len(t) + j \in 1 .. Len(t \o u)
      BY <1>2, <2>3
    <3>2. /\ \A k \in 1 .. Len(u) : ((s \o t) \o u)[Len(s \o t) + k] = u[k]
          /\ \A k \in 1 .. Len(t \o u) : (s \o (t \o u))[Len(s) + k] = (t \o u)[k]
          /\ \A k \in 1 .. Len(u) : (t \o u)[Len(t) + k] = u[k]
      BY <1>2, ConcatSteps
    <3>3. ((s \o t) \o u)[i] = u[j]
      BY <3>1, <3>2
    <3>4. (s \o (t \o u))[i] = (t \o u)[Len(t) + j]
      BY <3>1, <3>2
    <3> QED
      BY <3>2, <3>3, <3>4
  <2>4. \/ i \in 1 .. Len(s)
        \/ i - Len(s) \in 1 .. Len(t) /\ i = Len(s) + (i - Len(s))
        \/ /\ i - Len(s) - Len(t) \in 1 .. Len(u)
           /\ i = Len(s) + Len(t) + (i - Len(s) - Len(t))
    BY <1>2
  <2> QED
    BY <2>1, <2>2, <2>3, <2>4
<1> QED
  BY <1>1, <1>2, <1>3, SameSteps

\* deploy_superfluid_manual.py.
LEMMA ManualPlan ==
  ASSUME Has(file, "MockUSDC")
  PROVE  Block(SuperfluidManual) /\ Plan(SuperfluidManual, file, done)
<1> DEFINE u == "updateContracts(factory proxy)"
           f == HostSteps \o AgreementSteps \o FactorySteps
           g == f \o <<u>>
           s == g \o ForwarderSteps
           q == s \o WrapSteps \o DemoSteps
<1>1. /\ Block(f) /\ Steps(f) \cap (Timed \cup {"save"}) = {}
      /\ Base \cup {"framework"} \cup ByProxy \subseteq Steps(f)
      /\ \A b \in At(f, "framework") : b = {}
  BY AgreementPiece, FrameworkPiece
<1>2. SuperfluidManual = q
  BY DEF SuperfluidManual
<1>3. Quiet(<<u>>) /\ Steps(<<u>>) = {u} /\ u \in Updates
  BY UpdatePiece, RelevantSteps
<1> HIDE DEF f, u
<1>4. Block(g) /\ Steps(g) = Steps(f) \cup {u}
  BY <1>1, <1>3, BlockConcat, StepsConcat DEF Quiet, Block
<1>5. \A b \in At(g, "framework") : b = {}
  <2>1. At(<<u>>, "framework") = {}
    BY <1>3, AtAbsent DEF Quiet
  <2> QED
    BY <1>1, <1>3, <2>1, AtSplit DEF Quiet, Block
<1>6. Steps(g) \cap {"save", "PoolINFT", "MockUSDC"} = {}
  BY <1>1, <1>3, <1>4 DEF Quiet, Timed
<1> HIDE DEF g
<1>7. Block(s) /\ Steps(s) = Steps(g) \cup Steps(ForwarderSteps)
  BY <1>4, ForwarderPiece, BlockConcat, StepsConcat DEF Block
<1>8. Steps(s) \cap {"PoolINFT", "MockUSDC"} = {}
  BY <1>6, <1>7, ForwarderPiece
<1>9. \A b \in At(s, "framework") : b = {}
  <2>1. At(ForwarderSteps, "framework") = {}
    BY ForwarderPiece, AtAbsent
  <2> QED
    BY <1>4, <1>5, <2>1, ForwarderPiece, AtSplit DEF Block
<1>10. ASSUME NEW b, Steps(g) \cup {"forwarders", "enableTrustedForwarder(GDA)"} \subseteq b
       PROVE  "framework" \in b /\ Whole(b)
  <2>1. Base \cup {"framework", u} \cup ByProxy \subseteq b
    BY <1>1, <1>4, <1>10
  <2> QED
    BY <1>3, <1>10, <2>1, RelevantSteps DEF Whole, RegisteredByProxy
<1>11. \A b \in At(s, "save") : Steps(g) \cup {"forwarders", "enableTrustedForwarder(GDA)"} \subseteq b
  <2>1. At(g, "save") = {}
    BY <1>6, AtAbsent
  <2>2. ASSUME NEW b \in At(s, "save")
        PROVE  Steps(g) \cup {"forwarders", "enableTrustedForwarder(GDA)"} \subseteq b
    <3>1. PICK c \in At(ForwarderSteps, "save") : b = Steps(g) \cup c
      BY <1>4, <2>1, <2>2, ForwarderPiece, AtSplit DEF Block
    <3> QED
      BY <3>1, ForwarderPiece
  <2> QED
    BY <2>2
<1> HIDE DEF s
<1>12. /\ Block(q)
       /\ Steps(q) \cap {"PoolINFT", "MockUSDC"} = {}
       /\ \A b \in At(q, "framework") : b \in At(s, "framework")
       /\ \A b \in At(q, "save") : b \in At(s, "save") \/ Steps(s) \subseteq b
  BY <1>7, <1>8, WrapAndDemo
<1> HIDE DEF q
<1>13. Plan(q, file, done)
  <2>1. At(q, "PoolINFT") = {} /\ At(q, "MockUSDC") = {}
    BY <1>12, AtAbsent
  <2>2. \A b \in At(q, "framework") : b \cap (Relevant \cup {"framework"}) = {}
    BY <1>9, <1>12
  <2>3. \A b \in At(q, "save") : Steps(g) \cup {"forwarders", "enableTrustedForwarder(GDA)"} \subseteq b
    BY <1>7, <1>11, <1>12, ForwarderPiece
  <2>4. \A b \in At(q, "save") : Fine(b, file, done)
    BY <1>10, <2>3 DEF Fine
  <2> QED
    BY <1>12, <2>1, <2>2, <2>4 DEF Plan, Block
<1> QED
  BY <1>2, <1>12, <1>13

DeployerSteps == <<"framework_deployer", "save">>

LEMMA DeployerPiece ==
  Block(DeployerSteps) /\ Steps(DeployerSteps) \subseteq {"framework_deployer", "save"}
<1>1. DeployerSteps \in Seq({"framework_deployer", "save"})
  BY DEF DeployerSteps
<1>2. /\ {"framework_deployer", "save"} \subseteq Names
      /\ {"framework_deployer", "save"} \cap Timed = {}
  BY NamesAre DEF Timed, FlowOn, FlowOff
<1> QED
  BY <1>1, <1>2, Piece

\* deploy_superfluid_mainnet.py up to the framework.
LEMMA LibrariesPiece ==
  /\ Block(DeployLibraries \o DeployerSteps)
  /\ Steps(DeployLibraries \o DeployerSteps) \subseteq Libraries \cup {"framework_deployer", "save"}
<1> DEFINE a == Missing("SlotsBitmapLibrary")
           b == a \o Missing("SuperfluidPoolDeployerLibrary")
           c == b \o Missing(Oversized)
           d == c \o SaveStep
<1>1. DeployLibraries = d
  BY DEF DeployLibraries, SaveStep
<1>2. {"SlotsBitmapLibrary", "SuperfluidPoolDeployerLibrary", Oversized} = Libraries
  BY DEF Libraries, Linked
<1>3. \A k \in Libraries : Block(Missing(k)) /\ Steps(Missing(k)) \subseteq {k}
  BY MissingPiece DEF Quiet
<1>4. Block(a) /\ Steps(a) \subseteq Libraries
  BY <1>2, <1>3
<1>5. Block(b) /\ Steps(b) \subseteq Libraries
  <2>1. /\ Block(Missing("SuperfluidPoolDeployerLibrary"))
        /\ Steps(Missing("SuperfluidPoolDeployerLibrary")) \subseteq Libraries
    BY <1>2, <1>3
  <2> QED
    BY <1>4, <2>1, BlockConcat, StepsConcat DEF Block
<1>6. Block(c) /\ Steps(c) \subseteq Libraries
  <2>1. Block(Missing(Oversized)) /\ Steps(Missing(Oversized)) \subseteq Libraries
    BY <1>2, <1>3
  <2> HIDE DEF b
  <2> QED
    BY <1>5, <2>1, BlockConcat, StepsConcat DEF Block
<1>7. Block(d) /\ Steps(d) \subseteq Libraries \cup {"save"}
  BY <1>6, SavePiece, BlockConcat, StepsConcat DEF Block
<1> HIDE DEF d
<1>8. Block(d \o DeployerSteps) /\ Steps(d \o DeployerSteps) = Steps(d) \cup Steps(DeployerSteps)
  BY <1>7, DeployerPiece, BlockConcat, StepsConcat DEF Block
<1> QED
  BY <1>1, <1>7, <1>8, DeployerPiece

\* deploy_superfluid_mainnet.py.
LEMMA MainnetPlan ==
  ASSUME FileReady, file # Torn, Has(file, "MockUSDC")
  PROVE  Block(SuperfluidMainnet) /\ Plan(SuperfluidMainnet, file, done)
<1> DEFINE a == DeployLibraries \o DeployerSteps
           f == HostSteps \o RegisterSteps \o FactorySteps
           e == f \o TrustSteps
           g == a \o e
           s == g \o SaveStep
           q == s \o WrapSteps \o DemoSteps
<1>1. /\ Block(f) /\ Steps(f) \cap (Timed \cup {"save"}) = {}
      /\ Base \cup {"framework"} \cup ByImplementation \subseteq Steps(f)
      /\ \A b \in At(f, "framework") : b = {}
  BY RegisterPiece, FrameworkPiece
<1>2. SuperfluidMainnet = q
  <2>1. ExecuteSteps = e
    BY DEF ExecuteSteps, RegisterSteps, TrustSteps
  <2> QED
    BY <2>1 DEF SuperfluidMainnet, MainnetWrapSteps, WrapSteps, SuperfluidDemo, SaveStep, DeployerSteps
<1>3. Block(a) /\ Steps(a) \cap (Relevant \cup {"framework", "PoolINFT", "MockUSDC"}) = {}
  <2>1. (Libraries \cup {"framework_deployer", "save"})
          \cap (SetUp \cup {"framework", "PoolINFT", "MockUSDC"}) = {}
    BY DEF Libraries, Linked, Oversized, SetUp, Governed, Updates, ByProxy, ByImplementation
  <2> QED
    BY <2>1, LibrariesPiece, RelevantSteps
<1> HIDE DEF a, f
<1>4. Block(e) /\ Steps(e) = Steps(f) \cup TrustNames
  BY <1>1, TrustPiece, BlockConcat, StepsConcat DEF Quiet, Block
<1>5. Steps(e) \cap {"PoolINFT", "MockUSDC", "save"} = {}
  BY <1>1, <1>4, TrustPiece DEF Timed, TrustNames
<1>6. \A b \in At(e, "framework") : b = {}
  <2>1. At(TrustSteps, "framework") = {}
    BY TrustPiece, AtAbsent DEF TrustNames
  <2> QED
    BY <1>1, <2>1, TrustPiece, AtSplit DEF Block, Quiet
<1>7. ASSUME NEW b, Steps(e) \subseteq b
      PROVE  "framework" \in b /\ Whole(b)
  <2>1. Base \cup {"framework"} \cup ByImplementation \cup TrustNames \subseteq b
    BY <1>1, <1>4, <1>7
  <2> QED
    BY <2>1, RelevantSteps DEF Whole, RegisteredByImplementation, TrustNames
<1> HIDE DEF e
<1>8. Block(g) /\ Steps(g) = Steps(a) \cup Steps(e)
  BY <1>3, <1>4, BlockConcat, StepsConcat DEF Block
<1>9. \A b \in At(g, "framework") : b = Steps(a)
  <2>1. At(a, "framework") = {}
    BY <1>3, AtAbsent
  <2>2. ASSUME NEW b \in At(g, "framework") PROVE b = Steps(a)
    <3>1. PICK c \in At(e, "framework") : b = Steps(a) \cup c
      BY <1>3, <1>4, <2>1, <2>2, AtSplit DEF Block
    <3> QED
      BY <1>6, <3>1
  <2> QED
    BY <2>2
<1>10. \A b \in At(g, "save") : b \subseteq Steps(a)
  <2>1. At(e, "save") = {}
    BY <1>5, AtAbsent
  <2>2. ASSUME NEW b \in At(g, "save") PROVE b \in At(a, "save")
    BY <1>3, <1>4, <2>1, <2>2, AtSplit DEF Block
  <2> QED
    BY <1>3, <2>2, AtWithin DEF Block
<1> HIDE DEF g
<1>11. Block(s) /\ Steps(s) = Steps(g) \cup {"save"}
  BY <1>8, SavePiece, BlockConcat, StepsConcat DEF Block
<1>12. \A b \in At(s, "framework") : b = Steps(a)
  <2>1. At(SaveStep, "framework") = {}
    BY SavePiece, AtAbsent
  <2> QED
    BY <1>8, <1>9, <2>1, SavePiece, AtSplit DEF Block
<1>13. \A b \in At(s, "save") : b \subseteq Steps(a) \/ Steps(g) \subseteq b
  <2>1. ASSUME NEW b \in At(s, "save") PROVE b \subseteq Steps(a) \/ Steps(g) \subseteq b
    <3>1. b \in At(g, "save") \/ \E c \in At(SaveStep, "save") : b = Steps(g) \cup c
      BY <1>8, <2>1, SavePiece, AtSplit DEF Block
    <3> QED
      BY <1>10, <3>1
  <2> QED
    BY <2>1
<1>14. Steps(s) \cap {"PoolINFT", "MockUSDC"} = {}
  BY <1>3, <1>5, <1>8, <1>11
<1> HIDE DEF s
<1>15. /\ Block(q)
       /\ Steps(q) \cap {"PoolINFT", "MockUSDC"} = {}
       /\ \A b \in At(q, "framework") : b \in At(s, "framework")
       /\ \A b \in At(q, "save") : b \in At(s, "save") \/ Steps(s) \subseteq b
  BY <1>11, <1>14, WrapAndDemo
<1> HIDE DEF q
<1>16. Plan(q, file, done)
  <2>1. At(q, "PoolINFT") = {} /\ At(q, "MockUSDC") = {}
    BY <1>15, AtAbsent
  <2>2. \A b \in At(q, "framework") : b \cap (Relevant \cup {"framework"}) = {}
    BY <1>3, <1>12, <1>15
  <2>3. ASSUME NEW b \in At(q, "save") PROVE Fine(b, file, done)
    <3>1. CASE b \subseteq Steps(a)
      <4>1. "framework" \notin b /\ "forwarders" \notin b
        BY <1>3, <3>1, RelevantSteps
      <4> QED
        BY <4>1, FileFine
    <3>2. CASE Steps(g) \subseteq b
      BY <1>7, <1>8, <3>2 DEF Fine
    <3> QED
      BY <1>11, <1>13, <1>15, <2>3, <3>1, <3>2
  <2> QED
    BY <1>15, <2>1, <2>2, <2>3 DEF Plan, Block
<1> QED
  BY <1>2, <1>15, <1>16

\* finish_superfluid_demo.py.
LEMMA FinishPlan ==
  ASSUME FileReady, file # Torn, Has(file, "MockUSDC"), Has(file, "framework")
  PROVE  Block(FinishDemo) /\ Plan(FinishDemo, file, done)
<1> DEFINE x == "updateContracts(factory impl)"
           v == <<x>> \o Missing("forwarders")
           u == v \o ReTrustSteps
           q == u \o WrapSteps \o DemoSteps
<1>1. Quiet(<<x>>) /\ Steps(<<x>>) = {x}
  BY UpdatePiece, RelevantSteps
<1>2. u = FinishFramework
  BY DEF FinishFramework, ReTrustSteps
<1>3. x \notin {"save", "PoolINFT", "MockUSDC", "framework"}
  OBVIOUS
<1> HIDE DEF x
<1>4. Quiet(v) /\ Steps(v) = {x} \cup Steps(Missing("forwarders"))
  BY <1>1, MissingPiece, QuietConcat, StepsConcat DEF Quiet, Block
<1>5. /\ Has(file, "forwarders") \/ "forwarders" \in Steps(v)
      /\ Steps(v) \subseteq {x, "forwarders"}
  BY <1>4, MissingPiece
<1> HIDE DEF v
<1>6. Block(u) /\ Steps(u) = Steps(v) \cup Steps(ReTrustSteps)
  BY <1>4, ReTrustPiece, BlockConcat, StepsConcat DEF Quiet, Block
<1>7. Steps(u) \cap {"PoolINFT", "MockUSDC", "framework"} = {}
  BY <1>3, <1>5, <1>6, ReTrustPiece
<1>8. At(v, "save") = {}
  BY <1>3, <1>5, AtAbsent
<1>9. \A b \in At(u, "save") : Steps(v) \cup {"enableTrustedForwarder(GDA)"} \subseteq b
  <2>1. ASSUME NEW b \in At(u, "save") PROVE Steps(v) \cup {"enableTrustedForwarder(GDA)"} \subseteq b
    <3>1. PICK c \in At(ReTrustSteps, "save") : b = Steps(v) \cup c
      BY <1>4, <1>8, <2>1, ReTrustPiece, AtSplit DEF Quiet, Block
    <3> QED
      BY <3>1, ReTrustPiece
  <2> QED
    BY <2>1
<1> HIDE DEF u
<1>10. FinishDemo = q
  <2>1. FinishWrapAndDemo = WrapSteps \o DemoSteps
    BY DEF FinishWrapAndDemo, WrapSteps
  <2>2. u \in Programs /\ WrapSteps \in Programs /\ DemoSteps \in Programs
    BY <1>6, WrapPiece, DemoPiece DEF Block
  <2> QED
    BY <1>2, <2>1, <2>2, ConcatAssociates DEF FinishDemo
<1>11. /\ Block(q)
       /\ Steps(q) \cap {"PoolINFT", "MockUSDC"} = {}
       /\ "framework" \notin Steps(q)
       /\ \A b \in At(q, "save") : b \in At(u, "save") \/ Steps(u) \subseteq b
  BY <1>6, <1>7, WrapAndDemo
<1> HIDE DEF q
<1>12. Plan(q, file, done)
  <2>1. At(q, "PoolINFT") = {} /\ At(q, "MockUSDC") = {} /\ At(q, "framework") = {}
    BY <1>11, AtAbsent
  <2>2. ASSUME NEW b \in At(q, "save") PROVE Fine(b, file, done)
    <3>1. Steps(v) \cup {"enableTrustedForwarder(GDA)"} \subseteq b
      BY <1>6, <1>9, <1>11, <2>2, ReTrustPiece
    <3>2. "framework" \notin b
      BY <1>11, <2>2, AtWithin DEF Block
    <3> DEFINE d == done[file["framework"]]
    <3>3. Based(d) /\ (Has(file, "forwarders") => Whole(d))
      BY DEF FileReady
    <3> HIDE DEF d
    <3>4. Based(d \cup b)
      BY <3>3, WholeGrows
    <3>5. Whole(d \cup b)
      <4>1. CASE Has(file, "forwarders")
        BY <3>3, <4>1, WholeGrows
      <4>2. CASE "forwarders" \in Steps(v)
        <5>1. {x, "forwarders", "enableTrustedForwarder(GDA)"} \subseteq d \cup b
          BY <1>4, <3>1, <4>2
        <5> QED
          BY <3>3, <5>1, FinishedWhole DEF x
      <4> QED
        BY <1>5, <4>1, <4>2
    <3> QED
      BY <3>2, <3>4, <3>5 DEF Fine, d
  <2> QED
    BY <1>11, <2>1, <2>2 DEF Plan, Block
<1> QED
  BY <1>10, <1>11, <1>12

\* more_demo_txs.py.
LEMMA MorePlan ==
  ASSUME FileReady, file # Torn
  PROVE  Block(MoreDemoTxs) /\ Plan(MoreDemoTxs, file, done)
<1>1. Steps(MoreDemoTxs)
        \cap {"PoolINFT", "MockUSDC", "USDCx", "framework", "forwarders"} = {}
  BY MorePiece DEF MoreNames
<1>2. /\ At(MoreDemoTxs, "PoolINFT") = {} /\ At(MoreDemoTxs, "MockUSDC") = {}
      /\ At(MoreDemoTxs, "USDCx") = {} /\ At(MoreDemoTxs, "framework") = {}
  BY <1>1, AtAbsent
<1>3. \A b \in At(MoreDemoTxs, "save") : "framework" \notin b /\ "forwarders" \notin b
  BY <1>1, MorePiece, AtWithin DEF Block
<1>4. \A b \in At(MoreDemoTxs, "save") : Fine(b, file, done)
  BY <1>3, FileFine
<1> QED
  BY <1>1, <1>2, <1>4, MorePiece DEF Plan, Block

\* deploy_mainnet.py, with --resume or without.
LEMMA DeployMainnetPlan ==
  ASSUME NEW phase, NEW resume \in BOOLEAN
  PROVE  /\ Block(DeployMainnet(phase, resume))
         /\ Plan(DeployMainnet(phase, resume), Loaded(resume), done)
<1> DEFINE m == Loaded(resume)
           Chosen(ph) == IF phase \in {ph, "all"} THEN Phase(ph, resume, m) ELSE <<>>
           p == Chosen("poolinft")
           u == Chosen("usdc")
           d == Chosen("demo")
           pu == p \o u
           pud == pu \o d
           s == pud \o LastSteps
<1>1. DeployMainnet(phase, resume) = s
  BY DEF DeployMainnet, LastSteps
<1>2. /\ ~resume => \A k \in Keys : m[k] = 0
      /\ m["framework"] = 0
  <2>1. "framework" \in Keys /\ "framework" \in Superfluid
    BY DEF Keys, Superfluid
  <2> QED
    BY <2>1 DEF Loaded, Nothing
<1>3. {"PoolINFT", "MockUSDC"} \subseteq Keys
  BY DEF Keys, Addresses
<1>4. /\ Block(p) /\ Steps(p) \subseteq {"PoolINFT", "save"}
      /\ \A b \in At(p, "PoolINFT") : b = {} /\ m["PoolINFT"] = 0
  <2>1. CASE p = <<>>
    BY <2>1, EmptyPiece, AtAbsent
  <2>2. CASE p = PoolinftPhase /\ ~(resume /\ Has(m, "PoolINFT"))
    BY <1>2, <1>3, <2>2, PoolinftPiece DEF Has
  <2>3. p = <<>> \/ (p = PoolinftPhase /\ ~(resume /\ Has(m, "PoolINFT")))
    BY DEF Phase
  <2> QED
    BY <2>1, <2>2, <2>3
<1>5. /\ Block(u) /\ Steps(u) \subseteq UsdcNames
      /\ \A b \in At(u, "MockUSDC") : b = {} /\ m["MockUSDC"] = 0
  <2>1. CASE u = <<>>
    BY <2>1, EmptyPiece, AtAbsent
  <2>2. CASE u = UsdcPhase(resume /\ Has(m, "MockUSDC"))
    <3>1. PICK skip \in BOOLEAN : skip = (resume /\ Has(m, "MockUSDC"))
      OBVIOUS
    <3>2. u = UsdcPhase(skip)
      BY <2>2, <3>1
    <3>3. ~skip => m["MockUSDC"] = 0
      BY <1>2, <1>3, <3>1 DEF Has
    <3> QED
      BY <3>2, <3>3, UsdcPiece
  <2>3. u = <<>> \/ u = UsdcPhase(resume /\ Has(m, "MockUSDC"))
    BY DEF Phase
  <2> QED
    BY <2>1, <2>2, <2>3
<1>6. Block(d) /\ Steps(d) \subseteq DemoPhaseNames
  <2>1. d = <<>> \/ d = DemoPhase
    BY DEF Phase
  <2> QED
    BY <2>1, EmptyPiece, DemoPhasePiece
<1> HIDE DEF m, p, u, d
<1>7. Block(pu) /\ Steps(pu) = Steps(p) \cup Steps(u)
  BY <1>4, <1>5, BlockConcat, StepsConcat DEF Block
<1>8. Block(pud) /\ Steps(pud) = Steps(pu) \cup Steps(d)
  BY <1>6, <1>7, BlockConcat, StepsConcat DEF Block
<1>9. Block(s) /\ Steps(s) = Steps(pud) \cup Steps(LastSteps)
  BY <1>8, LastPiece, BlockConcat, StepsConcat DEF Block
<1>10. /\ p \in Programs /\ u \in Programs /\ d \in Programs /\ pu \in Programs /\ pud \in Programs
       /\ s \in Programs /\ LastSteps \in Programs
  BY <1>4, <1>5, <1>6, <1>7, <1>8, <1>9, LastPiece DEF Block
<1>11. Steps(s) \cap {"framework", "USDCx", "forwarders"} = {}
  BY <1>4, <1>5, <1>6, <1>7, <1>8, <1>9, LastPiece DEF UsdcNames, DemoPhaseNames
<1>12. ASSUME NEW b \in At(s, "PoolINFT") PROVE b = {} /\ m["PoolINFT"] = 0
  <2>1. At(u, "PoolINFT") = {} /\ At(d, "PoolINFT") = {} /\ At(LastSteps, "PoolINFT") = {}
    BY <1>5, <1>6, LastPiece, AtAbsent DEF UsdcNames, DemoPhaseNames
  <2>2. b \in At(pud, "PoolINFT")
    BY <1>10, <1>12, <2>1, AtSplit
  <2>3. b \in At(pu, "PoolINFT")
    BY <1>10, <2>1, <2>2, AtSplit
  <2>4. b \in At(p, "PoolINFT")
    BY <1>10, <2>1, <2>3, AtSplit
  <2> QED
    BY <1>4, <2>4
<1>13. ASSUME NEW b \in At(s, "MockUSDC") PROVE "MockUSDC" \notin b /\ m["MockUSDC"] = 0
  <2>1. At(p, "MockUSDC") = {} /\ At(d, "MockUSDC") = {} /\ At(LastSteps, "MockUSDC") = {}
    BY <1>4, <1>6, LastPiece, AtAbsent DEF DemoPhaseNames
  <2>2. b \in At(pud, "MockUSDC")
    BY <1>10, <1>13, <2>1, AtSplit
  <2>3. b \in At(pu, "MockUSDC")
    BY <1>10, <2>1, <2>2, AtSplit
  <2>4. PICK c \in At(u, "MockUSDC") : b = Steps(p) \cup c
    BY <1>10, <2>1, <2>3, AtSplit
  <2> QED
    BY <1>4, <1>5, <2>4
<1> HIDE DEF s
<1>14. Plan(s, m, done)
  <2>1. At(s, "USDCx") = {} /\ At(s, "framework") = {}
    BY <1>11, AtAbsent
  <2>2. \A b \in At(s, "save") : "framework" \notin b
    BY <1>10, <1>11, AtWithin
  <2>3. \A b \in At(s, "save") : Fine(b, m, done)
    BY <1>2, <2>2 DEF Fine, Has
  <2>4. \A b \in At(s, "PoolINFT") : "PoolINFT" \notin b /\ m["PoolINFT"] = 0
    BY <1>12
  <2> QED
    BY <1>9, <1>11, <1>13, <2>1, <2>3, <2>4 DEF Plan, Block
<1> QED
  BY <1>1, <1>9, <1>14 DEF m
-----------------------------------------------------------------------------
(* The inductive invariant.                                                *)

Upcoming(w) == prog # <<>> /\ Head(prog) = w

\* The chain counts what is on it.
ChainOK ==
  /\ done \in Seq(SUBSET SetUp) /\ Len(done) = made["framework"]
  /\ wraps \in Seq([usdc : Nat, framework : Nat]) /\ Len(wraps) = made["USDCx"]
  /\ \A u \in 1 .. Len(wraps) : wraps[u].framework <= made["framework"]
  /\ IsFiniteSet(flows)
  /\ interrupts \in Nat /\ forgets \in Nat

\* A script does what it set out to do.
Planned == Plan(prog, mem, done) /\ (prog # <<>> => script # "none")

\* An open stream beyond the interrupted ones is about to be closed, and can be.
StreamsCounted ==
  IF Upcoming(FlowOff)
    THEN Cardinality(flows) <= interrupts + 1 /\ mem["gda_create_pool"] \in flows /\ Forwards
    ELSE Cardinality(flows) <= interrupts

\* A contract that is there and not written down is about to be, or lost to
\* an interruption or to a start without --resume.
Pending(k) == mem[k] # 0 /\ (Upcoming("save") \/ (k = "MockUSDC" /\ Upcoming("mint_1m_usdc")))
DeploysCounted ==
  \A k \in {"PoolINFT", "MockUSDC"} :
    /\ made[k] <= 1 + forgets + interrupts
    /\ file # Torn => file[k] # 0 \/ made[k] <= forgets + interrupts \/ Pending(k)
    /\ script # "none" => mem[k] # 0 \/ made[k] <= forgets + interrupts

\* What m says of the tokens and of the wrapper is true.
Belong(m) == (Has(m, "MockUSDC") => m["MockUSDC"] \in funded) /\ m["mint_1m_usdc"] = m["MockUSDC"]
Wrapped(m) == Has(m, "USDCx") => Has(m, "MockUSDC") /\ wraps[m["USDCx"]].usdc = m["MockUSDC"]
Agree(m) ==
  Has(m, "USDCx") /\ Has(m, "framework") =>
    \/ wraps[m["USDCx"]].framework = m["framework"]
    \/ \A u \in 1 .. Len(wraps) : wraps[u].framework # m["framework"]

TokensAgree ==
  /\ file # Torn => Belong(file) /\ Wrapped(file)
  /\ Upcoming("mint_1m_usdc") \/ Belong(mem)
  /\ Wrapped(mem)

\* Unless something was interrupted, the wrapper of the file is of its
\* framework, if that has one, or is about to be replaced.
WrapperAgrees ==
  interrupts = 0 =>
    /\ Agree(mem)
    /\ file # Torn => Agree(file) \/ Upcoming("save")

DeployInv ==
  /\ RecordsInv /\ ChainOK /\ Planned
  /\ StreamsCounted /\ DeploysCounted /\ TokensAgree /\ WrapperAgrees
  /\ FileReady /\ Complete(mem)

LEMMA EmptyPlan ==
  ASSUME NEW m, NEW d
  PROVE  Plan(<<>>, m, d)
<1>1. <<>> \in Programs /\ Windows(<<>>) /\ Steps(<<>>) = {}
  BY EmptyPiece DEF Block
<1>2. /\ At(<<>>, "PoolINFT") = {} /\ At(<<>>, "MockUSDC") = {} /\ At(<<>>, "framework") = {}
      /\ At(<<>>, "USDCx") = {} /\ At(<<>>, "save") = {}
  BY <1>1, AtAbsent
<1> QED
  BY <1>1, <1>2 DEF Plan

LEMMA NothingKnown ==
  /\ Nothing \in Files /\ \A k \in Keys : Nothing[k] = 0
  /\ {"PoolINFT", "MockUSDC", "USDCx", "mint_1m_usdc", "framework", "forwarders",
      "superTokenFactoryImpl", "gda_create_pool"} \subseteq Keys
  /\ Belong(Nothing) /\ Wrapped(Nothing) /\ Agree(Nothing) /\ Complete(Nothing)
<1>1. {"PoolINFT", "MockUSDC", "USDCx", "mint_1m_usdc", "framework", "forwarders",
       "superTokenFactoryImpl", "gda_create_pool"} \subseteq Keys
  BY DEF Keys, Addresses, Txs, Superfluid
<1>2. Nothing \in Files /\ \A k \in Keys : Nothing[k] = 0
  BY DEF Nothing, Files
<1> QED
  BY <1>1, <1>2 DEF Belong, Wrapped, Agree, Complete, Has

\* Where each amount is counted.
LEMMA Counted ==
  ASSUME RecordsInv, ChainOK
  PROVE  /\ \A k \in Contracts : made[k] \in Nat /\ mem[k] \in Nat /\ mem[k] <= made[k]
         /\ \A k \in Contracts : file # Torn => file[k] \in Nat /\ file[k] <= made[k]
         /\ {"PoolINFT", "MockUSDC", "USDCx", "framework", "gda_create_pool"} \subseteq Contracts
         /\ Len(done) \in Nat /\ Len(wraps) \in Nat
         /\ Cardinality(flows) \in Nat
<1>1. \A k \in Contracts : made[k] \in Nat /\ mem[k] \in Nat /\ mem[k] <= made[k]
  BY ContractKeys DEF RecordsInv, Typed, Files, KnownOnChain
<1>2. \A k \in Contracts : file # Torn => file[k] \in Nat /\ file[k] <= made[k]
  BY ContractKeys DEF RecordsInv, Typed, Files, RecordedOnChain
<1>3. {"PoolINFT", "MockUSDC", "USDCx", "framework", "gda_create_pool"} \subseteq Contracts
  BY DEF Contracts, Addresses
<1> QED
  BY <1>1, <1>2, <1>3, FS_CardinalityType DEF ChainOK

LEMMA DeployInit == Init => DeployInv
<1> SUFFICES ASSUME Init PROVE DeployInv
  OBVIOUS
<1> DEFINE hand == {"PoolINFT", "MockUSDC", "mint_1m_usdc", "framework", "superTokenFactoryImpl"}
                   \cup Linked
           part == ToSet(HostSteps \o AgreementSteps \o <<"poolAdminNFT">>) \ {"framework"}
<1>1. PICK byHand \in BOOLEAN :
        LET n == IF byHand THEN 1 ELSE 0
        IN /\ file = [k \in Keys |-> IF k \in hand THEN n ELSE 0]
           /\ made = [k \in Contracts |-> IF k \in hand THEN n ELSE 0]
           /\ done = IF byHand THEN <<part>> ELSE <<>>
           /\ funded = 1 .. n
  BY DEF Init
<1> DEFINE n == IF byHand THEN 1 ELSE 0
<1>2. /\ file = [k \in Keys |-> IF k \in hand THEN n ELSE 0]
      /\ made = [k \in Contracts |-> IF k \in hand THEN n ELSE 0]
      /\ done = IF byHand THEN <<part>> ELSE <<>>
      /\ funded = 1 .. n /\ n \in {0, 1} /\ (byHand <=> n = 1)
  BY <1>1
<1>3. /\ script = "none" /\ prog = <<>> /\ mem = Nothing /\ wraps = <<>> /\ flows = {}
      /\ interrupts = 0 /\ forgets = 0
  BY DEF Init
<1>4. /\ {"PoolINFT", "MockUSDC", "mint_1m_usdc", "framework", "superTokenFactoryImpl"} \subseteq hand
      /\ "USDCx" \notin hand /\ "forwarders" \notin hand
      /\ {"PoolINFT", "MockUSDC", "USDCx", "framework", "gda_create_pool"} \subseteq Contracts
  BY DEF Linked, Contracts, Addresses
<1>5. part \subseteq SetUp /\ Based(part)
  <2> DEFINE p == HostSteps \o AgreementSteps
             q == p \o <<"poolAdminNFT">>
  <2>1. HostSteps \in Programs /\ AgreementSteps \in Programs
    BY HostPiece, AgreementPiece DEF Block, Quiet
  <2>2. <<"poolAdminNFT">> \in Programs /\ Steps(<<"poolAdminNFT">>) = {"poolAdminNFT"}
    <3>1. {"poolAdminNFT"} \subseteq Names
      BY NamesAre
    <3>2. <<"poolAdminNFT">> \in Seq({"poolAdminNFT"})
      OBVIOUS
    <3> QED
      BY <3>1, <3>2 DEF Steps, Programs
  <2>3. p \in Programs /\ q \in Programs
    BY <2>1, <2>2, ConcatSteps
  <2>4. Steps(p) = Steps(HostSteps) \cup Steps(AgreementSteps) /\ Steps(q) = Steps(p) \cup {"poolAdminNFT"}
    BY <2>1, <2>2, <2>3, StepsConcat
  <2>5. part = Steps(q) \ {"framework"}
    BY <2>3 DEF ToSet, Steps, Programs
  <2> HIDE DEF part, p, q
  <2>6. Based(part)
    <3>1. "framework" \notin Base /\ "framework" \notin ByProxy
      BY DEF Base, ByProxy
    <3> QED
      BY <2>4, <2>5, <3>1, HostPiece, AgreementPiece DEF Based, Base
  <2>7. part \subseteq SetUp
    BY <2>4, <2>5, HostPiece, AgreementPiece DEF HostNames, AgreementNames, SetUp, Governed, Updates, ByProxy, ByImplementation
  <2> QED
    BY <2>6, <2>7
<1> HIDE DEF part
<1>6. file \in Files /\ file # Torn
  BY <1>2, RecordsInit, ContractKeys DEF RecordsInv, Typed, Files, Torn
<1>7. ChainOK
  <2>1. done \in Seq(SUBSET SetUp) /\ Len(done) = made["framework"]
    <3>1. CASE byHand
      <4>1. done = <<part>> /\ made["framework"] = 1 /\ part \in SUBSET SetUp
        BY <1>2, <1>4, <1>5, <3>1
      <4> QED
        BY <4>1
    <3>2. CASE ~byHand
      <4>1. done = <<>> /\ made["framework"] = 0
        BY <1>2, <1>4, <3>2
      <4> QED
        BY <4>1
    <3> QED
      BY <3>1, <3>2
  <2>2. /\ wraps \in Seq([usdc : Nat, framework : Nat]) /\ Len(wraps) = made["USDCx"]
        /\ \A u \in 1 .. Len(wraps) : FALSE
    BY <1>2, <1>3, <1>4
  <2> QED
    BY <1>3, <2>1, <2>2, FS_EmptySet DEF ChainOK
<1>8. Planned
  BY <1>3, EmptyPlan DEF Planned
<1>9. \A w : ~Upcoming(w)
  BY <1>3 DEF Upcoming
<1>10. StreamsCounted
  BY <1>3, <1>9, FS_EmptySet DEF StreamsCounted
<1>11. DeploysCounted
  <2>1. \A k \in {"PoolINFT", "MockUSDC"} : made[k] = n /\ file[k] = n
    BY <1>2, <1>4, NothingKnown
  <2> HIDE DEF n
  <2> QED
    BY <1>2, <1>3, <2>1 DEF DeploysCounted
<1>12. TokensAgree
  BY <1>2, <1>3, <1>4, NothingKnown DEF TokensAgree, Belong, Wrapped, Has
<1>13. WrapperAgrees
  BY <1>2, <1>3, <1>4, NothingKnown DEF WrapperAgrees, Agree, Has
<1>14. FileReady
  BY <1>2, <1>4, <1>5, NothingKnown DEF FileReady, Complete, Has
<1> QED
  BY <1>3, <1>7, <1>8, <1>10, <1>11, <1>12, <1>13, <1>14, RecordsInit, NothingKnown DEF DeployInv

\* A script starts with what the file says and a program it can be relied on for.
LEMMA StartStep ==
  ASSUME DeployInv, NEW name, name # "none", NEW knows \in Files, NEW steps,
         Start(name, knows, steps), Block(steps), Plan(steps, knows, done),
         \A k \in Contracts : knows[k] <= made[k],
         Belong(knows), Wrapped(knows), Agree(knows) \/ interrupts # 0, Complete(knows),
         forgets' \in {forgets, forgets + 1},
         \A k \in {"PoolINFT", "MockUSDC"} : knows[k] # 0 \/ made[k] <= forgets' + interrupts
  PROVE  DeployInv'
<1>1. /\ script = "none" /\ script' = name /\ mem' = knows /\ prog' = steps
      /\ file' = file /\ env' = env /\ made' = made /\ done' = done /\ wraps' = wraps
      /\ funded' = funded /\ flows' = flows /\ interrupts' = interrupts
  BY DEF Start, chainVars
<1>2. prog = <<>> /\ \A w : ~Upcoming(w)
  BY <1>1 DEF DeployInv, Planned, Upcoming
<1>3. RecordsInv'
  BY StartKnows DEF DeployInv
<1>4. ChainOK'
  BY <1>1 DEF DeployInv, ChainOK
<1>5. Planned'
  BY <1>1 DEF Planned
<1>6. ~Upcoming(FlowOff)'
  <2>1. steps # <<>> => Head(steps) # FlowOff
    BY TailSteps DEF Block
  <2> QED
    BY <1>1, <2>1 DEF Upcoming
<1>7. StreamsCounted'
  BY <1>1, <1>2, <1>6 DEF DeployInv, StreamsCounted
<1>8. DeploysCounted'
  <2>1. ASSUME NEW k \in {"PoolINFT", "MockUSDC"}
        PROVE  /\ made[k] <= 1 + forgets' + interrupts
               /\ file # Torn => file[k] # 0 \/ made[k] <= forgets' + interrupts
    <3>1. /\ made[k] <= 1 + forgets + interrupts
          /\ file # Torn => file[k] # 0 \/ made[k] <= forgets + interrupts
      BY <1>2 DEF DeployInv, DeploysCounted, Pending
    <3>2. made[k] \in Nat
      BY Counted DEF DeployInv
    <3>3. interrupts \in Nat /\ forgets \in Nat
      BY DEF DeployInv, ChainOK
    <3> DEFINE m == made[k]
               i == interrupts
               g == forgets
               h == forgets'
    <3>4. g <= h
      BY <3>3
    <3>5. h \in Nat /\ i \in Nat /\ g \in Nat /\ m \in Nat
      BY <3>2, <3>3
    <3> HIDE DEF g, h, i, m
    <3>6. m <= 1 + g + i => m <= 1 + h + i
      BY <3>4, <3>5
    <3>7. m <= g + i => m <= h + i
      BY <3>4, <3>5
    <3> QED
      BY <3>1, <3>6, <3>7 DEF g, h, i, m
  <2> QED
    BY <1>1, <2>1 DEF DeploysCounted
<1>9. TokensAgree'
  BY <1>1 DEF DeployInv, TokensAgree, Belong, Wrapped
<1>10. WrapperAgrees'
  BY <1>1, <1>2 DEF DeployInv, WrapperAgrees, Agree
<1>11. FileReady'
  BY <1>1 DEF DeployInv, FileReady, Complete
<1>12. Complete(mem)'
  BY <1>1 DEF Complete
<1> QED
  BY <1>3, <1>4, <1>5, <1>7, <1>8, <1>9, <1>10, <1>11, <1>12 DEF DeployInv

\* The scripts that read the file and need it.
LEMMA ReaderStep ==
  ASSUME DeployInv,
         StartSuperfluidMainnet \/ StartSuperfluidManual \/ StartFinishDemo \/ StartMoreDemoTxs
  PROVE  DeployInv'
<1>1. file \in Files /\ file # Torn /\ forgets' = forgets
  BY DEF DeployInv, RecordsInv, Typed, StartSuperfluidMainnet, StartSuperfluidManual,
         StartFinishDemo, StartMoreDemoTxs, Readable
<1>2. PICK name, steps :
        name # "none" /\ Start(name, file, steps) /\ Block(steps) /\ Plan(steps, file, done)
  <2>1. CASE StartSuperfluidMainnet
    <3>1. Start("deploy_superfluid_mainnet", file, SuperfluidMainnet) /\ Has(file, "MockUSDC")
      BY <2>1 DEF StartSuperfluidMainnet, Readable
    <3> QED
      BY <1>1, <3>1, MainnetPlan DEF DeployInv
  <2>2. CASE StartSuperfluidManual
    <3>1. Start("deploy_superfluid_manual", file, SuperfluidManual) /\ Has(file, "MockUSDC")
      BY <2>2 DEF StartSuperfluidManual, Readable
    <3> QED
      BY <3>1, ManualPlan
  <2>3. CASE StartFinishDemo
    <3>1. Start("finish_superfluid_demo", file, FinishDemo)
          /\ Has(file, "MockUSDC") /\ Has(file, "framework")
      BY <2>3 DEF StartFinishDemo, Readable
    <3> QED
      BY <1>1, <3>1, FinishPlan DEF DeployInv
  <2>4. CASE StartMoreDemoTxs
    <3>1. Start("more_demo_txs", file, MoreDemoTxs)
      BY <2>4 DEF StartMoreDemoTxs
    <3> QED
      BY <1>1, <3>1, MorePlan DEF DeployInv
  <2> QED
    BY <2>1, <2>2, <2>3, <2>4
<1>3. script = "none" /\ prog = <<>> /\ \A w : ~Upcoming(w)
  BY <1>2 DEF Start, DeployInv, Planned, Upcoming
<1>4. \A k \in Contracts : file[k] <= made[k]
  BY <1>1, Counted DEF DeployInv
<1>5. Belong(file) /\ Wrapped(file) /\ Complete(file)
  BY <1>1 DEF DeployInv, TokensAgree, FileReady
<1>6. Agree(file) \/ interrupts # 0
  BY <1>1, <1>3 DEF DeployInv, WrapperAgrees
<1>7. \A k \in {"PoolINFT", "MockUSDC"} : file[k] # 0 \/ made[k] <= forgets' + interrupts
  BY <1>1, <1>3 DEF DeployInv, DeploysCounted, Pending
<1> QED
  BY <1>1, <1>2, <1>4, <1>5, <1>6, <1>7, StartStep

\* deploy_mainnet.py, which starts from nothing if it is not told to resume.
LEMMA DeployerStep ==
  ASSUME DeployInv, NEW phase \in Phases, NEW resume \in BOOLEAN, StartDeployMainnet(phase, resume)
  PROVE  DeployInv'
<1> DEFINE knows == Loaded(resume)
           steps == DeployMainnet(phase, resume)
<1>1. Start("deploy_mainnet", knows, steps)
  BY DEF StartDeployMainnet
<1>2. Block(steps) /\ Plan(steps, knows, done)
  BY DeployMainnetPlan
<1>3. script = "none" /\ prog = <<>> /\ \A w : ~Upcoming(w)
  BY <1>1 DEF Start, DeployInv, Planned, Upcoming
<1>4. file \in Files \/ file = Torn
  BY DEF DeployInv, RecordsInv, Typed
<1>5. forgets' \in {forgets, forgets + 1}
  BY DEF StartDeployMainnet
<1>6. {"framework", "forwarders"} \subseteq Superfluid
      /\ Superfluid \cap {"PoolINFT", "MockUSDC", "USDCx", "mint_1m_usdc"} = {}
  BY DEF Superfluid, Libraries, Linked, Oversized
<1>7. CASE resume
  <2>1. file \in Files /\ file # Torn
    BY <1>4, <1>7 DEF StartDeployMainnet
  <2>2. knows = [k \in Keys |-> IF k \in Superfluid THEN 0 ELSE file[k]] /\ knows \in Files
    BY <1>7, <2>1 DEF Loaded, Files
  <2>3. \A k \in Contracts : knows[k] <= made[k]
    BY <2>1, <2>2, ContractKeys, Counted DEF DeployInv
  <2>4. /\ knows["MockUSDC"] = file["MockUSDC"] /\ knows["PoolINFT"] = file["PoolINFT"]
        /\ knows["mint_1m_usdc"] = file["mint_1m_usdc"]
        /\ knows["USDCx"] = file["USDCx"] /\ knows["framework"] = 0 /\ knows["forwarders"] = 0
    BY <1>6, <2>2, NothingKnown
  <2>5. Belong(knows) /\ Wrapped(knows)
    BY <2>1, <2>4 DEF DeployInv, TokensAgree, Belong, Wrapped, Has
  <2>6. Agree(knows) /\ Complete(knows)
    BY <2>4 DEF Agree, Complete, Has
  <2>7. forgets' = forgets
    BY <1>7 DEF StartDeployMainnet
  <2>8. \A k \in {"PoolINFT", "MockUSDC"} : knows[k] # 0 \/ made[k] <= forgets' + interrupts
    BY <1>3, <2>1, <2>4, <2>7 DEF DeployInv, DeploysCounted, Pending
  <2> HIDE DEF knows, steps
  <2> QED
    BY <1>1, <1>2, <1>5, <2>2, <2>3, <2>5, <2>6, <2>8, StartStep
<1>8. CASE ~resume
  <2>1. knows = Nothing
    BY <1>8 DEF Loaded
  <2>2. \A k \in Contracts : knows[k] <= made[k]
    BY <2>1, ContractKeys, NothingKnown, Counted DEF DeployInv
  <2>3. ASSUME NEW k \in {"PoolINFT", "MockUSDC"} PROVE made[k] <= forgets' + interrupts
    <3>1. made[k] \in Nat /\ forgets \in Nat /\ interrupts \in Nat
      BY Counted DEF DeployInv, ChainOK
    <3>2. CASE file = Nothing
      <4>1. file # Torn /\ file[k] = 0
        <5>1. Nothing # Torn
          BY ContractKeys DEF Nothing, Torn
        <5> QED
          BY <3>2, <5>1, NothingKnown
      <4>2. forgets' = forgets
        BY <1>8, <3>2 DEF StartDeployMainnet
      <4> QED
        BY <1>3, <4>1, <4>2 DEF DeployInv, DeploysCounted, Pending
    <3>3. CASE file # Nothing
      <4>1. forgets' = forgets + 1
        BY <1>8, <3>3 DEF StartDeployMainnet
      <4>2. made[k] <= 1 + forgets + interrupts
        BY DEF DeployInv, DeploysCounted
      <4> QED
        BY <3>1, <4>1, <4>2
    <3> QED
      BY <3>2, <3>3
  <2> HIDE DEF knows, steps
  <2> QED
    BY <1>1, <1>2, <1>5, <2>1, <2>2, <2>3, NothingKnown, StartStep
<1> QED
  BY <1>7, <1>8

\* Each wrapper is of a framework that is there.
LEMMA WrappedFrameworks ==
  ASSUME ChainOK
  PROVE  /\ \A u \in 1 .. Len(wraps) : wraps[u].framework \in Nat
         /\ \A u \in 1 .. Len(wraps) : wraps[u].framework <= made["framework"]
<1> DEFINE W == [usdc : Nat, framework : Nat]
<1>1. \A x \in W : x.framework \in Nat
  OBVIOUS
<1>2. wraps \in Seq(W)
  BY DEF ChainOK
<1> HIDE DEF W
<1>3. \A u \in 1 .. Len(wraps) : wraps[u] \in W
  BY <1>2
<1>4. \A u \in 1 .. Len(wraps) : wraps[u].framework \in Nat
  BY <1>1, <1>3
<1>5. \A u \in 1 .. Len(wraps) : wraps[u].framework <= made["framework"]
  BY DEF ChainOK
<1> QED
  BY <1>4, <1>5

\* The chain only grows, but for the streams.
LEMMA MineOK ==
  ASSUME DeployInv, NEW w, Mine(w)
  PROVE  /\ done' \in Seq(SUBSET SetUp) /\ Len(done') = made'["framework"]
         /\ wraps' \in Seq([usdc : Nat, framework : Nat]) /\ Len(wraps') = made'["USDCx"]
         /\ \A u \in 1 .. Len(wraps') : wraps'[u].framework <= made'["framework"]
         /\ IsFiniteSet(flows')
         /\ \A f \in 1 .. Len(done) : done[f] \subseteq done'[f]
         /\ \A i \in 1 .. Len(wraps) : wraps'[i] = wraps[i]
         /\ funded \subseteq funded'
<1>1. /\ done \in Seq(SUBSET SetUp) /\ Len(done) = made["framework"]
      /\ wraps \in Seq([usdc : Nat, framework : Nat]) /\ Len(wraps) = made["USDCx"]
      /\ IsFiniteSet(flows)
  BY DEF DeployInv, ChainOK
<1>2. /\ made \in [Contracts -> Nat] /\ "framework" \in Contracts /\ "USDCx" \in Contracts
      /\ mem["MockUSDC"] \in Nat /\ mem["framework"] \in Nat
      /\ mem["framework"] <= made["framework"]
  BY Counted DEF DeployInv, RecordsInv, Typed
<1>3. "framework" \notin SetUp
  BY DEF SetUp, Governed, Updates, ByProxy, ByImplementation
<1>4. /\ done' \in Seq(SUBSET SetUp) /\ Len(done') = made'["framework"]
      /\ \A f \in 1 .. Len(done) : done[f] \subseteq done'[f]
  <2>1. CASE w = "framework"
    <3>1. done' = Append(done, {}) /\ made'["framework"] = made["framework"] + 1
      BY <1>2, <1>3, <2>1 DEF Mine
    <3>2. {} \in SUBSET SetUp
      OBVIOUS
    <3> QED
      BY <1>1, <3>1, <3>2
  <2>2. CASE w \in SetUp
    <3>1. /\ done' = [done EXCEPT ![mem["framework"]] = @ \cup {w}]
          /\ made'["framework"] = made["framework"]
      BY <1>2, <1>3, <2>2 DEF Mine
    <3>2. CASE mem["framework"] \in 1 .. Len(done)
      <4>1. done[mem["framework"]] \cup {w} \in SUBSET SetUp
        BY <1>1, <2>2, <3>2
      <4> QED
        BY <1>1, <3>1, <3>2, <4>1
    <3>3. CASE mem["framework"] \notin 1 .. Len(done)
      <4>1. done' = done
        BY <1>1, <3>1, <3>3
      <4> QED
        BY <1>1, <3>1, <4>1
    <3> QED
      BY <3>2, <3>3
  <2>3. CASE w # "framework" /\ w \notin SetUp
    <3>1. done' = done /\ made'["framework"] = made["framework"]
      BY <1>2, <2>3 DEF Mine
    <3> QED
      BY <1>1, <3>1
  <2> QED
    BY <2>1, <2>2, <2>3
<1>5. /\ wraps' \in Seq([usdc : Nat, framework : Nat]) /\ Len(wraps') = made'["USDCx"]
      /\ \A i \in 1 .. Len(wraps) : wraps'[i] = wraps[i]
  <2>1. CASE w = "USDCx"
    <3> DEFINE new == [usdc |-> mem["MockUSDC"], framework |-> mem["framework"]]
    <3>1. wraps' = Append(wraps, new) /\ made'["USDCx"] = made["USDCx"] + 1
      BY <1>2, <2>1 DEF Mine
    <3>2. new \in [usdc : Nat, framework : Nat]
      BY <1>2
    <3> HIDE DEF new
    <3> QED
      BY <1>1, <3>1, <3>2
  <2>2. CASE w # "USDCx"
    <3>1. wraps' = wraps /\ made'["USDCx"] = made["USDCx"]
      BY <1>2, <2>2 DEF Mine
    <3> QED
      BY <1>1, <3>1
  <2> QED
    BY <2>1, <2>2
<1>6. IsFiniteSet(flows')
  <2>1. flows' = CASE w = "distributeFlow(rate)" -> flows \cup {mem["gda_create_pool"]}
                  [] w = "distributeFlow(0)" -> flows \ {mem["gda_create_pool"]}
                  [] OTHER -> flows
    BY DEF Mine
  <2>2. CASE w = "distributeFlow(rate)"
    BY <1>1, <2>1, <2>2, FS_AddElement
  <2>3. CASE w = "distributeFlow(0)"
    BY <1>1, <2>1, <2>3, FS_RemoveElement
  <2>4. CASE w \notin {"distributeFlow(rate)", "distributeFlow(0)"}
    BY <1>1, <2>1, <2>4
  <2> QED
    BY <2>2, <2>3, <2>4
<1>7. funded \subseteq funded'
  BY DEF Mine
<1>8. \A u \in 1 .. Len(wraps') : wraps'[u].framework <= made'["framework"]
  <2>1. made["framework"] \in Nat /\ made'["framework"] \in Nat /\ made["framework"] <= made'["framework"]
    BY <1>2, MineAdds DEF DeployInv, RecordsInv
  <2>2. ASSUME NEW u \in 1 .. Len(wraps) PROVE wraps'[u].framework <= made'["framework"]
    <3>1. wraps[u].framework \in Nat /\ wraps[u].framework <= made["framework"]
      BY WrappedFrameworks DEF DeployInv
    <3>2. wraps'[u] = wraps[u]
      BY <1>5
    <3> QED
      BY <2>1, <3>1, <3>2
  <2>3. CASE w = "USDCx"
    <3>1. wraps' = Append(wraps, [usdc |-> mem["MockUSDC"], framework |-> mem["framework"]])
      BY <2>3 DEF Mine
    <3>2. Len(wraps) \in Nat /\ Len(wraps') = Len(wraps) + 1
          /\ wraps'[Len(wraps) + 1] = [usdc |-> mem["MockUSDC"], framework |-> mem["framework"]]
      BY <1>1, <3>1
    <3>3. wraps'[Len(wraps) + 1].framework = mem["framework"]
      BY <3>2
    <3>4. wraps'[Len(wraps) + 1].framework <= made'["framework"]
      BY <1>2, <2>1, <3>3
    <3>5. \A u \in 1 .. Len(wraps') : u \in 1 .. Len(wraps) \/ u = Len(wraps) + 1
      BY <3>2
    <3> QED
      BY <2>2, <3>4, <3>5
  <2>4. CASE w # "USDCx"
    <3>1. Len(wraps') = Len(wraps)
      BY <2>4 DEF Mine
    <3> QED
      BY <2>2, <3>1
  <2> QED
    BY <2>3, <2>4
<1> QED
  BY <1>4, <1>5, <1>6, <1>7, <1>8

\* What the file says stays true when the chain grows.
LEMMA FileStays ==
  ASSUME DeployInv, file' = file, mem' \in Files,
         \A f \in 1 .. Len(done) : done[f] \subseteq done'[f],
         \A i \in 1 .. Len(wraps) : wraps'[i] = wraps[i],
         funded \subseteq funded'
  PROVE  /\ FileReady'
         /\ file # Torn => Belong(file)' /\ Wrapped(file)'
         /\ file # Torn /\ Agree(file) /\ wraps' = wraps => Agree(file)'
<1> SUFFICES ASSUME file # Torn
             PROVE  /\ FileReady'
                    /\ Belong(file)' /\ Wrapped(file)'
                    /\ Agree(file) /\ wraps' = wraps => Agree(file)'
  BY DEF FileReady
<1>1. /\ Has(file, "framework") => file["framework"] \in 1 .. Len(done)
      /\ Has(file, "USDCx") => file["USDCx"] \in 1 .. Len(wraps)
  BY Counted DEF DeployInv, ChainOK, Has
<1>2. Belong(file) /\ Wrapped(file)
  BY DEF DeployInv, TokensAgree
<1>3. Belong(file)'
  BY <1>2 DEF Belong, Has
<1>4. Wrapped(file)' /\ (Agree(file) /\ wraps' = wraps => Agree(file)')
  BY <1>1, <1>2 DEF Wrapped, Agree, Has
<1>5. FileReady'
  <2> DEFINE f == file["framework"]
  <2>1. Complete(file) /\ (Has(file, "framework") =>
          f \in 1 .. Len(done) /\ Based(done[f]) /\ (Has(file, "forwarders") => Whole(done[f])))
    BY <1>1 DEF DeployInv, FileReady
  <2>2. Has(file, "framework") =>
          Based(done'[f]) /\ (Has(file, "forwarders") => Whole(done'[f]))
    BY <2>1, WholeGrows
  <2> QED
    BY <2>1, <2>2 DEF FileReady, Complete, Has
<1> QED
  BY <1>3, <1>4, <1>5

\* A script stops, and forgets what it knew.
LEMMA ExitStep ==
  ASSUME DeployInv, Exit
  PROVE  /\ Planned' /\ Complete(mem)' /\ Agree(mem)' /\ (\A w : ~Upcoming(w)')
         /\ (file' # Torn => Belong(file)' /\ Wrapped(file)') => TokensAgree'
<1>1. prog' = <<>> /\ mem' = Nothing
  BY DEF Exit
<1>2. Planned'
  BY <1>1, EmptyPlan DEF Planned
<1>3. \A w : ~Upcoming(w)'
  BY <1>1 DEF Upcoming
<1>4. Belong(mem)' /\ Wrapped(mem)' /\ Complete(mem)' /\ Agree(mem)'
  BY <1>1, NothingKnown DEF Belong, Wrapped, Complete, Agree, Has
<1> QED
  BY <1>2, <1>3, <1>4 DEF TokensAgree

\* No reverted transaction stops a script where it must not stop.
LEMMA NotRaised ==
  ASSUME DeployInv, prog # <<>>, Head(prog) \in {"mint_1m_usdc", FlowOff}
  PROVE  Known(Head(prog)) /\ Accepted(Head(prog)) /\ ~MayRevert(Head(prog))
<1>1. PICK w : w = Head(prog)
  OBVIOUS
<1>2. Known(w) /\ ~MayRevert(w)
  BY <1>1 DEF Known, MayRevert, FlowOff
<1>3. ASSUME w = "mint_1m_usdc" PROVE Accepted(w)
  BY <1>3 DEF Accepted, Oversized, Governed, Updates, ByProxy, ByImplementation
<1>4. ASSUME w = FlowOff PROVE Accepted(w)
  <2>1. Forwards
    BY <1>1, <1>4 DEF DeployInv, StreamsCounted, Upcoming
  <2> QED
    BY <1>4, <2>1 DEF Accepted, Oversized, Governed, Updates, ByProxy, ByImplementation, FlowOff
<1> QED
  BY <1>1, <1>2, <1>3, <1>4

\* A script raises, or has come to its end.
LEMMA StopStep ==
  ASSUME DeployInv, Raise \/ End
  PROVE  DeployInv'
<1>1. Exit /\ UNCHANGED <<file, env, chainVars, sizeLimit, runs, interrupts, forgets>>
  BY DEF Raise, End
<1>2. /\ file' = file /\ made' = made /\ done' = done /\ wraps' = wraps /\ funded' = funded
      /\ flows' = flows /\ interrupts' = interrupts /\ forgets' = forgets
      /\ script' = "none" /\ mem' = Nothing
  BY <1>1 DEF chainVars, Exit
<1>3. \A w \in {"save", "mint_1m_usdc", FlowOff} : ~Upcoming(w)
  <2>1. CASE Raise
    BY <2>1, NotRaised DEF Raise, Sends, Upcoming
  <2>2. CASE End
    BY <2>2 DEF End, Upcoming
  <2> QED
    BY <2>1, <2>2
<1>4. RecordsInv'
  BY RecordsStep DEF DeployInv, Next
<1>5. ChainOK'
  BY <1>2 DEF DeployInv, ChainOK
<1>6. (file' # Torn => Belong(file)' /\ Wrapped(file)') /\ FileReady' /\ WrapperAgrees'
  BY <1>1, <1>2, <1>3, ExitStep
     DEF DeployInv, TokensAgree, FileReady, Complete, Belong, Wrapped, WrapperAgrees, Agree
<1>7. StreamsCounted'
  BY <1>1, <1>2, <1>3, ExitStep DEF DeployInv, StreamsCounted
<1>8. DeploysCounted'
  BY <1>2, <1>3 DEF DeployInv, DeploysCounted, Pending
<1> QED
  BY <1>1, <1>4, <1>5, <1>6, <1>7, <1>8, ExitStep DEF DeployInv

\* A contract that is deployed and not written down is one the script does not
\* have yet.
LEMMA SecondDeploy ==
  ASSUME DeployInv, prog # <<>>, NEW k \in {"PoolINFT", "MockUSDC"}, Head(prog) = k
  PROVE  mem[k] = 0 /\ made[k] <= forgets + interrupts /\ k \notin Steps(Tail(prog))
<1>1. prog \in Programs /\ Tail(prog) \in Programs
  BY TailSteps DEF DeployInv, Planned, Plan
<1>2. {} \in At(prog, k)
  BY <1>1, AtTail
<1>3. mem[k] = 0
  BY <1>2 DEF DeployInv, Planned, Plan
<1>4. made[k] <= forgets + interrupts
  BY <1>3 DEF DeployInv, Planned, DeploysCounted
<1>5. ASSUME k \in Steps(Tail(prog)) PROVE FALSE
  <2>1. PICK i \in 1 .. Len(Tail(prog)) : Tail(prog)[i] = k
    BY <1>5 DEF Steps
  <2>2. Before(Tail(prog), i) \in At(Tail(prog), k)
    BY <2>1 DEF At
  <2>3. {Head(prog)} \cup Before(Tail(prog), i) \in At(prog, k)
    BY <1>1, <2>2, AtTail
  <2> QED
    BY <2>3 DEF DeployInv, Planned, Plan
<1> QED
  BY <1>3, <1>4, <1>5

\* A script is interrupted.
LEMMA InterruptStep ==
  ASSUME DeployInv, Interrupt
  PROVE  DeployInv'
<1> DEFINE w == Head(prog)
<1>1. /\ prog # <<>> /\ Exit /\ interrupts' = interrupts + 1 /\ forgets' = forgets
      /\ script' = "none" /\ mem' = Nothing
  BY DEF Interrupt, Exit
<1>2. RecordsInv'
  BY RecordsStep DEF DeployInv, Next
<1>3. /\ file' = Torn \/ file' = file
      /\ \/ /\ Mine(w) /\ file' = file
         \/ /\ made' = made /\ done' = done /\ wraps' = wraps /\ funded' = funded /\ flows' = flows
  BY DEF Interrupt, chainVars
<1>4. interrupts \in Nat /\ forgets \in Nat
  BY DEF DeployInv, ChainOK
<1>5. /\ ChainOK'
      /\ \A f \in 1 .. Len(done) : done[f] \subseteq done'[f]
      /\ \A i \in 1 .. Len(wraps) : wraps'[i] = wraps[i]
      /\ funded \subseteq funded'
  <2>1. CASE Mine(w)
    BY <1>1, <1>4, <2>1, MineOK DEF ChainOK
  <2>2. CASE made' = made /\ done' = done /\ wraps' = wraps /\ funded' = funded /\ flows' = flows
    BY <1>1, <1>4, <2>2 DEF DeployInv, ChainOK
  <2> QED
    BY <1>3, <2>1, <2>2
<1>6. FileReady' /\ (file' # Torn => Belong(file)' /\ Wrapped(file)')
  <2>1. CASE file' = Torn
    BY <2>1 DEF FileReady
  <2>2. CASE file' = file
    BY <1>1, <1>5, <2>2, FileStays, NothingKnown
  <2> QED
    BY <1>3, <2>1, <2>2
<1>7. WrapperAgrees'
  BY <1>1, <1>4 DEF WrapperAgrees
<1>8. StreamsCounted'
  <2>1. Cardinality(flows) \in Nat /\ IsFiniteSet(flows)
    BY Counted DEF DeployInv, ChainOK
  <2>2. Cardinality(flows') <= interrupts + 1
    <3>1. CASE flows' = flows
      BY <1>4, <2>1, <3>1 DEF DeployInv, StreamsCounted
    <3>2. CASE Mine(w)
      <4>1. flows' = CASE w = "distributeFlow(rate)" -> flows \cup {mem["gda_create_pool"]}
                      [] w = "distributeFlow(0)" -> flows \ {mem["gda_create_pool"]}
                      [] OTHER -> flows
        BY <3>2 DEF Mine
      <4>2. CASE w = "distributeFlow(rate)"
        <5>1. Cardinality(flows) <= interrupts
          BY <1>1, <4>2 DEF DeployInv, StreamsCounted, Upcoming, FlowOff
        <5>2. flows' = flows \cup {mem["gda_create_pool"]}
          BY <4>1, <4>2
        <5>3. Cardinality(flows') <= Cardinality(flows) + 1
          BY <2>1, <5>2, FS_AddElement
        <5>4. Cardinality(flows') \in Nat
          BY <1>5, FS_CardinalityType DEF ChainOK
        <5> QED
          BY <1>4, <2>1, <5>1, <5>3, <5>4
      <4>3. CASE w = "distributeFlow(0)"
        <5>1. Cardinality(flows) <= interrupts + 1
          BY <1>1, <1>4, <2>1, <4>3 DEF DeployInv, StreamsCounted
        <5> QED
          BY <1>4, <2>1, <4>1, <4>3, <5>1, FS_RemoveElement
      <4>4. CASE w \notin {"distributeFlow(rate)", "distributeFlow(0)"}
        BY <3>1, <4>1, <4>4
      <4> QED
        BY <4>2, <4>3, <4>4
    <3> QED
      BY <1>3, <3>1, <3>2
  <2> QED
    BY <1>1, <2>2, ExitStep DEF StreamsCounted
<1>9. DeploysCounted'
  <2>1. ASSUME NEW k \in {"PoolINFT", "MockUSDC"}
        PROVE  /\ made'[k] <= 1 + forgets + (interrupts + 1)
               /\ file' # Torn => file'[k] # 0 \/ made'[k] <= forgets + (interrupts + 1)
    <3>1. made[k] \in Nat /\ made[k] <= 1 + forgets + interrupts
      BY Counted DEF DeployInv, DeploysCounted
    <3>2. CASE made'[k] = made[k]
      BY <1>4, <3>1, <3>2
    <3>3. CASE made'[k] # made[k]
      <4>1. k = w /\ made'[k] = made[k] + 1
        <5>1. Mine(w)
          BY <1>3, <3>3
        <5>2. made \in [Contracts -> Nat] /\ k \in Contracts
          BY Counted DEF DeployInv, RecordsInv, Typed
        <5> QED
          BY <3>3, <5>1, <5>2 DEF Mine
      <4>2. made[k] <= forgets + interrupts
        BY <1>1, <4>1, SecondDeploy
      <4> QED
        BY <1>4, <3>1, <4>1, <4>2
    <3> QED
      BY <3>2, <3>3
  <2> QED
    BY <1>1, <2>1 DEF DeploysCounted
<1> QED
  BY <1>1, <1>2, <1>5, <1>6, <1>7, <1>8, <1>9, ExitStep DEF DeployInv

\* After its first step a script can be relied on for the others.
LEMMA PlanTail ==
  ASSUME prog # <<>>, Plan(prog, mem, done), NEW m, NEW d,
         \A k \in {"PoolINFT", "MockUSDC"} : k \in Steps(Tail(prog)) => m[k] = mem[k],
         Has(mem, "MockUSDC") => Has(m, "MockUSDC"),
         Head(prog) = "framework" => Has(m, "framework") /\ m["forwarders"] = 0,
         Head(prog) # "framework" =>
           /\ m["framework"] = mem["framework"]
           /\ Has(mem, "framework") =>
                done[mem["framework"]] \cup ({Head(prog)} \cap SetUp) \subseteq d[mem["framework"]]
           /\ m["forwarders"] = IF Head(prog) = "forwarders" THEN mem["framework"] ELSE mem["forwarders"]
  PROVE  Plan(Tail(prog), m, d)
<1> DEFINE s == Tail(prog)
<1>1. PICK w : w = Head(prog)
  OBVIOUS
<1>2. /\ prog \in Programs /\ s \in Programs /\ Windows(s)
      /\ Steps(prog) = {w} \cup Steps(s)
      /\ \A x : \A b \in At(s, x) : {w} \cup b \in At(prog, x)
  BY <1>1, TailSteps, WindowsTail, AtTail DEF Plan
<1>3. /\ Relevant \subseteq SetUp /\ "forwarders" \in Relevant
      /\ "framework" \notin Relevant /\ "framework" \notin SetUp
  BY RelevantSteps
<1> HIDE DEF s
<1>4. \A k \in {"PoolINFT", "MockUSDC"} : \A b \in At(s, k) : k \notin b /\ m[k] = 0
  <2>1. ASSUME NEW k \in {"PoolINFT", "MockUSDC"}, NEW b \in At(s, k) PROVE k \notin b /\ m[k] = 0
    <3>1. {w} \cup b \in At(prog, k)
      BY <1>2, <2>1
    <3>2. k \notin b /\ mem[k] = 0
      BY <3>1 DEF Plan
    <3>3. k \in Steps(s)
      BY <2>1, AtAbsent
    <3> QED
      BY <3>2, <3>3 DEF s
  <2> QED
    BY <2>1
<1>5. "USDCx" \in Steps(s) => Has(m, "MockUSDC")
  BY <1>2 DEF Plan
<1>6. \A b \in At(s, "framework") : ({w} \cup b) \cap (Relevant \cup {"framework"}) = {}
  <2>1. ASSUME NEW b \in At(s, "framework")
        PROVE  ({w} \cup b) \cap (Relevant \cup {"framework"}) = {}
    <3>1. {w} \cup b \in At(prog, "framework")
      BY <1>2, <2>1
    <3> QED
      BY <3>1 DEF Plan
  <2> QED
    BY <2>1
<1>7. "framework" \in Steps(s) => w \notin Relevant \cup {"framework"}
  <2>1. ASSUME "framework" \in Steps(s) PROVE \E b : b \in At(s, "framework")
    BY <2>1 DEF At, Steps
  <2> QED
    BY <1>6, <2>1
<1>8. ASSUME NEW b \in At(s, "save") PROVE Fine(b, m, d)
  <2>1. {w} \cup b \in At(prog, "save")
    BY <1>2, <1>8
  <2>2. Fine({w} \cup b, mem, done)
    BY <2>1 DEF Plan
  <2>3. CASE "framework" \in b
    <3>1. w \notin Relevant
      BY <1>2, <1>7, <1>8, <2>3, AtWithin
    <3>2. Whole({w} \cup b)
      BY <2>2, <2>3 DEF Fine
    <3>3. Whole(b)
      BY <3>1, <3>2, WholeGrows
    <3> QED
      BY <2>3, <3>3 DEF Fine
  <2>4. CASE "framework" \notin b /\ w = "framework"
    <3>1. Whole({w} \cup b)
      BY <2>2, <2>4 DEF Fine
    <3>2. Whole(d[m["framework"]] \cup b)
      BY <1>3, <2>4, <3>1, WholeGrows
    <3> QED
      BY <2>4, <3>2, WholeIsBased DEF Fine
  <2>5. CASE "framework" \notin b /\ w # "framework"
    <3>1. /\ m["framework"] = mem["framework"]
          /\ Has(mem, "framework") =>
               done[mem["framework"]] \cup ({w} \cap SetUp) \subseteq d[mem["framework"]]
          /\ m["forwarders"] = IF w = "forwarders" THEN mem["framework"] ELSE mem["forwarders"]
      BY <1>1, <2>5
    <3> SUFFICES ASSUME Has(m, "framework")
                 PROVE  /\ Based(d[m["framework"]] \cup b)
                        /\ Has(m, "forwarders") \/ "forwarders" \in b => Whole(d[m["framework"]] \cup b)
      BY <2>5 DEF Fine
    <3>2. Has(mem, "framework")
      BY <3>1 DEF Has
    <3>3. /\ Based(done[mem["framework"]] \cup ({w} \cup b))
          /\ Has(mem, "forwarders") \/ "forwarders" \in {w} \cup b =>
               Whole(done[mem["framework"]] \cup ({w} \cup b))
      BY <2>2, <2>5, <3>2 DEF Fine
    <3>4. (done[mem["framework"]] \cup ({w} \cup b)) \cap Relevant \subseteq d[m["framework"]] \cup b
      BY <1>3, <3>1, <3>2
    <3>5. Has(m, "forwarders") \/ "forwarders" \in b => Has(mem, "forwarders") \/ "forwarders" \in {w} \cup b
      BY <3>1 DEF Has
    <3> QED
      BY <3>3, <3>4, <3>5, WholeGrows
  <2> QED
    BY <2>3, <2>4, <2>5
<1>9. \A b \in At(s, "framework") : b \cap (Relevant \cup {"framework"}) = {}
  BY <1>6
<1> QED
  BY <1>2, <1>4, <1>5, <1>8, <1>9 DEF Plan, s

\* A save writes down what is true.
LEMMA SaveKeeps ==
  ASSUME DeployInv, Save
  PROVE  DeployInv'
<1>1. /\ prog # <<>> /\ Head(prog) = "save" /\ file' = SavedState /\ prog' = Tail(prog)
      /\ script' = script /\ mem' = mem /\ made' = made /\ done' = done /\ wraps' = wraps
      /\ funded' = funded /\ flows' = flows /\ interrupts' = interrupts /\ forgets' = forgets
  BY DEF Save, Rest, chainVars
<1>2. RecordsInv'
  BY RecordsStep DEF DeployInv, Next
<1>3. ChainOK'
  BY <1>1 DEF DeployInv, ChainOK
<1>4. prog \in Programs /\ Windows(prog) /\ script # "none"
  BY <1>1 DEF DeployInv, Planned, Plan
<1>5. "save" \notin SetUp
  BY DEF SetUp, Governed, Updates, ByProxy, ByImplementation
<1>6. Planned'
  <2>1. Plan(Tail(prog), mem, done)
    BY <1>1, <1>5, PlanTail DEF DeployInv, Planned
  <2> QED
    BY <1>1, <1>4, <2>1 DEF Planned
<1>7. /\ \A x \in {FlowOff, "mint_1m_usdc"} : ~Upcoming(x)
      /\ ~Upcoming(FlowOff)'
  BY <1>1, <1>4, WindowsTail DEF Upcoming, FlowOn, FlowOff
<1>8. StreamsCounted'
  BY <1>1, <1>7 DEF DeployInv, StreamsCounted
<1>9. {"PoolINFT", "MockUSDC", "mint_1m_usdc", "USDCx"} \subseteq Keys \ Superfluid
      /\ {"framework", "forwarders", "superTokenFactoryImpl"} \subseteq Keys \cap Superfluid
  BY DEF Keys, Addresses, Txs, Superfluid, Libraries, Linked, Oversized
<1>10. /\ file'["PoolINFT"] = mem["PoolINFT"] /\ file'["MockUSDC"] = mem["MockUSDC"]
       /\ file'["mint_1m_usdc"] = mem["mint_1m_usdc"] /\ file'["USDCx"] = mem["USDCx"]
  BY <1>1, <1>9 DEF SavedState
<1>11. \/ file' = mem
       \/ file'["framework"] = 0 /\ file'["forwarders"] = 0
  BY <1>1, <1>9 DEF SavedState
<1>12. DeploysCounted'
  BY <1>1, <1>4, <1>10 DEF DeployInv, DeploysCounted
<1>13. Belong(mem) /\ Wrapped(mem)
  BY <1>7 DEF DeployInv, TokensAgree
<1>14. TokensAgree'
  BY <1>1, <1>10, <1>13 DEF TokensAgree, Belong, Wrapped, Has
<1>15. WrapperAgrees'
  <2> SUFFICES ASSUME interrupts = 0
               PROVE  Agree(mem)' /\ Agree(file)'
    BY <1>1 DEF WrapperAgrees
  <2>1. Agree(mem)
    BY DEF DeployInv, WrapperAgrees
  <2> QED
    BY <1>1, <1>10, <1>11, <2>1 DEF Agree, Has
<1>16. FileReady'
  <2>1. CASE file' = mem
    <3> DEFINE d == done[mem["framework"]]
    <3>1. {} \in At(prog, "save")
      BY <1>1, <1>4, AtTail
    <3>2. Fine({}, mem, done)
      BY <3>1 DEF DeployInv, Planned, Plan
    <3>3. Has(mem, "framework") =>
            Based(d \cup {}) /\ (Has(mem, "forwarders") => Whole(d \cup {}))
      BY <3>2 DEF Fine
    <3>4. Has(mem, "framework") => Based(d) /\ (Has(mem, "forwarders") => Whole(d))
      BY <3>3, WholeGrows
    <3> QED
      BY <1>1, <2>1, <3>4 DEF DeployInv, FileReady, Complete, Has
  <2>2. CASE file'["framework"] = 0 /\ file'["forwarders"] = 0
    BY <2>2 DEF FileReady, Complete, Has
  <2> QED
    BY <1>11, <2>1, <2>2
<1>17. Complete(mem)'
  BY <1>1 DEF DeployInv, Complete
<1> QED
  BY <1>2, <1>3, <1>6, <1>8, <1>12, <1>14, <1>15, <1>16, <1>17 DEF DeployInv

LEMMA WriteEnvKeeps ==
  ASSUME DeployInv, WriteEnv
  PROVE  DeployInv'
<1>1. /\ prog # <<>> /\ Head(prog) = "write_env" /\ file' = file /\ prog' = Tail(prog)
      /\ script' = script /\ mem' = mem /\ made' = made /\ done' = done /\ wraps' = wraps
      /\ funded' = funded /\ flows' = flows /\ interrupts' = interrupts /\ forgets' = forgets
  BY DEF WriteEnv, Rest, chainVars
<1>2. RecordsInv'
  BY RecordsStep DEF DeployInv, Next
<1>3. ChainOK'
  BY <1>1 DEF DeployInv, ChainOK
<1>4. prog \in Programs /\ Windows(prog) /\ script # "none"
  BY <1>1 DEF DeployInv, Planned, Plan
<1>5. "write_env" \notin SetUp
  BY DEF SetUp, Governed, Updates, ByProxy, ByImplementation
<1>6. Planned'
  <2>1. Plan(Tail(prog), mem, done)
    BY <1>1, <1>5, PlanTail DEF DeployInv, Planned
  <2> QED
    BY <1>1, <1>4, <2>1 DEF Planned
<1>7. /\ \A x \in {FlowOff, "mint_1m_usdc", "save"} : ~Upcoming(x)
      /\ ~Upcoming(FlowOff)'
  BY <1>1, <1>4, WindowsTail DEF Upcoming, FlowOn, FlowOff
<1>8. StreamsCounted'
  BY <1>1, <1>7 DEF DeployInv, StreamsCounted
<1>9. DeploysCounted'
  BY <1>1, <1>7 DEF DeployInv, DeploysCounted, Pending
<1>10. TokensAgree'
  BY <1>1, <1>7 DEF DeployInv, TokensAgree, Belong, Wrapped
<1>11. WrapperAgrees'
  BY <1>1, <1>7 DEF DeployInv, WrapperAgrees, Agree
<1>12. FileReady' /\ Complete(mem)'
  BY <1>1 DEF DeployInv, FileReady, Complete
<1> QED
  BY <1>2, <1>3, <1>6, <1>8, <1>9, <1>10, <1>11, <1>12 DEF DeployInv

\* What a script learns of its transaction.
LEMMA SendLearns ==
  ASSUME DeployInv, Send
  PROVE  LET w == Head(prog)
         IN /\ \A k \in Contracts : k = w => mem'[k] = made'[k] /\ made'[k] = made[k] + 1 /\ mem'[k] # 0
            /\ \A k \in Contracts : k # w => mem'[k] = mem[k] /\ made'[k] = made[k]
            /\ mem'["mint_1m_usdc"] = IF w = "mint_1m_usdc" THEN mem["MockUSDC"] ELSE mem["mint_1m_usdc"]
            /\ mem'["forwarders"] = IF w = "forwarders" THEN mem["framework"]
                                    ELSE IF w = "framework" THEN 0 ELSE mem["forwarders"]
            /\ mem'["superTokenFactoryImpl"] = IF w = "framework" THEN 0 ELSE mem["superTokenFactoryImpl"]
<1>1. PICK w : w = Head(prog)
  OBVIOUS
<1>2. mem' = [k \in Keys |->
        CASE k = w /\ k \in Contracts -> made'[k]
          [] k = w /\ k = "mint_1m_usdc" -> mem["MockUSDC"]
          [] k = w /\ k = "forwarders" -> mem["framework"]
          [] k \in {"forwarders", "superTokenFactoryImpl"} /\ w = "framework" -> 0
          [] OTHER -> mem[k]]
  BY <1>1 DEF Send
<1>3. made' = IF w \in Contracts THEN [made EXCEPT ![w] = @ + 1] ELSE made
  BY <1>1 DEF Send, Mine
<1>4. made \in [Contracts -> Nat]
  BY DEF DeployInv, RecordsInv, Typed
<1>5. {"mint_1m_usdc", "forwarders", "superTokenFactoryImpl"} \subseteq Keys
      /\ Contracts \cap {"mint_1m_usdc", "forwarders", "superTokenFactoryImpl"} = {}
      /\ "framework" \in Contracts
  BY DEF Keys, Txs, Superfluid, Contracts, Addresses, Libraries, Linked, Oversized
<1>6. ASSUME NEW k \in Contracts, k = w
      PROVE  mem'[k] = made'[k] /\ made'[k] = made[k] + 1 /\ mem'[k] # 0
  <2>1. made'[k] = made[k] + 1 /\ made[k] \in Nat
    BY <1>3, <1>4, <1>6
  <2>2. mem'[k] = made'[k]
    BY <1>2, <1>5, <1>6, ContractKeys
  <2> QED
    BY <2>1, <2>2
<1>7. ASSUME NEW k \in Contracts, k # w
      PROVE  mem'[k] = mem[k] /\ made'[k] = made[k]
  <2>1. made'[k] = made[k]
    BY <1>3, <1>4, <1>7
  <2>2. mem'[k] = mem[k]
    BY <1>2, <1>5, <1>7, ContractKeys
  <2> QED
    BY <2>1, <2>2
<1>8. mem'["mint_1m_usdc"] = IF w = "mint_1m_usdc" THEN mem["MockUSDC"] ELSE mem["mint_1m_usdc"]
  BY <1>2, <1>5
<1>9. mem'["forwarders"] = IF w = "forwarders" THEN mem["framework"]
                           ELSE IF w = "framework" THEN 0 ELSE mem["forwarders"]
  BY <1>2, <1>5
<1>10. mem'["superTokenFactoryImpl"] = IF w = "framework" THEN 0 ELSE mem["superTokenFactoryImpl"]
  <2>1. CASE w = "framework"
    BY <1>2, <1>5, <2>1
  <2>2. CASE w # "framework"
    BY <1>2, <1>5, <2>2
  <2> QED
    BY <2>1, <2>2
<1> QED
  BY <1>1, <1>6, <1>7, <1>8, <1>9, <1>10

\* A script sends its transaction.
LEMMA SendStep ==
  ASSUME DeployInv, Send
  PROVE  DeployInv'
<1>1. PICK w : w = Head(prog)
  OBVIOUS
<1>2. /\ prog # <<>> /\ w \notin {"save", "write_env"} /\ Accepted(w) /\ Mine(w)
      /\ file' = file /\ prog' = Tail(prog) /\ script' = script
      /\ interrupts' = interrupts /\ forgets' = forgets
  BY <1>1 DEF Send, Sends, Rest
<1>3. /\ \A k \in Contracts : k = w => mem'[k] = made'[k] /\ made'[k] = made[k] + 1 /\ mem'[k] # 0
      /\ \A k \in Contracts : k # w => mem'[k] = mem[k] /\ made'[k] = made[k]
      /\ mem'["mint_1m_usdc"] = IF w = "mint_1m_usdc" THEN mem["MockUSDC"] ELSE mem["mint_1m_usdc"]
      /\ mem'["forwarders"] = IF w = "forwarders" THEN mem["framework"]
                              ELSE IF w = "framework" THEN 0 ELSE mem["forwarders"]
      /\ mem'["superTokenFactoryImpl"] = IF w = "framework" THEN 0 ELSE mem["superTokenFactoryImpl"]
  BY <1>1, SendLearns
<1>4. /\ done' \in Seq(SUBSET SetUp) /\ Len(done') = made'["framework"]
      /\ wraps' \in Seq([usdc : Nat, framework : Nat]) /\ Len(wraps') = made'["USDCx"]
      /\ \A u \in 1 .. Len(wraps') : wraps'[u].framework <= made'["framework"]
      /\ IsFiniteSet(flows')
      /\ \A f \in 1 .. Len(done) : done[f] \subseteq done'[f]
      /\ \A i \in 1 .. Len(wraps) : wraps'[i] = wraps[i]
      /\ funded \subseteq funded'
  BY <1>2, MineOK
<1>5. /\ \A k \in Contracts : made[k] \in Nat /\ mem[k] \in Nat /\ mem[k] <= made[k]
      /\ {"PoolINFT", "MockUSDC", "USDCx", "framework", "gda_create_pool"} \subseteq Contracts
      /\ Len(done) = made["framework"] /\ Len(wraps) = made["USDCx"]
      /\ done \in Seq(SUBSET SetUp) /\ wraps \in Seq([usdc : Nat, framework : Nat])
      /\ interrupts \in Nat /\ forgets \in Nat /\ Cardinality(flows) \in Nat /\ IsFiniteSet(flows)
  BY Counted DEF DeployInv, ChainOK
<1>6. RecordsInv'
  BY RecordsStep DEF DeployInv, Next
<1>7. ChainOK'
  BY <1>2, <1>4, <1>5 DEF ChainOK
<1>8. prog \in Programs /\ Windows(prog) /\ script # "none" /\ Tail(prog) \in Programs
  BY <1>2, TailSteps DEF DeployInv, Planned, Plan
<1>9. /\ w \in {"PoolINFT", "mint_1m_usdc", "USDCx"} => Upcoming("save")'
      /\ w = "MockUSDC" => Upcoming("mint_1m_usdc")'
      /\ w = FlowOn => Upcoming(FlowOff)'
      /\ w # FlowOn => ~Upcoming(FlowOff)'
  BY <1>1, <1>2, <1>8, WindowsTail DEF Upcoming
<1>10. {"mint_1m_usdc", "forwarders", "superTokenFactoryImpl"} \cap Contracts = {}
       /\ Contracts \cap SetUp = {}
  BY DEF Contracts, Addresses, Libraries, Linked, Oversized, SetUp, Governed, Updates, ByProxy, ByImplementation
<1>11. Planned'
  <2>1. \A k \in {"PoolINFT", "MockUSDC"} : k \in Steps(Tail(prog)) => mem'[k] = mem[k]
    BY <1>1, <1>2, <1>3, <1>5, SecondDeploy
  <2>2. Has(mem, "MockUSDC") => Has(mem', "MockUSDC")
    BY <1>3, <1>5 DEF Has
  <2>3. w = "framework" => Has(mem', "framework") /\ mem'["forwarders"] = 0
    BY <1>3, <1>5 DEF Has
  <2>4. ASSUME w # "framework"
        PROVE  /\ mem'["framework"] = mem["framework"]
               /\ Has(mem, "framework") =>
                    done[mem["framework"]] \cup ({w} \cap SetUp) \subseteq done'[mem["framework"]]
               /\ mem'["forwarders"] = IF w = "forwarders" THEN mem["framework"] ELSE mem["forwarders"]
    <3>1. Has(mem, "framework") => mem["framework"] \in 1 .. Len(done)
      BY <1>5 DEF Has
    <3>2. w \in SetUp => done' = [done EXCEPT ![mem["framework"]] = @ \cup {w}]
      BY <1>2, <2>4 DEF Mine
    <3>3. Has(mem, "framework") /\ w \in SetUp => w \in done'[mem["framework"]]
      BY <1>5, <3>1, <3>2
    <3>4. Has(mem, "framework") => done[mem["framework"]] \subseteq done'[mem["framework"]]
      BY <1>4, <3>1
    <3> QED
      BY <1>3, <1>5, <2>4, <3>3, <3>4
  <2>5. Plan(prog, mem, done)
    BY DEF DeployInv, Planned
  <2>6. Plan(Tail(prog), mem', done')
    BY <1>1, <1>2, <2>1, <2>2, <2>3, <2>4, <2>5, PlanTail
  <2>7. Plan(prog, mem, done)'
    BY <1>2, <2>6
  <2> QED
    BY <1>2, <1>8, <2>7 DEF Planned
<1>12. StreamsCounted'
  <2>1. flows' = CASE w = "distributeFlow(rate)" -> flows \cup {mem["gda_create_pool"]}
                  [] w = "distributeFlow(0)" -> flows \ {mem["gda_create_pool"]}
                  [] OTHER -> flows
    BY <1>2 DEF Mine
  <2>2. CASE w = FlowOn
    <3>1. flows' = flows \cup {mem["gda_create_pool"]} /\ Forwards
      BY <1>2, <2>1, <2>2 DEF FlowOn, Accepted
    <3>2. done' = done /\ mem'["framework"] = mem["framework"]
          /\ mem'["gda_create_pool"] = mem["gda_create_pool"]
      <4>1. w # "framework" /\ w # "gda_create_pool" /\ w \notin SetUp
        BY <2>2 DEF FlowOn, SetUp, Governed, Updates, ByProxy, ByImplementation
      <4> QED
        BY <1>2, <1>3, <1>5, <4>1 DEF Mine
    <3>3. Forwards'
      BY <3>1, <3>2 DEF Forwards, Framework
    <3>4. Cardinality(flows) <= interrupts
      BY <1>1, <2>2 DEF DeployInv, StreamsCounted, Upcoming, FlowOn, FlowOff
    <3>5. Cardinality(flows') <= interrupts + 1
      <4>1. Cardinality(flows') = IF mem["gda_create_pool"] \in flows
                                    THEN Cardinality(flows) ELSE Cardinality(flows) + 1
        BY <1>5, <3>1, FS_AddElement
      <4> QED
        BY <1>5, <3>4, <4>1
    <3> QED
      BY <1>2, <1>9, <2>2, <3>1, <3>2, <3>3, <3>5 DEF StreamsCounted
  <2>3. CASE w = FlowOff
    <3>1. flows' = flows \ {mem["gda_create_pool"]}
      BY <2>1, <2>3 DEF FlowOff
    <3>2. Cardinality(flows) <= interrupts + 1 /\ mem["gda_create_pool"] \in flows
      BY <1>1, <1>2, <2>3 DEF DeployInv, StreamsCounted, Upcoming
    <3>3. Cardinality(flows') <= interrupts
      <4>1. Cardinality(flows') = Cardinality(flows) - 1
        BY <1>5, <3>1, <3>2, FS_RemoveElement
      <4> QED
        BY <1>5, <3>2, <4>1
    <3> QED
      BY <1>2, <1>9, <2>3, <3>3 DEF StreamsCounted, FlowOn, FlowOff
  <2>4. CASE w \notin {FlowOn, FlowOff}
    <3>1. flows' = flows
      BY <2>1, <2>4 DEF FlowOn, FlowOff
    <3>2. Cardinality(flows) <= interrupts
      BY <1>1, <2>4 DEF DeployInv, StreamsCounted, Upcoming
    <3> QED
      BY <1>2, <1>9, <2>4, <3>1, <3>2 DEF StreamsCounted
  <2> QED
    BY <2>2, <2>3, <2>4
<1>13. DeploysCounted'
  <2>1. ASSUME NEW k \in {"PoolINFT", "MockUSDC"}, k = w
        PROVE  made'[k] <= 1 + forgets + interrupts /\ mem'[k] # 0 /\ Pending(k)'
    <3>1. made[k] <= forgets + interrupts
      BY <1>1, <1>2, <2>1, SecondDeploy
    <3>2. made'[k] <= 1 + forgets + interrupts /\ mem'[k] # 0
      BY <1>3, <1>5, <2>1, <3>1
    <3> QED
      BY <1>9, <2>1, <3>2 DEF Pending
  <2>2. ASSUME NEW k \in {"PoolINFT", "MockUSDC"}, k # w
        PROVE  /\ made'[k] = made[k] /\ mem'[k] = mem[k]
               /\ Pending(k) => Pending(k)'
    <3>1. made'[k] = made[k] /\ mem'[k] = mem[k]
      BY <1>3, <1>5, <2>2
    <3>2. Upcoming("save") => FALSE
      BY <1>1, <1>2 DEF Upcoming
    <3>3. Upcoming("mint_1m_usdc") => w = "mint_1m_usdc"
      BY <1>1 DEF Upcoming
    <3> QED
      BY <1>9, <3>1, <3>2, <3>3 DEF Pending
  <2>3. ASSUME NEW k \in {"PoolINFT", "MockUSDC"}
        PROVE  /\ made'[k] <= 1 + forgets + interrupts
               /\ file # Torn => file[k] # 0 \/ made'[k] <= forgets + interrupts \/ Pending(k)'
               /\ mem'[k] # 0 \/ made'[k] <= forgets + interrupts
    <3>1. /\ made[k] <= 1 + forgets + interrupts
          /\ file # Torn => file[k] # 0 \/ made[k] <= forgets + interrupts \/ Pending(k)
          /\ mem[k] # 0 \/ made[k] <= forgets + interrupts
      BY <1>8 DEF DeployInv, DeploysCounted
    <3>2. CASE k = w
      BY <2>1, <3>2
    <3>3. CASE k # w
      BY <2>2, <3>1, <3>3
    <3> QED
      BY <3>2, <3>3
  <2> QED
    BY <1>2, <2>3 DEF DeploysCounted
<1>14. FileReady' /\ (file # Torn => Belong(file)' /\ Wrapped(file)')
       /\ (file # Torn /\ Agree(file) /\ wraps' = wraps => Agree(file)')
  <2>1. mem' \in Files
    BY <1>6 DEF RecordsInv, Typed
  <2> QED
    BY <1>2, <1>4, <2>1, FileStays
<1>15. Upcoming("mint_1m_usdc")' \/ Belong(mem)'
  <2>1. CASE w = "MockUSDC"
    BY <1>9, <2>1
  <2>2. CASE w = "mint_1m_usdc"
    <3>1. funded' = funded \cup {mem["MockUSDC"]}
      BY <1>2, <2>2 DEF Mine
    <3>2. mem'["MockUSDC"] = mem["MockUSDC"] /\ mem'["mint_1m_usdc"] = mem["MockUSDC"]
      BY <1>3, <1>5, <2>2
    <3> QED
      BY <3>1, <3>2 DEF Belong, Has
  <2>3. CASE w \notin {"MockUSDC", "mint_1m_usdc"}
    <3>1. mem'["MockUSDC"] = mem["MockUSDC"] /\ mem'["mint_1m_usdc"] = mem["mint_1m_usdc"]
      BY <1>3, <1>5, <2>3
    <3>2. Belong(mem)
      BY <1>1, <2>3 DEF DeployInv, TokensAgree, Upcoming
    <3> QED
      BY <1>4, <3>1, <3>2 DEF Belong, Has
  <2> QED
    BY <2>1, <2>2, <2>3
<1>16. Has(mem, "USDCx") => mem["USDCx"] \in 1 .. Len(wraps)
  BY <1>5 DEF Has
<1>17. Wrapped(mem)
  BY DEF DeployInv, TokensAgree
<1>18. w = "USDCx" =>
         /\ Has(mem, "MockUSDC") /\ mem'["USDCx"] = Len(wraps) + 1
         /\ mem'["MockUSDC"] = mem["MockUSDC"] /\ mem'["framework"] = mem["framework"]
         /\ wraps'[Len(wraps) + 1] = [usdc |-> mem["MockUSDC"], framework |-> mem["framework"]]
  <2> SUFFICES ASSUME w = "USDCx"
               PROVE  /\ Has(mem, "MockUSDC") /\ mem'["USDCx"] = Len(wraps) + 1
                      /\ mem'["MockUSDC"] = mem["MockUSDC"] /\ mem'["framework"] = mem["framework"]
                      /\ wraps'[Len(wraps) + 1] = [usdc |-> mem["MockUSDC"], framework |-> mem["framework"]]
    OBVIOUS
  <2>1. Has(mem, "MockUSDC")
    <3>1. w \in Steps(prog)
      BY <1>1, <1>2, <1>8, TailSteps
    <3> QED
      BY <3>1 DEF DeployInv, Planned, Plan
  <2>2. mem'["USDCx"] = Len(wraps) + 1
        /\ mem'["MockUSDC"] = mem["MockUSDC"] /\ mem'["framework"] = mem["framework"]
    BY <1>3, <1>5
  <2>3. wraps' = Append(wraps, [usdc |-> mem["MockUSDC"], framework |-> mem["framework"]])
    BY <1>2 DEF Mine
  <2> QED
    BY <1>5, <2>1, <2>2, <2>3
<1>19. Wrapped(mem)'
  <2>1. CASE w = "USDCx"
    BY <1>18, <2>1 DEF Wrapped, Has
  <2>2. CASE w = "MockUSDC"
    <3>1. mem["MockUSDC"] = 0
      BY <1>1, <1>2, <2>2, SecondDeploy
    <3>2. mem["USDCx"] = 0
      BY <1>17, <3>1 DEF Wrapped, Has
    <3>3. mem'["USDCx"] = 0
      BY <1>3, <1>5, <2>2, <3>2
    <3> QED
      BY <3>3 DEF Wrapped, Has
  <2>3. CASE w \notin {"USDCx", "MockUSDC"}
    <3>1. mem'["USDCx"] = mem["USDCx"] /\ mem'["MockUSDC"] = mem["MockUSDC"]
      BY <1>3, <1>5, <2>3
    <3> QED
      BY <1>4, <1>16, <1>17, <3>1 DEF Wrapped, Has
  <2> QED
    BY <2>1, <2>2, <2>3
<1>20. TokensAgree'
  BY <1>2, <1>14, <1>15, <1>19 DEF TokensAgree
<1>21. WrapperAgrees'
  <2> SUFFICES ASSUME interrupts = 0
               PROVE  /\ Agree(mem)'
                      /\ file # Torn => Agree(file)' \/ Upcoming("save")'
    BY <1>2 DEF WrapperAgrees
  <2>1. Agree(mem) /\ (file # Torn => Agree(file))
    BY <1>1, <1>2 DEF DeployInv, WrapperAgrees, Upcoming
  <2>2. CASE w = "USDCx"
    <3>1. Agree(mem)'
      BY <1>18, <2>2 DEF Agree, Has
    <3> QED
      BY <1>9, <2>2, <3>1
  <2>3. CASE w # "USDCx"
    <3>1. wraps' = wraps
      BY <1>2, <2>3 DEF Mine
    <3>2. CASE w = "framework"
      <4>1. mem'["framework"] = made["framework"] + 1
        BY <1>3, <1>5, <3>2
      <4>2. \A u \in 1 .. Len(wraps) : wraps[u].framework \in Nat /\ wraps[u].framework <= made["framework"]
        BY WrappedFrameworks DEF DeployInv
      <4>3. \A u \in 1 .. Len(wraps') : wraps'[u].framework # mem'["framework"]
        BY <1>5, <3>1, <4>1, <4>2
      <4>4. Agree(mem)'
        BY <4>3 DEF Agree
      <4> QED
        BY <1>14, <2>1, <3>1, <4>4
    <3>3. CASE w # "framework"
      <4>1. mem'["USDCx"] = mem["USDCx"] /\ mem'["framework"] = mem["framework"]
        BY <1>3, <1>5, <2>3, <3>3
      <4>2. Agree(mem)'
        BY <2>1, <3>1, <4>1 DEF Agree, Has
      <4> QED
        BY <1>14, <2>1, <3>1, <4>2
    <3> QED
      BY <3>2, <3>3
  <2> QED
    BY <2>2, <2>3
<1>22. Complete(mem)'
  <2>1. Complete(mem)
    BY DEF DeployInv
  <2>2. mem'["framework"] = mem["framework"] \/ w = "framework"
    BY <1>3, <1>5
  <2> QED
    BY <1>3, <2>1, <2>2 DEF Complete, Has
<1> QED
  BY <1>6, <1>7, <1>11, <1>12, <1>13, <1>14, <1>20, <1>21, <1>22 DEF DeployInv

LEMMA DeployStep ==
  ASSUME DeployInv, [Next]_vars
  PROVE  DeployInv'
<1>1. CASE UNCHANGED vars
  <2>1. RecordsInv'
    BY RecordsStep DEF DeployInv
  <2>2. ChainOK' /\ Planned' /\ StreamsCounted' /\ DeploysCounted'
    BY <1>1 DEF DeployInv, vars, chainVars, ChainOK, Planned, StreamsCounted, DeploysCounted,
                Pending, Upcoming, Forwards, Framework
  <2>3. TokensAgree' /\ WrapperAgrees' /\ FileReady' /\ Complete(mem)'
    BY <1>1 DEF DeployInv, vars, chainVars, TokensAgree, WrapperAgrees, FileReady, Belong, Wrapped,
                Agree, Complete, Upcoming
  <2> QED
    BY <2>1, <2>2, <2>3 DEF DeployInv
<1>2. ASSUME NEW phase \in Phases, NEW resume \in BOOLEAN, StartDeployMainnet(phase, resume)
      PROVE  DeployInv'
  BY <1>2, DeployerStep
<1>3. ASSUME StartSuperfluidMainnet \/ StartSuperfluidManual \/ StartFinishDemo \/ StartMoreDemoTxs
      PROVE  DeployInv'
  BY <1>3, ReaderStep
<1>4. CASE Send
  BY <1>4, SendStep
<1>5. CASE Raise \/ End
  BY <1>5, StopStep
<1>6. CASE Save
  BY <1>6, SaveKeeps
<1>7. CASE WriteEnv
  BY <1>7, WriteEnvKeeps
<1>8. CASE Interrupt
  BY <1>8, InterruptStep
<1> QED
  BY <1>1, <1>2, <1>3, <1>4, <1>5, <1>6, <1>7, <1>8 DEF Next

\* Between two scripts as many streams of the deployer's tokens are open as
\* scripts were interrupted, at most: distributeFlow(0) follows
\* distributeFlow(rate) in every demo, and what it needs does not go away
\* between the two.
THEOREM DemosCloseTheirStreams == Spec => []FlowsClosed
<1>1. ASSUME DeployInv PROVE FlowsClosed
  <2>1. script = "none" => ~Upcoming(FlowOff)
    BY <1>1 DEF DeployInv, Planned, Upcoming
  <2> QED
    BY <1>1, <2>1 DEF DeployInv, StreamsCounted, FlowsClosed
<1> QED
  BY <1>1, DeployInit, DeployStep, PTL DEF Spec

\* deploy_mainnet.py --resume deploys no PoolINFT and no MockUSDC a second
\* time, but for one more each time a script was interrupted or the operator
\* left --resume out, however many scripts are run and in whatever order.
THEOREM ResumeSkipsDeployed == Spec => []ResumeDeploysOnce
<1>1. DeployInv => ResumeDeploysOnce
  BY DEF DeployInv, DeploysCounted, ResumeDeploysOnce
<1> QED
  BY <1>1, DeployInit, DeployStep, PTL DEF Spec

\* The MockUSDC, the mint and the USDCx of .mainnet_state.json belong together,
\* and between two runs, of which none was interrupted, the USDCx is of the
\* framework the file names, if there is one of that framework: also when
\* the last script was refused at its wrapper.
THEOREM RecordsBelongTogether == Spec => []RecordsAgree
<1>1. ASSUME DeployInv PROVE RecordsAgree
  <2>1. DOMAIN wraps = 1 .. Len(wraps)
    BY <1>1 DEF DeployInv, ChainOK
  <2> SUFFICES ASSUME file # Torn
               PROVE  /\ Belong(file) /\ Wrapped(file)
                      /\ script = "none" /\ interrupts = 0 => Agree(file)
    BY <2>1 DEF RecordsAgree, Belong, Wrapped, Agree
  <2>2. script = "none" => \A w : ~Upcoming(w)
    BY <1>1 DEF DeployInv, Planned, Upcoming
  <2> QED
    BY <1>1, <2>2 DEF DeployInv, TokensAgree, WrapperAgrees
<1> QED
  BY <1>1, DeployInit, DeployStep, PTL DEF Spec

\* The forwarders .mainnet_state.json names are of the framework it names, and
\* that one is set up, has its three agreements registered in one way or the
\* other, and trusts them.
THEOREM SavedFrameworksAreReady == Spec => []SavedFrameworkReady
<1>1. ASSUME DeployInv PROVE SavedFrameworkReady
  <2> SUFFICES ASSUME file # Torn, Has(file, "forwarders")
               PROVE  file["forwarders"] = file["framework"] /\ Whole(done[file["framework"]])
    BY DEF SavedFrameworkReady
  <2>1. file["forwarders"] = file["framework"] /\ Has(file, "framework")
    BY <1>1 DEF DeployInv, FileReady, Complete, Has
  <2> QED
    BY <1>1, <2>1 DEF DeployInv, FileReady
<1> QED
  BY <1>1, DeployInit, DeployStep, PTL DEF Spec
=============================================================================
