----------------------------- MODULE FactoryProofs -----------------------------
(***************************************************************************)
(* The factory keeps its registry and its books, and answers every call,    *)
(* for every number of creators, every creation stake and every order of   *)
(* deliveries.                                                             *)
(***************************************************************************)
EXTENDS FactoryClient, SumTheorems, TLAPS

Len1 == Len(monocle_addresses)

\* Entry i lives at the address of salt i - 1, and nothing else has metadata.
RegistryBySalt ==
    /\ \A i \in 1..Len1 : monocle_addresses[i] = Salt(i - 1)
    /\ DOMAIN monocle_meta = {Salt(i - 1) : i \in 1..Len1}
    /\ \A i \in 1..Len1 : monocle_meta[Salt(i - 1)].index = i - 1

\* What may live at an address, now or once a deploy is delivered.
Belongs(kind, a, creator) ==
    \/ kind = "reputation" /\ a = REPUTATION_SALT
    \/ kind = "monocle" /\ a \in DOMAIN monocle_meta /\ creator = monocle_meta[a].creator

DeploysBelong ==
    \A m \in BagToSet(messages) :
        m.type = "deploy" => Belongs(m.kind, m.to, m.creator) /\ m.to \in Address
                             /\ m.creator \in Account

ContractsBelong ==
    \A a \in Address :
        contract[a].kind # "none" => Belongs(contract[a].kind, a, contract[a].creator)

FactoryInductive ==
    TypeOK /\ FeesBacked /\ RegistryBySalt /\ DeploysBelong /\ ContractsBelong

\* Sending adds messages to those in flight.
LEMMA SendDomain ==
    ASSUME NEW S PROVE BagToSet(Send(S)) = BagToSet(messages) \cup S
BY DEF Send, BagToSet, SetToBag, (+)

\* Delivering adds none.
LEMMA ConsumeDomain ==
    ASSUME NEW m PROVE BagToSet(Consume(m)) \subseteq BagToSet(messages)
BY DEF Consume, BagToSet, SetToBag, (-)

\* The stake asked is an amount.
LEMMA StakesAreNat == TypeOK => creation_stake \in Nat
BY FactoryAssumption DEF TypeOK

\* The owner and the creators have accounts.
LEMMA OwnerIsAccount == Owner \in Account /\ Creator \subseteq Account
BY DEF Account

\* At first only the factory exists, with its reputation contract on the way.
LEMMA FactoryInitInductive == Init => FactoryInductive
<1> SUFFICES ASSUME Init PROVE FactoryInductive
  OBVIOUS
<1> USE DEF Init, FactoryInit
<1>1. BagToSet(messages) \subseteq {Deploy("reputation", REPUTATION_SALT, Owner, "good")}
  BY DEF BagToSet, SetToBag, EmptyBag
<1>2. /\ monocle_addresses = <<>> /\ Len1 = 0 /\ DOMAIN monocle_meta = {}
      /\ monocle_addresses \in Seq(Address)
  BY DEF Len1
<1>3. TypeOK
  <2>1. client \in [Creator -> ClientType]
    BY DEF Idle, ClientType, Request
  <2>2. contract \in [Address ->
           [kind : {"none", "reputation", "monocle"}, creator : Account, residual : Nat]]
    BY OwnerIsAccount DEF Nothing
  <2>3. wallet \in [Account -> Nat]
    BY FactoryAssumption
  <2>4. \A m \in BagToSet(messages) : m.value \in Nat
    BY <1>1 DEF Deploy
  <2>5. reputation_address \in {NoAddress, REPUTATION_SALT}
    OBVIOUS
  <2> QED
    BY <1>2, <2>1, <2>2, <2>3, <2>4, <2>5 DEF TypeOK
<1>4. FeesBacked
  BY DEF FeesBacked
<1>5. RegistryBySalt
  BY <1>2 DEF RegistryBySalt
<1>6. DeploysBelong
  BY <1>1, OwnerIsAccount DEF DeploysBelong, Deploy, Belongs, Address
<1>7. ContractsBelong
  BY DEF ContractsBelong, Nothing
<1> QED
  BY <1>3, <1>4, <1>5, <1>6, <1>7 DEF FactoryInductive

-----------------------------------------------------------------------------
(* Steps                                                                   *)

\* A step that leaves the registry alone keeps what belongs where.
LEMMA RegistryUntouched ==
    ASSUME FactoryInductive, UNCHANGED <<monocle_addresses, monocle_meta>>
    PROVE  /\ RegistryBySalt'
           /\ \A kind, a, creator : Belongs(kind, a, creator)' <=> Belongs(kind, a, creator)
BY DEF FactoryInductive, RegistryBySalt, Belongs, Len1

\* A step that posts no deploy keeps what is said of the messages.
LEMMA MessagesKept ==
    ASSUME FactoryInductive, UNCHANGED <<monocle_addresses, monocle_meta>>,
           \A m \in BagToSet(messages') :
               \/ m \in BagToSet(messages)
               \/ m.type # "deploy" /\ m.value \in Nat
    PROVE  DeploysBelong' /\ \A m \in BagToSet(messages') : m.value \in Nat
<1>1. ASSUME NEW m \in BagToSet(messages'), m.type = "deploy"
      PROVE  Belongs(m.kind, m.to, m.creator)' /\ m.to \in Address /\ m.creator \in Account
  BY <1>1, RegistryUntouched DEF FactoryInductive, DeploysBelong
<1>2. \A m \in BagToSet(messages') : m.value \in Nat
  BY DEF FactoryInductive, TypeOK
<1>3. BagToSet(messages)' = BagToSet(messages')
  BY DEF BagToSet
<1> QED
  BY <1>1, <1>2, <1>3 DEF DeploysBelong

\* A step that deploys nothing keeps what is said of the contracts.
LEMMA ContractsKept ==
    ASSUME FactoryInductive, UNCHANGED <<monocle_addresses, monocle_meta, contract>>
    PROVE  ContractsBelong'
BY RegistryUntouched DEF FactoryInductive, ContractsBelong

\* A client step that changes neither the factory nor the messages.
LEMMA ClientStep ==
    ASSUME FactoryInductive,
           UNCHANGED <<contractVars, reputation_address, contract, messages>>,
           wallet' \in [Account -> Nat],
           client' \in [Creator -> ClientType]
    PROVE  FactoryInductive'
<1>1. UNCHANGED <<monocle_addresses, monocle_meta, creation_stake, collected_fees, residual_fees,
                  balance>>
  BY DEF contractVars
<1>2. BagToSet(messages)' = BagToSet(messages)
  BY DEF BagToSet
<1>3. DeploysBelong' /\ ContractsBelong' /\ RegistryBySalt'
  BY <1>1, <1>2, RegistryUntouched, MessagesKept, ContractsKept DEF BagToSet
<1>4. FeesBacked'
  BY <1>1 DEF FactoryInductive, FeesBacked
<1>5. TypeOK'
  BY <1>1, <1>2 DEF FactoryInductive, TypeOK
<1> QED
  BY <1>3, <1>4, <1>5 DEF FactoryInductive

\* create_monocle
LEMMA CreateStep ==
    ASSUME FactoryInductive, NEW u \in Creator, Execute(u)
    PROVE  FactoryInductive'
<1> DEFINE n == Len1
           address == Salt(n)
           paid == client[u].value
           excess == paid - creation_stake
           refund == IF excess > 0 THEN {Transfer(u, excess)} ELSE {}
           deploy == Deploy("monocle", address, u, client[u].request)
           entry == [index |-> n, creator |-> u, stake_required |-> creation_stake,
                     stake_paid |-> paid]
<1>1. /\ n \in Nat /\ n < MaxMonocles /\ monocle_addresses \in Seq(Address)
      /\ paid \in Nat /\ creation_stake \in Nat /\ paid >= creation_stake
      /\ client[u] \in ClientType
  BY StakesAreNat DEF Execute, CreateMonocle, Creatable, FactoryInductive, TypeOK, ClientType, Len1
<1>2. address = n + 2 /\ address \in Address /\ address \notin DOMAIN monocle_meta
  BY <1>1, FactoryAssumption
  DEF Salt, MONOCLE_SALT_OFFSET, Address, FactoryInductive, RegistryBySalt
<1>3. /\ monocle_addresses' = Append(monocle_addresses, address)
      /\ monocle_meta' = [a \in DOMAIN monocle_meta \cup {address} |->
                             IF a = address THEN entry ELSE monocle_meta[a]]
      /\ collected_fees' = collected_fees + creation_stake
      /\ balance' = balance + paid - (IF excess > 0 THEN excess ELSE 0)
      /\ messages' = Send({deploy} \cup refund)
      /\ UNCHANGED <<creation_stake, residual_fees, reputation_address, contract, wallet>>
  BY DEF Execute, CreateMonocle, Registered, Fee, Len1
<1>4. RegistryBySalt'
  <2>1. /\ Len(monocle_addresses') = n + 1
        /\ monocle_addresses'[n + 1] = address
        /\ \A i \in 1..n : monocle_addresses'[i] = monocle_addresses[i]
    BY <1>1, <1>3 DEF Len1
  <2>2. \A i \in 1..(n + 1) : i = n + 1 \/ i \in 1..n
    BY <1>1
  <2>3. Salt((n + 1) - 1) = address
    BY <1>1, <1>2 DEF Salt, MONOCLE_SALT_OFFSET
  <2>4. \A i \in 1..(n + 1) : monocle_addresses'[i] = Salt(i - 1)
    BY <2>1, <2>2, <2>3 DEF FactoryInductive, RegistryBySalt
  <2>5. DOMAIN monocle_meta' = {Salt(i - 1) : i \in 1..(n + 1)}
    <3>1. DOMAIN monocle_meta' = {Salt(i - 1) : i \in 1..n} \cup {address}
      BY <1>3 DEF FactoryInductive, RegistryBySalt
    <3>2. 1..n \subseteq 1..(n + 1) /\ n + 1 \in 1..(n + 1)
      BY <1>1
    <3> QED
      BY <2>2, <2>3, <3>1, <3>2
  <2>6. \A i \in 1..(n + 1) : monocle_meta'[Salt(i - 1)].index = i - 1
    <3>1. CASE n + 1 \in 1..(n + 1)
      <4>1. monocle_meta'[Salt((n + 1) - 1)].index = (n + 1) - 1
        BY <1>1, <1>3, <2>3
      <4>2. ASSUME NEW i \in 1..n
            PROVE  monocle_meta'[Salt(i - 1)].index = i - 1
        <5>1. Salt(i - 1) \in DOMAIN monocle_meta /\ monocle_meta[Salt(i - 1)].index = i - 1
          BY DEF FactoryInductive, RegistryBySalt
        <5> QED
          BY <1>2, <1>3, <5>1
      <4> QED
        BY <2>2, <4>1, <4>2
    <3> QED
      BY <1>1, <3>1
  <2> QED
    BY <2>1, <2>4, <2>5, <2>6 DEF RegistryBySalt, Len1
<1>5. \A kind, a, creator : Belongs(kind, a, creator) => Belongs(kind, a, creator)'
  BY <1>2, <1>3 DEF Belongs
<1>6. \A m \in BagToSet(messages') :
          \/ m \in BagToSet(messages)
          \/ m = deploy
          \/ m = Transfer(u, excess) /\ excess \in Nat
  BY <1>1, <1>3, SendDomain
<1>7. /\ deploy.value = 0 /\ deploy.type = "deploy" /\ deploy.to = address
      /\ deploy.kind = "monocle" /\ deploy.creator = u
      /\ Transfer(u, excess).type = "transfer" /\ Transfer(u, excess).value = excess
  BY DEF Deploy, Transfer
<1> HIDE DEF deploy, excess, refund, paid
<1>8. DeploysBelong'
  <2>1. \A kind, a, creator :
            kind = "monocle" /\ a = address /\ creator = u => Belongs(kind, a, creator)'
    BY <1>3 DEF Belongs
  <2>2. ASSUME NEW m \in BagToSet(messages'), m.type = "deploy"
        PROVE  Belongs(m.kind, m.to, m.creator)' /\ m.to \in Address /\ m.creator \in Account
    <3>1. CASE m \in BagToSet(messages)
      BY <1>5, <2>2, <3>1 DEF FactoryInductive, DeploysBelong
    <3>2. CASE m = deploy
      <4>1. m.kind = "monocle" /\ m.to = address /\ m.creator = u
        BY <1>7, <3>2
      <4> QED
        BY <1>2, <2>1, <4>1, OwnerIsAccount
    <3>3. CASE m = Transfer(u, excess)
      BY <1>7, <2>2, <3>3
    <3> QED
      BY <1>6, <3>1, <3>2, <3>3
  <2> QED
    BY <2>2 DEF DeploysBelong, BagToSet
<1>9. ContractsBelong'
  BY <1>3, <1>5 DEF FactoryInductive, ContractsBelong
<1>10. FeesBacked'
  <2>1. excess \in Nat /\ paid = excess + creation_stake
    BY <1>1 DEF excess
  <2>2. balance' = balance + creation_stake
    <3>1. balance \in Nat
      BY DEF FactoryInductive, TypeOK
    <3>2. balance' = balance + paid - excess
      BY <1>3, <2>1
    <3> QED
      BY <1>1, <2>1, <3>1, <3>2
  <2>3. collected_fees \in Nat /\ residual_fees \in Nat /\ balance = collected_fees + residual_fees
    BY DEF FactoryInductive, TypeOK, FeesBacked
  <2> QED
    BY <1>1, <1>3, <2>2, <2>3 DEF FeesBacked
<1>11. TypeOK'
  <2>1. client' \in [Creator -> ClientType]
    BY <1>1 DEF Execute, SetClient, Idle, ClientType, Request, FactoryInductive, TypeOK
  <2>2. \A m \in BagToSet(messages') : m.value \in Nat
    <3>1. ASSUME NEW m \in BagToSet(messages'), m \in BagToSet(messages)
          PROVE  m.value \in Nat
      BY <3>1 DEF FactoryInductive, TypeOK
    <3>2. deploy.value \in Nat /\ (excess \in Nat => Transfer(u, excess).value \in Nat)
      BY <1>7
    <3> QED
      BY <1>6, <3>1, <3>2
  <2>3. monocle_addresses' \in Seq(Address)
    BY <1>1, <1>2, <1>3
  <2>4. DOMAIN monocle_meta' \subseteq Address
    BY <1>2, <1>3 DEF FactoryInductive, TypeOK
  <2>5. collected_fees' \in Nat /\ balance' \in Nat
    BY <1>1, <1>3, <1>10 DEF FactoryInductive, FeesBacked, TypeOK
  <2> QED
    BY <1>3, <2>1, <2>2, <2>3, <2>4, <2>5 DEF FactoryInductive, TypeOK, BagToSet
<1> QED
  BY <1>4, <1>8, <1>9, <1>10, <1>11 DEF FactoryInductive

\* A creator's script moves, and stays in its states.
LEMMA ClientSet ==
    ASSUME NEW u \in Creator, NEW d \in ClientType, client \in [Creator -> ClientType],
           SetClient(u, d)
    PROVE  client' \in [Creator -> ClientType]
BY DEF SetClient

\* Calling create_monocle changes nothing but the caller and the post.
LEMMA CallStep ==
    ASSUME FactoryInductive, NEW u \in Creator, Create(u)
    PROVE  FactoryInductive'
<1> DEFINE c == client[u]
<1>1. /\ c \in ClientType /\ c.value \in Nat /\ u \in Account
      /\ wallet \in [Account -> Nat] /\ client \in [Creator -> ClientType]
      /\ creation_stake \in Nat /\ monocle_addresses \in Seq(Address)
  BY StakesAreNat, OwnerIsAccount DEF FactoryInductive, TypeOK, ClientType
<1>2. ASSUME ReadStake(u) \/ ReadCount(u) PROVE FactoryInductive'
  <2>1. client' \in [Creator -> ClientType]
    <3>1. CASE ReadStake(u)
      <4>1. PICK value \in Nat : SetClient(u, [c EXCEPT !.step = "priced", !.value = value])
        BY <1>1, <3>1, PaymentAssumption DEF ReadStake
      <4>2. [c EXCEPT !.step = "priced", !.value = value] \in ClientType
        BY <1>1 DEF ClientType
      <4> QED
        BY <1>1, <4>1, <4>2, ClientSet
    <3>2. CASE ReadCount(u)
      <4>1. Len1 \in Nat
        BY <1>1 DEF Len1
      <4>2. [c EXCEPT !.step = "counted", !.index = Len1] \in ClientType
        BY <1>1, <4>1 DEF ClientType
      <4> QED
        BY <1>1, <3>2, <4>2, ClientSet DEF ReadCount, Len1
    <3> QED
      BY <1>2, <3>1, <3>2
  <2>2. UNCHANGED factoryVars
    BY <1>2 DEF ReadStake, ReadCount
  <2> QED
    BY <1>1, <2>1, <2>2, ClientStep DEF factoryVars
<1>3. CASE SendCreate(u)
  <2>1. PICK request \in Request : SetClient(u, [c EXCEPT !.step = "sent", !.request = request])
    BY <1>3 DEF SendCreate
  <2>2. [c EXCEPT !.step = "sent", !.request = request] \in ClientType
    BY <1>1 DEF ClientType
  <2>3. client' \in [Creator -> ClientType]
    BY <1>1, <2>1, <2>2, ClientSet
  <2>4. wallet' \in [Account -> Nat]
    <3>1. c.value <= wallet[u] /\ wallet' = [wallet EXCEPT ![u] = wallet[u] - c.value]
      BY <1>3 DEF SendCreate
    <3>2. wallet[u] \in Nat
      BY <1>1
    <3>3. wallet[u] - c.value \in Nat
      BY <1>1, <3>1, <3>2
    <3> QED
      BY <1>1, <3>1, <3>3
  <2> QED
    BY <1>3, <2>3, <2>4, ClientStep DEF SendCreate
<1>4. ASSUME Revert(u) \/ Fail(u) PROVE FactoryInductive'
  <2>1. PICK s \in {"FINALIZED", "UNDETERMINED"}, r \in {"FINISHED_WITH_ERROR", "NOT_VOTED"} :
            GiveBack(u, s, r)
    BY <1>4 DEF Revert, Fail
  <2>2. client' \in [Creator -> ClientType]
    BY <1>1, <2>1 DEF GiveBack, SetClient, Idle, ClientType, Request
  <2>3. wallet' \in [Account -> Nat]
    BY <1>1, <2>1 DEF GiveBack
  <2> QED
    BY <2>1, <2>2, <2>3, ClientStep DEF GiveBack
<1>5. CASE Resolve(u)
  <2>1. Page(c.index) \in Address \cup {NoAddress}
    BY <1>1 DEF Page, ClientType
  <2>2. client' \in [Creator -> ClientType]
    BY <1>1, <1>5, <2>1 DEF Resolve, SetClient, Idle, ClientType, Request
  <2> QED
    BY <1>1, <1>5, <2>2, ClientStep DEF Resolve, factoryVars
<1> QED
  BY <1>2, <1>3, <1>4, <1>5, CreateStep DEF Create

\* A step of the rest of the system keeps the registry and the clients.
LEMMA OtherStep ==
    ASSUME FactoryInductive, FactoryNext, UNCHANGED client
    PROVE  FactoryInductive'
<1> USE DEF FactoryInductive
<1>1. creation_stake \in Nat /\ Owner \in Account
  BY StakesAreNat, OwnerIsAccount
<1>2. ASSUME UNCHANGED <<monocle_addresses, monocle_meta, reputation_address>>,
             creation_stake' \in CreationStakes,
             collected_fees' \in Nat, residual_fees' \in Nat, FeesBacked',
             wallet' \in [Account -> Nat],
             contract' \in [Address ->
                 [kind : {"none", "reputation", "monocle"}, creator : Account, residual : Nat]],
             ContractsBelong',
             \A m \in BagToSet(messages') :
                 \/ m \in BagToSet(messages)
                 \/ m.type # "deploy" /\ m.value \in Nat
      PROVE  FactoryInductive'
  <2>1. RegistryBySalt' /\ DeploysBelong' /\ \A m \in BagToSet(messages') : m.value \in Nat
    BY <1>2, RegistryUntouched, MessagesKept
  <2>2. balance' \in Nat
    <3>1. \A x, y \in Nat : x + y \in Nat
      OBVIOUS
    <3> QED
      BY <1>2, <3>1, Zenon DEF FeesBacked
  <2>3. TypeOK'
    BY <1>2, <2>1, <2>2 DEF TypeOK, BagToSet
  <2> QED
    BY <1>2, <2>1, <2>3
<1>3. CASE WithdrawFees
  <2>1. /\ collected_fees' = 0 /\ residual_fees' = 0
        /\ balance' = balance - (collected_fees + residual_fees)
        /\ messages' = Send({Transfer(Owner, collected_fees + residual_fees)})
        /\ UNCHANGED <<creation_stake, reputation_address, monocle_addresses, monocle_meta,
                       contract, wallet>>
    BY <1>3 DEF WithdrawFees, FeesReset
  <2>2. FeesBacked'
    BY <2>1 DEF FeesBacked, TypeOK
  <2>3. \A m \in BagToSet(messages') :
            \/ m \in BagToSet(messages)
            \/ m.type # "deploy" /\ m.value \in Nat
    BY <2>1, SendDomain DEF Transfer, TypeOK
  <2>4. ContractsBelong'
    BY <2>1, ContractsKept
  <2> QED
    BY <1>2, <2>1, <2>2, <2>3, <2>4 DEF TypeOK
<1>4. CASE SetCreationStake
  <2>1. /\ creation_stake' \in CreationStakes
        /\ UNCHANGED <<collected_fees, residual_fees, reputation_address, monocle_addresses,
                       monocle_meta, balance, contract, wallet, messages>>
    BY <1>4 DEF SetCreationStake
  <2>2. FeesBacked' /\ ContractsBelong'
    BY <2>1, ContractsKept DEF FeesBacked
  <2> QED
    BY <1>2, <2>1, <2>2 DEF TypeOK, BagToSet
<1>5. ASSUME NEW u \in Account, Donate(u) PROVE FactoryInductive'
  <2>1. PICK value \in 1..wallet[u] :
            /\ Received(value)
            /\ wallet' = [wallet EXCEPT ![u] = @ - value]
            /\ UNCHANGED <<reputation_address, contract, messages>>
    BY <1>5 DEF Donate
  <2>2. /\ wallet[u] \in Nat /\ value \in Nat /\ value <= wallet[u]
    BY DEF TypeOK
  <2>3. wallet' \in [Account -> Nat]
    BY <2>1, <2>2 DEF TypeOK
  <2>4. /\ residual_fees' = residual_fees + value /\ balance' = balance + value
        /\ UNCHANGED <<creation_stake, collected_fees, monocle_addresses, monocle_meta>>
    BY <2>1 DEF Received
  <2>5. FeesBacked' /\ residual_fees' \in Nat
    BY <2>2, <2>4 DEF FeesBacked, TypeOK
  <2>6. ContractsBelong'
    BY <2>1, <2>4, ContractsKept
  <2> QED
    BY <1>2, <2>1, <2>3, <2>4, <2>5, <2>6 DEF TypeOK, BagToSet
<1>6. CASE Deliver
  <2>1. PICK m \in BagToSet(messages) : DeliverDeploy(m) \/ DeliverTransfer(m) \/ DeliverResidual(m)
    BY <1>6 DEF Deliver
  <2>2. /\ messages' = Consume(m) /\ m.value \in Nat
        /\ \A k \in BagToSet(messages') : k \in BagToSet(messages)
    BY <2>1, ConsumeDomain DEF DeliverDeploy, DeliverTransfer, DeliverResidual, TypeOK
  <2>3. CASE DeliverDeploy(m)
    <3>1. /\ UNCHANGED <<contractVars, reputation_address, wallet>>
          /\ m.type = "deploy"
          /\ \/ contract' = contract
             \/ contract' = [contract EXCEPT ![m.to] =
                    [kind |-> m.kind, creator |-> m.creator, residual |-> 0]]
      BY <2>3 DEF DeliverDeploy
    <3>2. UNCHANGED <<monocle_addresses, monocle_meta, creation_stake, collected_fees,
                      residual_fees, balance>>
      BY <3>1 DEF contractVars
    <3>3. Belongs(m.kind, m.to, m.creator) /\ m.to \in Address /\ m.creator \in Account
      BY <3>1 DEF DeploysBelong
    <3>4. FeesBacked'
      BY <3>2 DEF FeesBacked
    <3>5. ContractsBelong'
      <4>1. CASE contract' = contract
        BY <3>2, <4>1, ContractsKept
      <4>2. CASE contract' = [contract EXCEPT ![m.to] =
                    [kind |-> m.kind, creator |-> m.creator, residual |-> 0]]
        <5>1. ASSUME NEW a \in Address, contract'[a].kind # "none"
              PROVE  Belongs(contract'[a].kind, a, contract'[a].creator)
          BY <3>3, <4>2, <5>1 DEF ContractsBelong, TypeOK
        <5> QED
          BY <3>2, <5>1, RegistryUntouched DEF ContractsBelong
      <4> QED
        BY <3>1, <4>1, <4>2
    <3>6. contract' \in [Address ->
             [kind : {"none", "reputation", "monocle"}, creator : Account, residual : Nat]]
      BY <3>1, <3>3 DEF Belongs, TypeOK
    <3> QED
      BY <1>2, <2>2, <3>1, <3>2, <3>4, <3>5, <3>6 DEF TypeOK
  <2>4. CASE DeliverTransfer(m)
    <3>1. /\ UNCHANGED <<contractVars, reputation_address, contract>>
          /\ wallet' = [wallet EXCEPT ![m.to] = @ + m.value]
      BY <2>4 DEF DeliverTransfer
    <3>2. UNCHANGED <<monocle_addresses, monocle_meta, creation_stake, collected_fees,
                      residual_fees, balance>>
      BY <3>1 DEF contractVars
    <3>3. wallet' \in [Account -> Nat]
      <4>1. \A v \in Account : wallet[v] + m.value \in Nat
        BY <2>2 DEF TypeOK
      <4> QED
        BY <3>1, <4>1 DEF TypeOK
    <3>4. FeesBacked' /\ ContractsBelong'
      BY <3>1, <3>2, ContractsKept DEF FeesBacked
    <3> QED
      BY <1>2, <2>2, <3>1, <3>2, <3>3, <3>4 DEF TypeOK
  <2>5. CASE DeliverResidual(m)
    <3>1. /\ residual_fees' = residual_fees + m.value /\ balance' = balance + m.value
          /\ UNCHANGED <<creation_stake, collected_fees, monocle_addresses, monocle_meta,
                         reputation_address, contract, wallet>>
      BY <2>5 DEF DeliverResidual, Received
    <3>2. FeesBacked' /\ residual_fees' \in Nat
      BY <2>2, <3>1 DEF FeesBacked, TypeOK
    <3>3. ContractsBelong'
      BY <3>1, ContractsKept
    <3> QED
      BY <1>2, <2>2, <3>1, <3>2, <3>3 DEF TypeOK
  <2> QED
    BY <2>1, <2>3, <2>4, <2>5
<1>7. ASSUME NEW u \in Creator, NEW a \in Address, Leave(u, a) PROVE FactoryInductive'
  <2>1. PICK value \in 1..wallet[u] :
            /\ wallet' = [wallet EXCEPT ![u] = @ - value]
            /\ contract' = [contract EXCEPT ![a].residual = @ + value]
            /\ UNCHANGED <<contractVars, reputation_address, messages>>
    BY <1>7 DEF Leave
  <2>2. /\ u \in Account /\ wallet[u] \in Nat /\ value \in Nat /\ value <= wallet[u]
    BY OwnerIsAccount DEF TypeOK
  <2>3. wallet' \in [Account -> Nat]
    BY <2>1, <2>2 DEF TypeOK
  <2>4. UNCHANGED <<monocle_addresses, monocle_meta, creation_stake, collected_fees,
                    residual_fees, balance>>
    BY <2>1 DEF contractVars
  <2>5. contract' \in [Address ->
           [kind : {"none", "reputation", "monocle"}, creator : Account, residual : Nat]]
    <3> DEFINE sum == contract[a].residual + value
    <3>1. sum \in Nat
      BY <2>2 DEF TypeOK
    <3>2. contract' = [contract EXCEPT ![a].residual = sum]
      BY <2>1
    <3> HIDE DEF sum
    <3> QED
      BY <3>1, <3>2 DEF TypeOK
  <2>6. \A b \in Address : /\ contract'[b].kind = contract[b].kind
                           /\ contract'[b].creator = contract[b].creator
    BY <2>1 DEF TypeOK
  <2>7. FeesBacked' /\ ContractsBelong'
    BY <2>4, <2>6, RegistryUntouched DEF FeesBacked, ContractsBelong
  <2> QED
    BY <1>2, <2>1, <2>3, <2>4, <2>5, <2>7 DEF TypeOK, BagToSet
<1>8. ASSUME NEW a \in Address, FlushResidual(a) PROVE FactoryInductive'
  <2>1. /\ messages' = Send({Residual(contract[a].residual)})
        /\ contract' = [contract EXCEPT ![a].residual = 0]
        /\ UNCHANGED <<contractVars, reputation_address, wallet>>
    BY <1>8 DEF FlushResidual, BucketEmptied
  <2>2. UNCHANGED <<monocle_addresses, monocle_meta, creation_stake, collected_fees,
                    residual_fees, balance>>
    BY <2>1 DEF contractVars
  <2>3. contract' \in [Address ->
           [kind : {"none", "reputation", "monocle"}, creator : Account, residual : Nat]]
    BY <2>1 DEF TypeOK
  <2>4. \A b \in Address : /\ contract'[b].kind = contract[b].kind
                           /\ contract'[b].creator = contract[b].creator
    BY <2>1 DEF TypeOK
  <2>5. FeesBacked' /\ ContractsBelong'
    BY <2>2, <2>4, RegistryUntouched DEF FeesBacked, ContractsBelong
  <2>6. \A m \in BagToSet(messages') :
            \/ m \in BagToSet(messages)
            \/ m.type # "deploy" /\ m.value \in Nat
    BY <2>1, SendDomain DEF Residual, TypeOK
  <2> QED
    BY <1>2, <2>1, <2>2, <2>3, <2>5, <2>6 DEF TypeOK
<1> QED
  BY <1>3, <1>4, <1>5, <1>6, <1>7, <1>8 DEF FactoryNext

\* Every step keeps the registry.
LEMMA FactoryStepInductive == FactoryInductive /\ [Next]_vars => FactoryInductive'
<1> SUFFICES ASSUME FactoryInductive, [Next]_vars PROVE FactoryInductive'
  OBVIOUS
<1>1. CASE UNCHANGED vars
  <2>1. UNCHANGED factoryVars /\ UNCHANGED client
    BY <1>1 DEF vars
  <2> QED
    BY <2>1, ClientStep DEF factoryVars, FactoryInductive, TypeOK
<1> QED
  BY <1>1, CallStep, OtherStep DEF Next

-----------------------------------------------------------------------------
(* Theorems                                                                *)

\* The registry holds one entry for each salt used, and every contract and every
\* deploy in flight is the one its entry says (create_monocle).
THEOREM FactoryInvariant == Spec => []FactoryInductive
BY FactoryInitInductive, FactoryStepInductive, PTL DEF Spec

\* No fee, wallet or value in flight is ever negative.
THEOREM FactoryTypes == Spec => []TypeOK
<1>1. FactoryInductive => TypeOK
  BY DEF FactoryInductive
<1> QED
  BY <1>1, FactoryInvariant, PTL

\* The factory holds exactly the fees its owner may withdraw.
THEOREM FeesAreBacked == Spec => []FeesBacked
<1>1. FactoryInductive => FeesBacked
  BY DEF FactoryInductive
<1> QED
  BY <1>1, FactoryInvariant, PTL

\* At every registered address lives the registered creator's engine, or nothing
\* yet.
THEOREM EnginesWhereRegistered == Spec => []DeployedAsRegistered
<1>1. ASSUME FactoryInductive PROVE DeployedAsRegistered
  <2>1. SUFFICES ASSUME NEW i \in DOMAIN monocle_addresses
                 PROVE  LET a == monocle_addresses[i] IN
                        /\ a # reputation_address
                        /\ monocle_meta[a].index = i - 1
                        /\ contract[a].kind # "none" =>
                               /\ contract[a].kind = "monocle"
                               /\ contract[a].creator = monocle_meta[a].creator
    BY DEF DeployedAsRegistered
  <2> DEFINE a == monocle_addresses[i]
  <2>2. i \in 1..Len1 /\ a = Salt(i - 1) /\ a \in Address /\ monocle_meta[a].index = i - 1
    <3>1. monocle_addresses \in Seq(Address)
      BY <1>1 DEF FactoryInductive, TypeOK
    <3>2. i \in 1..Len1 /\ a \in Address
      BY <3>1 DEF Len1
    <3> QED
      BY <1>1, <3>2 DEF FactoryInductive, RegistryBySalt
  <2>3. a = i + 1 /\ i >= 1 /\ i \in Int
    BY <1>1, <2>2 DEF Salt, MONOCLE_SALT_OFFSET, FactoryInductive, TypeOK, Len1
  <2>4. a # REPUTATION_SALT /\ a # reputation_address
    BY <1>1, <2>3 DEF REPUTATION_SALT, NoAddress, FactoryInductive, TypeOK
  <2>5. contract[a].kind # "none" => Belongs(contract[a].kind, a, contract[a].creator)
    BY <1>1, <2>2 DEF FactoryInductive, ContractsBelong
  <2> QED
    BY <2>2, <2>4, <2>5 DEF Belongs
<1> QED
  BY <1>1, FactoryInvariant, PTL

\* No call changes an entry of the registry, or its metadata.
THEOREM RegistryStands == Spec => RegistryAppendOnly
<1> DEFINE Kept == /\ \A i \in DOMAIN monocle_addresses : monocle_addresses'[i] = monocle_addresses[i]
                   /\ \A a \in DOMAIN monocle_meta : monocle_meta'[a] = monocle_meta[a]
<1>1. FactoryInductive /\ [Next]_vars => [Kept]_vars
  <2> SUFFICES ASSUME FactoryInductive, Next PROVE Kept
    BY DEF Kept
  <2>1. CASE UNCHANGED <<monocle_addresses, monocle_meta>>
    BY <2>1
  <2>2. ASSUME NEW u \in Creator, Execute(u) PROVE Kept
    <3> DEFINE n == Len1
    <3>1. n \in Nat /\ monocle_addresses \in Seq(Address) /\ Salt(n) \notin DOMAIN monocle_meta
      BY DEF FactoryInductive, TypeOK, Len1, RegistryBySalt, Salt, MONOCLE_SALT_OFFSET
    <3>2. /\ monocle_addresses' = Append(monocle_addresses, Salt(n))
          /\ \E entry : monocle_meta' = [a \in DOMAIN monocle_meta \cup {Salt(n)} |->
                            IF a = Salt(n) THEN entry ELSE monocle_meta[a]]
      BY <2>2 DEF Execute, CreateMonocle, Registered, Len1
    <3> QED
      BY <3>1, <3>2
  <2>3. ASSUME NEW u \in Creator, Create(u), ~Execute(u) PROVE Kept
    BY <2>1, <2>3
    DEF Create, ReadStake, ReadCount, SendCreate, Revert, Fail, GiveBack, Resolve, factoryVars,
        contractVars
  <2>4. ASSUME FactoryNext PROVE Kept
    BY <2>1, <2>4
    DEF FactoryNext, WithdrawFees, SetCreationStake, Donate, Received, Deliver, DeliverDeploy,
        DeliverTransfer, DeliverResidual, Leave, FlushResidual, contractVars
  <2> QED
    BY <2>2, <2>3, <2>4 DEF Next
<1> QED
  BY <1>1, FactoryInvariant, PTL DEF Spec, RegistryAppendOnly

-----------------------------------------------------------------------------
(* What a call of the SDK comes to                                         *)

\* What a client has read, and what its transaction has left in the registry.
CallStands(u) ==
    LET c == client[u] IN
    /\ c.step \in {"counted", "sent"} => c.index <= Len1
    /\ IF (c.step = "waiting" /\ Succeeded(c)) \/ c.step = "done"
       THEN CreatedBy(u) # {}
       ELSE CreatedBy(u) = {}
    /\ c.step = "waiting" /\ Succeeded(c) => c.index < Len1
    /\ c.step = "done" => c.monocle # NoAddress
    /\ c.step # "missing"

CallsStand == \A u \in Creator : CallStands(u)

\* Only the execution of a creation touches the registry.
LEMMA RegistryMoves ==
    ASSUME [Next]_vars, ~UNCHANGED <<monocle_addresses, monocle_meta>>
    PROVE  \E u \in Creator : Execute(u)
<1>1. ASSUME NEW u \in Creator, Create(u), ~Execute(u) PROVE FALSE
  BY <1>1
  DEF Create, ReadStake, ReadCount, SendCreate, Revert, Fail, GiveBack, Resolve, factoryVars,
      contractVars
<1>2. ~FactoryNext
  BY DEF FactoryNext, WithdrawFees, SetCreationStake, Donate, Received, Deliver, DeliverDeploy,
         DeliverTransfer, DeliverResidual, Leave, FlushResidual, contractVars
<1> QED
  BY <1>1, <1>2 DEF Next, vars, factoryVars, contractVars

\* A creation adds one entry, of its caller, at the end of the registry.
LEMMA CreationRegisters ==
    ASSUME FactoryInductive, NEW u \in Creator, Execute(u)
    PROVE  /\ Len1' = Len1 + 1
           /\ Salt(Len1) \notin DOMAIN monocle_meta
           /\ DOMAIN monocle_meta' = DOMAIN monocle_meta \cup {Salt(Len1)}
           /\ \A a \in DOMAIN monocle_meta : monocle_meta'[a] = monocle_meta[a]
           /\ monocle_meta'[Salt(Len1)].stake_required = creation_stake
           /\ CreatedBy(u)' = CreatedBy(u) \cup {Salt(Len1)}
           /\ \A v \in Creator \ {u} : CreatedBy(v)' = CreatedBy(v)
<1> DEFINE n == Len1
           entry == [index |-> n, creator |-> u, stake_required |-> creation_stake,
                     stake_paid |-> client[u].value]
<1>1. n \in Nat /\ monocle_addresses \in Seq(Address) /\ Salt(n) \notin DOMAIN monocle_meta
  BY DEF FactoryInductive, TypeOK, Len1, RegistryBySalt, Salt, MONOCLE_SALT_OFFSET
<1>2. /\ monocle_addresses' = Append(monocle_addresses, Salt(n))
      /\ monocle_meta' = [a \in DOMAIN monocle_meta \cup {Salt(n)} |->
                             IF a = Salt(n) THEN entry ELSE monocle_meta[a]]
  BY DEF Execute, CreateMonocle, Registered, Len1
<1>3. Len1' = n + 1
  BY <1>1, <1>2 DEF Len1
<1>4. entry.creator = u /\ entry.stake_required = creation_stake
  OBVIOUS
<1> HIDE DEF n, entry
<1>5. /\ DOMAIN monocle_meta' = DOMAIN monocle_meta \cup {Salt(n)}
      /\ \A a \in DOMAIN monocle_meta : monocle_meta'[a] = monocle_meta[a]
      /\ monocle_meta'[Salt(n)] = entry
  BY <1>1, <1>2
<1>6. CreatedBy(u)' = CreatedBy(u) \cup {Salt(n)}
  BY <1>4, <1>5 DEF CreatedBy
<1>7. \A v \in Creator \ {u} : CreatedBy(v)' = CreatedBy(v)
  BY <1>4, <1>5 DEF CreatedBy
<1> QED
  BY <1>1, <1>3, <1>4, <1>5, <1>6, <1>7 DEF n

\* A call that is not looked at keeps what it has, whoever else moves.
LEMMA OthersStand ==
    ASSUME FactoryInductive, [Next]_vars, NEW u \in Creator, CallStands(u),
           client'[u] = client[u],
           CreatedBy(u)' = CreatedBy(u), Len1 <= Len1'
    PROVE  CallStands(u)'
<1>1. client[u] \in ClientType /\ Len1 \in Nat
  BY DEF FactoryInductive, TypeOK, Len1
<1>2. Len1' \in Nat
  BY FactoryStepInductive DEF FactoryInductive, TypeOK, Len1
<1> QED
  BY <1>1, <1>2 DEF CallStands, Succeeded, ClientType

\* The step of a caller itself.
LEMMA CallerStands ==
    ASSUME FactoryInductive, NEW u \in Creator, Create(u), CallStands(u)
    PROVE  CallStands(u)'
<1> DEFINE c == client[u]
           d == client'[u]
<1>1. c \in ClientType /\ client \in [Creator -> ClientType] /\ Len1 \in Nat
  BY DEF FactoryInductive, TypeOK, Len1
<1>2. \A e : SetClient(u, e) => d = e
  BY <1>1 DEF SetClient
<1>3. ASSUME UNCHANGED <<monocle_addresses, monocle_meta>>
      PROVE  CreatedBy(u)' = CreatedBy(u) /\ Len1' = Len1
  BY <1>3 DEF CreatedBy, Len1
<1>4. CASE ReadStake(u)
  <2>1. c.step = "idle" /\ d.step = "priced"
    BY <1>1, <1>2, <1>4 DEF ReadStake, ClientType
  <2>2. UNCHANGED <<monocle_addresses, monocle_meta>>
    BY <1>4 DEF ReadStake, factoryVars, contractVars
  <2> QED
    BY <1>3, <2>1, <2>2 DEF CallStands
<1>5. CASE ReadCount(u)
  <2>1. c.step = "priced" /\ d.step = "counted" /\ d.index = Len1
    BY <1>1, <1>2, <1>5 DEF ReadCount, ClientType, Len1
  <2>2. UNCHANGED <<monocle_addresses, monocle_meta>>
    BY <1>5 DEF ReadCount, factoryVars, contractVars
  <2> QED
    BY <1>1, <1>3, <2>1, <2>2 DEF CallStands
<1>6. CASE SendCreate(u)
  <2>1. c.step = "counted" /\ d.step = "sent" /\ d.index = c.index
    BY <1>1, <1>2, <1>6 DEF SendCreate, ClientType
  <2>2. UNCHANGED <<monocle_addresses, monocle_meta>>
    BY <1>6 DEF SendCreate, contractVars
  <2> QED
    BY <1>1, <1>3, <2>1, <2>2 DEF CallStands
<1>7. CASE Execute(u)
  <2>1. c.step = "sent" /\ d.step = "waiting" /\ d.index = c.index
    BY <1>1, <1>2, <1>7 DEF Execute, Idle
  <2>2. Len1' = Len1 + 1 /\ CreatedBy(u)' # {}
    BY <1>7, CreationRegisters
  <2>3. c.index <= Len1 /\ c.index \in Nat
    BY <1>1, <2>1 DEF CallStands, ClientType
  <2>4. Succeeded(d)
    BY <1>1, <1>2, <1>7 DEF Execute, Idle, Succeeded
  <2> HIDE DEF c, d
  <2>5. d.index < Len1'
    BY <1>1, <2>1, <2>2, <2>3
  <2> QED
    BY <2>1, <2>2, <2>4, <2>5 DEF CallStands, d
<1>8. ASSUME Revert(u) \/ Fail(u) PROVE CallStands(u)'
  <2>1. PICK s, r : GiveBack(u, s, r) /\ r # "FINISHED_WITH_RETURN"
    BY <1>8 DEF Revert, Fail
  <2>2. c.step = "sent" /\ d.step = "waiting" /\ ~Succeeded(d)
    BY <1>2, <2>1 DEF GiveBack, Idle, Succeeded
  <2>3. UNCHANGED <<monocle_addresses, monocle_meta>>
    BY <2>1 DEF GiveBack, contractVars
  <2> QED
    BY <1>3, <2>2, <2>3 DEF CallStands
<1>9. CASE Resolve(u)
  <2>1. UNCHANGED <<monocle_addresses, monocle_meta>> /\ c.step = "waiting"
    BY <1>9 DEF Resolve, factoryVars, contractVars
  <2>2. CASE ~Succeeded(c)
    <3>1. d.step = "failed"
      BY <1>2, <1>9, <2>2 DEF Resolve, Idle
    <3> QED
      BY <1>3, <2>1, <2>2, <3>1 DEF CallStands
  <2>3. CASE Succeeded(c)
    <3>1. c.index < Len1 /\ CreatedBy(u) # {} /\ c.index \in Nat
      BY <1>1, <2>1, <2>3 DEF CallStands, ClientType
    <3>2. Page(c.index) = Salt(c.index)
      <4>1. c.index + 1 \in 1..Len1 /\ (c.index + 1) - 1 = c.index
        BY <1>1, <3>1
      <4>2. Page(c.index) = monocle_addresses[c.index + 1]
        BY <3>1 DEF Page, Len1
      <4> QED
        BY <4>1, <4>2 DEF FactoryInductive, RegistryBySalt
    <3>3. Page(c.index) # NoAddress
      BY <3>1, <3>2 DEF Salt, MONOCLE_SALT_OFFSET, NoAddress
    <3>4. d.step = "done" /\ d.monocle = Page(c.index)
      BY <1>2, <1>9, <2>3, <3>3 DEF Resolve, Idle
    <3> QED
      BY <1>3, <2>1, <3>1, <3>3, <3>4 DEF CallStands
  <2> QED
    BY <2>2, <2>3
<1> QED
  BY <1>4, <1>5, <1>6, <1>7, <1>8, <1>9 DEF Create

\* What every call has read and left in the registry stands through every step.
LEMMA StepCallsStand ==
    FactoryInductive /\ CallsStand /\ [Next]_vars => CallsStand'
<1> SUFFICES ASSUME FactoryInductive, CallsStand, [Next]_vars, NEW u \in Creator
             PROVE  CallStands(u)'
  BY DEF CallsStand
<1>1. CallStands(u)
  BY DEF CallsStand
<1>2. CASE Create(u)
  BY <1>1, <1>2, CallerStands
<1>3. CASE ~Create(u)
  <2>1. client'[u] = client[u]
    <3>1. ASSUME NEW v \in Creator, Create(v) PROVE client'[u] = client[u]
      <4>1. v # u /\ client \in [Creator -> ClientType]
        BY <1>3, <3>1 DEF FactoryInductive, TypeOK
      <4>2. \E e : SetClient(v, e)
        BY <3>1 DEF Create, ReadStake, ReadCount, SendCreate, Execute, Revert, Fail, GiveBack,
                    Resolve
      <4> QED
        BY <4>1, <4>2 DEF SetClient
    <3> QED
      BY <3>1 DEF Next, vars
  <2>2. CASE UNCHANGED <<monocle_addresses, monocle_meta>>
    <3>1. CreatedBy(u)' = CreatedBy(u) /\ Len1' = Len1 /\ Len1 \in Nat
      BY <2>2 DEF CreatedBy, Len1, FactoryInductive, TypeOK
    <3> QED
      BY <1>1, <2>1, <3>1, OthersStand
  <2>3. CASE ~UNCHANGED <<monocle_addresses, monocle_meta>>
    <3>1. PICK v \in Creator : Execute(v)
      BY <2>3, RegistryMoves
    <3>2. v # u
      BY <1>3, <3>1 DEF Create
    <3>3. CreatedBy(u)' = CreatedBy(u) /\ Len1' = Len1 + 1 /\ Len1 \in Nat
      BY <3>1, <3>2, CreationRegisters DEF Len1, FactoryInductive, TypeOK
    <3> QED
      BY <1>1, <2>1, <3>3, OthersStand
  <2> QED
    BY <2>2, <2>3
<1> QED
  BY <1>2, <1>3

\* A call of the SDK that returns has created one more engine for its caller, and
\* finds an entry at its index; one that throws has created none.
THEOREM OutcomeIsReported == Spec => []OutcomeReported
<1>1. Init => CallsStand
  BY DEF Init, FactoryInit, CallsStand, CallStands, CreatedBy, Idle, Succeeded
<1>2. CallsStand => OutcomeReported
  BY DEF CallsStand, CallStands, OutcomeReported
<1> QED
  BY <1>1, <1>2, StepCallsStand, FactoryInvariant, PTL DEF Spec

-----------------------------------------------------------------------------
(* The money in flight                                                     *)

Copies(b, m) == IF m \in DOMAIN b THEN b[m] ELSE 0

\* A finite bag of messages that carry a value each.
IsMail(b) ==
    /\ IsFiniteSet(DOMAIN b)
    /\ \A m \in DOMAIN b : b[m] \in Nat /\ m.value \in Nat

\* d is b with one more copy of k, or one less.
Sends(b, k, d) == d = b (+) SetToBag({k})

Consumes(b, k, d) == d = b (-) SetToBag({k})

\* What those of the messages of b that are in X carry together.
Carried(b, X) ==
    SumFunctionOnSet([m \in DOMAIN b \cap X |-> b[m] * m.value], DOMAIN b \cap X)

\* The products of a bag's counts and values are numbers.
LEMMA CarriedTerms ==
    ASSUME NEW b, IsMail(b)
    PROVE  \A m \in DOMAIN b : b[m] * m.value \in Nat
<1>1. \A x, y \in Nat : x * y \in Nat
  OBVIOUS
<1> QED
  BY <1>1 DEF IsMail

\* What is carried, summed over any larger set of messages.
LEMMA CarriedOver ==
    ASSUME NEW b, IsMail(b), NEW X, NEW f, NEW U, IsFiniteSet(U), DOMAIN b \cap X \subseteq U,
           U \subseteq X,
           \A m \in U : f[m] = IF m \in DOMAIN b THEN b[m] * m.value ELSE 0
    PROVE  Carried(b, X) = SumFunctionOnSet(f, U)
<1> DEFINE S == DOMAIN b \cap X
           T == U \ S
           g == [m \in S |-> b[m] * m.value]
<1>1. IsFiniteSet(S) /\ IsFiniteSet(T) /\ S \cap T = {} /\ S \cup T = U
  BY FS_Subset DEF IsMail
<1>2. \A m \in S : f[m] \in Nat /\ g[m] = f[m]
  BY CarriedTerms
<1>3. \A m \in T : f[m] = 0
  OBVIOUS
<1>4. Carried(b, X) = SumFunctionOnSet(g, S)
  BY DEF Carried
<1> HIDE DEF S, T, g
<1>5. SumFunctionOnSet(g, S) = SumFunctionOnSet(f, S)
  BY <1>1, <1>2, SumEqual
<1>6. SumFunctionOnSet(f, T) = 0
  BY <1>1, <1>3, SumZero
<1>7. SumFunctionOnSet(f, U) = SumFunctionOnSet(f, S) + SumFunctionOnSet(f, T)
  <2>1. \A m \in S \cup T : f[m] \in Int
    BY <1>2, <1>3
  <2> QED
    BY <1>1, <2>1, SumUnion
<1>8. SumFunctionOnSet(f, S) \in Nat
  BY <1>1, <1>2, SumNat
<1> QED
  BY <1>4, <1>5, <1>6, <1>7, <1>8

\* A bag that changes at one message only changes what is carried by that much.
LEMMA CarriedChange ==
    ASSUME NEW b, NEW d, IsMail(b), IsMail(d), NEW k, k.value \in Nat, NEW X,
           \A m \in DOMAIN b \cup DOMAIN d : m # k => Copies(d, m) = Copies(b, m)
    PROVE  /\ k \in X => Carried(d, X) = Carried(b, X)
                             + (Copies(d, k) * k.value - Copies(b, k) * k.value)
           /\ k \notin X => Carried(d, X) = Carried(b, X)
<1> DEFINE U == ((DOMAIN b \cup DOMAIN d) \cup {k}) \cap X
           f == [m \in U |-> IF m \in DOMAIN b THEN b[m] * m.value ELSE 0]
           g == [m \in U |-> IF m \in DOMAIN d THEN d[m] * m.value ELSE 0]
<1>1. IsFiniteSet(U)
  <2>1. IsFiniteSet((DOMAIN b \cup DOMAIN d) \cup {k})
    BY FS_Union, FS_AddElement DEF IsMail
  <2> QED
    BY <2>1, FS_Subset
<1>2. Carried(b, X) = SumFunctionOnSet(f, U) /\ Carried(d, X) = SumFunctionOnSet(g, U)
  <2>1. \A m \in U : f[m] = IF m \in DOMAIN b THEN b[m] * m.value ELSE 0
    OBVIOUS
  <2>2. \A m \in U : g[m] = IF m \in DOMAIN d THEN d[m] * m.value ELSE 0
    OBVIOUS
  <2>3. DOMAIN b \cap X \subseteq U /\ DOMAIN d \cap X \subseteq U /\ U \subseteq X
    OBVIOUS
  <2> HIDE DEF U, f, g
  <2> QED
    BY <1>1, <2>1, <2>2, <2>3, CarriedOver
<1>3. \A m \in U : f[m] \in Int /\ g[m] \in Int
  BY CarriedTerms
<1>4. \A m \in U \ {k} : g[m] = f[m]
  <2>1. SUFFICES ASSUME NEW m \in U \ {k} PROVE g[m] = f[m]
    OBVIOUS
  <2>2. Copies(d, m) = Copies(b, m)
    OBVIOUS
  <2>3. m \in DOMAIN b => m.value \in Nat /\ b[m] \in Nat
    BY DEF IsMail
  <2>4. m \in DOMAIN d => m.value \in Nat /\ d[m] \in Nat
    BY DEF IsMail
  <2>5. m \in DOMAIN b \cup DOMAIN d /\ \A x \in Nat : 0 * x = 0
    OBVIOUS
  <2>6. f[m] = Copies(b, m) * m.value /\ g[m] = Copies(d, m) * m.value
    BY <2>3, <2>4, <2>5 DEF Copies
  <2> QED
    BY <2>2, <2>6
<1>5. k \in U => f[k] = Copies(b, k) * k.value /\ g[k] = Copies(d, k) * k.value
  <2>1. 0 * k.value = 0
    OBVIOUS
  <2> QED
    BY <2>1 DEF Copies
<1>6. k \in X => k \in U
  OBVIOUS
<1>7. k \notin X => k \notin U
  OBVIOUS
<1> HIDE DEF U, f, g
<1>8. ASSUME k \in X
      PROVE  Carried(d, X) = Carried(b, X) + (Copies(d, k) * k.value - Copies(b, k) * k.value)
  <2>1. k \in U
    BY <1>6, <1>8
  <2>2. SumFunctionOnSet(g, U) = SumFunctionOnSet(f, U) + (g[k] - f[k])
    BY <1>1, <1>3, <1>4, <2>1, SumChangeAt
  <2> QED
    BY <1>2, <1>5, <2>1, <2>2
<1>9. ASSUME k \notin X PROVE Carried(d, X) = Carried(b, X)
  <2>1. \A m \in U : g[m] = f[m]
    BY <1>4, <1>7, <1>9
  <2> QED
    BY <1>1, <1>2, <1>3, <2>1, SumEqual
<1> QED
  BY <1>8, <1>9

\* What a set of messages carries is a number.
LEMMA CarriedIsNat ==
    ASSUME NEW b, IsMail(b), NEW X
    PROVE  Carried(b, X) \in Nat
<1> DEFINE S == DOMAIN b \cap X
           g == [m \in S |-> b[m] * m.value]
<1>1. IsFiniteSet(S) /\ Carried(b, X) = SumFunctionOnSet(g, S)
  BY FS_Subset DEF IsMail, Carried
<1>2. \A m \in S : g[m] \in Nat
  BY CarriedTerms
<1> HIDE DEF S, g
<1> QED
  BY <1>1, <1>2, SumNat

\* Sending a message adds its value.
LEMMA SendCarries ==
    ASSUME NEW b, IsMail(b), NEW k, k.value \in Nat, NEW X,
           NEW d, Sends(b, k, d)
    PROVE  /\ IsMail(d)
           /\ k \in X => Carried(d, X) = Carried(b, X) + k.value
           /\ k \notin X => Carried(d, X) = Carried(b, X)
<1>1. /\ DOMAIN d = DOMAIN b \cup {k}
      /\ \A m \in DOMAIN d : d[m] = (IF m \in DOMAIN b THEN b[m] ELSE 0)
                                        + (IF m \in {k} THEN 1 ELSE 0)
  BY DEF Sends, (+), SetToBag
<1>2. \A m \in DOMAIN b \cup {k} : m # k => m \in DOMAIN b /\ m \in DOMAIN d /\ d[m] = b[m]
  BY <1>1 DEF IsMail
<1>3. d[k] = Copies(b, k) + 1 /\ k \in DOMAIN d /\ Copies(b, k) \in Nat
  BY <1>1 DEF Copies, IsMail
<1>4. IsMail(d)
  <2>1. IsFiniteSet(DOMAIN d)
    BY <1>1, FS_AddElement DEF IsMail
  <2>2. \A m \in DOMAIN d : d[m] \in Nat /\ m.value \in Nat
    BY <1>1, <1>2, <1>3 DEF IsMail
  <2> QED
    BY <2>1, <2>2 DEF IsMail
<1>5. \A m \in DOMAIN b \cup DOMAIN d : m # k => Copies(d, m) = Copies(b, m)
  BY <1>1, <1>2 DEF Copies
<1>6. Copies(d, k) * k.value - Copies(b, k) * k.value = k.value
  <2>1. Copies(d, k) = Copies(b, k) + 1
    BY <1>3 DEF Copies
  <2>2. \A x, y \in Nat : (x + 1) * y - x * y = y
    OBVIOUS
  <2> QED
    BY <1>3, <2>1, <2>2
<1>7. k \in X => Carried(d, X) = Carried(b, X) + k.value
  BY <1>4, <1>5, <1>6, CarriedChange
<1>8. k \notin X => Carried(d, X) = Carried(b, X)
  BY <1>4, <1>5, CarriedChange
<1> QED
  BY <1>1, <1>4, <1>7, <1>8

\* Delivering a message takes its value out again.
LEMMA ConsumeCarries ==
    ASSUME NEW b, IsMail(b), NEW k \in DOMAIN b, b[k] > 0, NEW X,
           \A m \in DOMAIN b : b[m] > 0,
           NEW d, Consumes(b, k, d)
    PROVE  /\ IsMail(d) /\ DOMAIN d \subseteq DOMAIN b /\ \A m \in DOMAIN d : d[m] > 0
           /\ k \in X => Carried(d, X) = Carried(b, X) - k.value
           /\ k \notin X => Carried(d, X) = Carried(b, X)
<1> DEFINE B == [m \in DOMAIN b |-> IF m \in {k} THEN b[m] - 1 ELSE b[m]]
<1>1. d = [m \in {e \in DOMAIN B : B[e] > 0} |-> B[m]]
  BY DEF Consumes, (-), SetToBag
<1>2. /\ DOMAIN d = {e \in DOMAIN b : B[e] > 0}
      /\ \A m \in DOMAIN d : d[m] = B[m] /\ d[m] > 0
  BY <1>1
<1>3. /\ \A m \in DOMAIN b : m # k => B[m] = b[m]
      /\ B[k] = b[k] - 1 /\ b[k] \in Nat /\ b[k] - 1 \in Nat
  BY DEF IsMail
<1> HIDE DEF B
<1>4. IsMail(d)
  <2>1. IsFiniteSet(DOMAIN d)
    BY <1>2, FS_Subset DEF IsMail
  <2>2. \A m \in DOMAIN d : d[m] \in Nat /\ m.value \in Nat
    BY <1>2, <1>3 DEF IsMail
  <2> QED
    BY <2>1, <2>2 DEF IsMail
<1>5. \A m \in DOMAIN b \cup DOMAIN d : m # k => Copies(d, m) = Copies(b, m)
  BY <1>2, <1>3 DEF Copies
<1>6. Copies(d, k) * k.value - Copies(b, k) * k.value = 0 - k.value
  <2>1. Copies(d, k) = b[k] - 1
    <3>1. CASE k \in DOMAIN d
      BY <1>2, <1>3, <3>1 DEF Copies
    <3>2. CASE k \notin DOMAIN d
      BY <1>2, <1>3, <3>2 DEF Copies
    <3> QED
      BY <3>1, <3>2
  <2>2. Copies(b, k) = b[k]
    BY DEF Copies
  <2>3. \A x, y \in Nat : (x - 1) * y - x * y = 0 - y
    OBVIOUS
  <2>4. k.value \in Nat
    BY DEF IsMail
  <2> QED
    BY <1>3, <2>1, <2>2, <2>3, <2>4
<1>7. k \in X => Carried(d, X) = Carried(b, X) - k.value
  <2>1. k.value \in Nat /\ Carried(b, X) \in Nat
    BY CarriedIsNat DEF IsMail
  <2> QED
    BY <1>4, <1>5, <1>6, <2>1, CarriedChange
<1>8. k \notin X => Carried(d, X) = Carried(b, X)
  <2>1. k.value \in Nat
    BY DEF IsMail
  <2> QED
    BY <1>4, <1>5, <2>1, CarriedChange
<1> QED
  BY <1>2, <1>4, <1>7, <1>8

\* Every message is of one of three kinds; a deploy carries nothing.
IsPost(b) ==
    /\ IsMail(b)
    /\ \A m \in DOMAIN b :
           /\ b[m] > 0
           /\ m.type \in {"deploy", "transfer", "residual"}
           /\ m.type = "deploy" => m.value = 0
           /\ m.type = "transfer" => m.to \in Account

AllIn(b) == Carried(b, DOMAIN b)

OfTransfers(u, M) == {m \in M : m.type = "transfer" /\ m.to = u}

TransfersIn(b, u) == Carried(b, OfTransfers(u, DOMAIN b))

\* What is carried depends only on the messages that are there.
LEMMA CarriedWithin ==
    ASSUME NEW b, NEW X, NEW Y, DOMAIN b \cap X = DOMAIN b \cap Y
    PROVE  Carried(b, X) = Carried(b, Y)
BY DEF Carried

\* What is carried can be summed over any set that holds the messages.
LEMMA InAnyPost ==
    ASSUME NEW b, NEW M, DOMAIN b \subseteq M
    PROVE  /\ AllIn(b) = Carried(b, M)
           /\ \A u : TransfersIn(b, u) = Carried(b, OfTransfers(u, M))
<1>1. DOMAIN b \cap DOMAIN b = DOMAIN b \cap M
  OBVIOUS
<1>2. \A u : DOMAIN b \cap OfTransfers(u, DOMAIN b) = DOMAIN b \cap OfTransfers(u, M)
  BY DEF OfTransfers
<1> QED
  BY <1>1, <1>2, CarriedWithin DEF AllIn, TransfersIn

\* A message sent, on its way to whom it may be for.
LEMMA SendPost ==
    ASSUME NEW b, IsPost(b), NEW k, k.value \in Nat, k.type \in {"deploy", "transfer", "residual"},
           k.type = "deploy" => k.value = 0,
           k.type = "transfer" => k.to \in Account,
           NEW d, Sends(b, k, d)
    PROVE  /\ IsPost(d)
           /\ AllIn(d) = AllIn(b) + k.value
           /\ \A u : TransfersIn(d, u) =
                  TransfersIn(b, u) + (IF k.type = "transfer" /\ k.to = u THEN k.value ELSE 0)
<1> DEFINE M == DOMAIN b \cup {k}
<1>1. IsMail(b) /\ IsMail(d) /\ DOMAIN d = M /\ DOMAIN b \subseteq M /\ k \in M
  <2>1. IsMail(b) /\ IsMail(d)
    BY SendCarries DEF IsPost
  <2>2. DOMAIN d = M
    BY DEF Sends, (+), SetToBag
  <2> QED
    BY <2>1, <2>2
<1>2. IsPost(d)
  <2>1. \A m \in DOMAIN d : d[m] > 0
    <3>1. \A m \in DOMAIN d : d[m] = (IF m \in DOMAIN b THEN b[m] ELSE 0)
                                         + (IF m \in {k} THEN 1 ELSE 0)
      BY DEF Sends, (+), SetToBag
    <3>2. \A m \in DOMAIN b : b[m] \in Nat /\ b[m] > 0
      BY DEF IsPost, IsMail
    <3> QED
      BY <1>1, <3>1, <3>2
  <2> QED
    BY <1>1, <2>1 DEF IsPost
<1>3. /\ AllIn(b) = Carried(b, M) /\ AllIn(d) = Carried(d, M)
      /\ \A u : /\ TransfersIn(b, u) = Carried(b, OfTransfers(u, M))
                /\ TransfersIn(d, u) = Carried(d, OfTransfers(u, M))
  BY <1>1, InAnyPost
<1> HIDE DEF M
<1>4. AllIn(d) = AllIn(b) + k.value
  BY <1>1, <1>3, SendCarries
<1>5. \A u : TransfersIn(d, u) =
                 TransfersIn(b, u) + (IF k.type = "transfer" /\ k.to = u THEN k.value ELSE 0)
  <2>1. SUFFICES ASSUME NEW u
                 PROVE  TransfersIn(d, u) =
                            TransfersIn(b, u) + (IF k.type = "transfer" /\ k.to = u THEN k.value ELSE 0)
    OBVIOUS
  <2>2. k \in OfTransfers(u, M) <=> k.type = "transfer" /\ k.to = u
    BY <1>1 DEF OfTransfers
  <2>3. Carried(b, OfTransfers(u, M)) \in Nat
    BY <1>1, CarriedIsNat
  <2>4. CASE k \in OfTransfers(u, M)
    BY <1>1, <1>3, <2>2, <2>4, SendCarries
  <2>5. CASE k \notin OfTransfers(u, M)
    BY <1>1, <1>3, <2>2, <2>3, <2>5, SendCarries
  <2> QED
    BY <2>4, <2>5
<1> QED
  BY <1>2, <1>4, <1>5

\* A message delivered.
LEMMA ConsumePost ==
    ASSUME NEW b, IsPost(b), NEW k \in DOMAIN b, NEW d, Consumes(b, k, d)
    PROVE  /\ IsPost(d)
           /\ AllIn(d) = AllIn(b) - k.value
           /\ \A u : TransfersIn(d, u) =
                  TransfersIn(b, u) - (IF k.type = "transfer" /\ k.to = u THEN k.value ELSE 0)
<1> DEFINE M == DOMAIN b
<1>1. IsMail(b) /\ b[k] > 0 /\ \A m \in DOMAIN b : b[m] > 0
  BY DEF IsPost
<1>2. IsMail(d) /\ DOMAIN d \subseteq M /\ \A m \in DOMAIN d : d[m] > 0
  BY <1>1, ConsumeCarries
<1>3. IsPost(d)
  BY <1>2 DEF IsPost
<1>4. /\ AllIn(b) = Carried(b, M) /\ AllIn(d) = Carried(d, M)
      /\ \A u : /\ TransfersIn(b, u) = Carried(b, OfTransfers(u, M))
                /\ TransfersIn(d, u) = Carried(d, OfTransfers(u, M))
  BY <1>2, InAnyPost
<1>5. AllIn(d) = AllIn(b) - k.value
  BY <1>1, <1>4, ConsumeCarries
<1>6. \A u : TransfersIn(d, u) =
                 TransfersIn(b, u) - (IF k.type = "transfer" /\ k.to = u THEN k.value ELSE 0)
  <2>1. SUFFICES ASSUME NEW u
                 PROVE  TransfersIn(d, u) =
                            TransfersIn(b, u) - (IF k.type = "transfer" /\ k.to = u THEN k.value ELSE 0)
    OBVIOUS
  <2>2. k \in OfTransfers(u, M) <=> k.type = "transfer" /\ k.to = u
    BY DEF OfTransfers
  <2>3. Carried(b, OfTransfers(u, M)) \in Nat
    BY <1>1, CarriedIsNat
  <2>4. CASE k \in OfTransfers(u, M)
    BY <1>1, <1>4, <2>2, <2>4, ConsumeCarries
  <2>5. CASE k \notin OfTransfers(u, M)
    BY <1>1, <1>4, <2>2, <2>3, <2>5, ConsumeCarries
  <2> QED
    BY <2>4, <2>5
<1> QED
  BY <1>3, <1>5, <1>6

-----------------------------------------------------------------------------
(* What everybody pays                                                     *)

\* What the books need to know of the messages, the engines and the registry.
MoneyRecords ==
    /\ IsPost(messages)
    /\ \A a \in Address : contract[a].kind = "none" => contract[a].residual = 0
    /\ left \in [Account -> Nat]
    /\ \A a \in DOMAIN monocle_meta : monocle_meta[a].stake_required \in Nat

StakesOf(u) == SumFunctionOnSet(StakeOf, CreatedBy(u))

OwnBook(u) == Held[u] + TransfersIn(messages, u) + left[u] + StakesOf(u) = Wealth

CommonBook ==
    SumFunction(Held) + balance + SumFunction(Residuals) + AllIn(messages)
        = Wealth * Cardinality(Account)

Books == MoneyRecords /\ (\A u \in Creator : OwnBook(u)) /\ CommonBook

\* There are finitely many accounts and addresses to sum over.
LEMMA FiniteSets ==
    /\ IsFiniteSet(Account) /\ IsFiniteSet(Address)
    /\ Cardinality(Account) \in Nat
<1>1. IsFiniteSet(Account)
  BY FactoryAssumption, FS_AddElement DEF Account
<1>2. IsFiniteSet(Address)
  <2>1. IsFiniteSet(1..(MaxMonocles + 1))
    BY FactoryAssumption, FS_Interval
  <2>2. Address \subseteq 1..(MaxMonocles + 1)
    BY FactoryAssumption DEF Address, REPUTATION_SALT, MONOCLE_SALT_OFFSET
  <2> QED
    BY <2>1, <2>2, FS_Subset
<1> QED
  BY <1>1, <1>2, FS_CardinalityType

\* The books are those the run checks.
LEMMA BooksShow == Books => CreatorPaysExactly
<1> SUFFICES ASSUME Books PROVE CreatorPaysExactly
  OBVIOUS
<1>1. InFlight(BagToSet(messages)) = AllIn(messages)
  <2>1. DOMAIN messages \cap DOMAIN messages = DOMAIN messages
    OBVIOUS
  <2> QED
    BY <2>1 DEF InFlight, AllIn, Carried, BagToSet
<1>2. \A u : InFlight(TransfersTo(u)) = TransfersIn(messages, u)
  <2>1. \A u : /\ DOMAIN messages \cap OfTransfers(u, DOMAIN messages) = OfTransfers(u, DOMAIN messages)
               /\ TransfersTo(u) = OfTransfers(u, DOMAIN messages)
    BY DEF OfTransfers, TransfersTo, BagToSet
  <2> QED
    BY <2>1 DEF InFlight, TransfersIn, Carried
<1> QED
  BY <1>1, <1>2 DEF Books, OwnBook, CommonBook, StakesOf, CreatorPaysExactly

\* Everything in the books is a number.
LEMMA BookNumbers ==
    ASSUME FactoryInductive, MoneyRecords
    PROVE  /\ Held \in [Account -> Nat] /\ SumFunction(Held) \in Nat
           /\ Residuals \in [Address -> Nat] /\ SumFunction(Residuals) \in Nat
           /\ AllIn(messages) \in Nat /\ \A u : TransfersIn(messages, u) \in Nat
           /\ \A u \in Creator : StakesOf(u) \in Nat
           /\ \A u \in Account : left[u] \in Nat
           /\ balance \in Nat
<1>1. Held \in [Account -> Nat]
  <2>1. \A u \in Account : wallet[u] \in Nat /\ Sent(u) \in Nat
    BY DEF FactoryInductive, TypeOK, Sent, ClientType
  <2> QED
    BY <2>1 DEF Held
<1>2. Residuals \in [Address -> Nat]
  BY DEF FactoryInductive, TypeOK, Residuals
<1>3. SumFunction(Held) \in Nat /\ SumFunction(Residuals) \in Nat
  BY <1>1, <1>2, FiniteSets, FunctionSumNat
<1>4. AllIn(messages) \in Nat /\ \A u : TransfersIn(messages, u) \in Nat
  BY CarriedIsNat DEF MoneyRecords, IsPost, AllIn, TransfersIn
<1>5. ASSUME NEW u \in Creator PROVE StakesOf(u) \in Nat
  <2>1. IsFiniteSet(CreatedBy(u))
    BY FiniteSets, FS_Subset DEF CreatedBy, FactoryInductive, TypeOK
  <2>2. \A a \in CreatedBy(u) : StakeOf[a] \in Nat
    BY DEF CreatedBy, StakeOf, MoneyRecords
  <2> QED
    BY <2>1, <2>2, SumNat DEF StakesOf
<1> QED
  BY <1>1, <1>2, <1>3, <1>4, <1>5 DEF MoneyRecords, FactoryInductive, TypeOK

\* What one account holds changes what all hold by as much.
LEMMA HeldMoves ==
    ASSUME FactoryInductive, FactoryInductive', MoneyRecords, NEW x \in Account,
           \A v \in Account \ {x} : Held'[v] = Held[v]
    PROVE  SumFunction(Held') = SumFunction(Held) + (Held'[x] - Held[x])
<1>1. Held \in [Account -> Int]
  BY BookNumbers
<1>2. Held' \in [Account -> Int]
  <2>1. \A u \in Account : wallet'[u] \in Nat /\ Sent(u)' \in Nat
    BY DEF FactoryInductive, TypeOK, Sent, ClientType
  <2> QED
    BY <2>1 DEF Held
<1> HIDE DEF Held
<1> QED
  BY <1>1, <1>2, FiniteSets, FunctionSumChangeAt

\* And what one engine has for the factory.
LEMMA ResidualsMove ==
    ASSUME FactoryInductive, FactoryInductive', MoneyRecords, NEW x \in Address,
           \A a \in Address \ {x} : contract'[a].residual = contract[a].residual
    PROVE  SumFunction(Residuals') =
               SumFunction(Residuals) + (contract'[x].residual - contract[x].residual)
<1>1. Residuals \in [Address -> Int] /\ Residuals' \in [Address -> Int]
  BY DEF Residuals, FactoryInductive, TypeOK
<1>2. \A a \in Address : /\ Residuals[a] = contract[a].residual
                         /\ Residuals'[a] = contract'[a].residual
  BY DEF Residuals
<1> HIDE DEF Residuals
<1> QED
  BY <1>1, <1>2, FiniteSets, FunctionSumChangeAt

\* What the engines of a creator cost depends on the registry alone.
LEMMA StakesStay ==
    ASSUME UNCHANGED monocle_meta
    PROVE  \A u : StakesOf(u)' = StakesOf(u)
BY DEF StakesOf, StakeOf, CreatedBy

\* A step that moves no money keeps the books.
LEMMA BooksKept ==
    ASSUME FactoryInductive, Books, UNCHANGED <<contract, left, messages, monocle_meta, balance>>,
           \A v \in Account : Held'[v] = Held[v]
    PROVE  Books'
<1>1. MoneyRecords'
  BY DEF Books, MoneyRecords
<1>2. Held' = Held
  BY DEF Held
<1>3. Residuals' = Residuals
  BY DEF Residuals
<1>4. \A u \in Creator : OwnBook(u)'
  <2>1. SUFFICES ASSUME NEW u \in Creator PROVE OwnBook(u)'
    OBVIOUS
  <2>2. OwnBook(u) /\ StakesOf(u)' = StakesOf(u)
    BY StakesStay DEF Books
  <2> QED
    BY <1>2, <2>2 DEF OwnBook
<1>5. CommonBook'
  BY <1>2, <1>3 DEF Books, CommonBook
<1> QED
  BY <1>1, <1>4, <1>5 DEF Books

\* Whatever a call does but to create moves money only between the wallet of its
\* caller and the transaction it has sent.
LEMMA CallHolds ==
    ASSUME FactoryInductive, NEW u \in Creator, Create(u), ~Execute(u)
    PROVE  /\ \A v \in Account : Held'[v] = Held[v]
           /\ UNCHANGED <<contract, left, messages, monocle_meta, balance>>
<1> DEFINE c == client[u]
           d == client'[u]
           Holds == /\ \A v \in Account : Held'[v] = Held[v]
                    /\ UNCHANGED <<contract, left, messages, monocle_meta, balance>>
<1>1. /\ client \in [Creator -> ClientType] /\ wallet \in [Account -> Nat]
      /\ u \in Account /\ c.value \in Nat /\ wallet[u] \in Nat
  BY OwnerIsAccount DEF FactoryInductive, TypeOK, ClientType
<1>2. \A e : SetClient(u, e) => d = e
  BY <1>1 DEF SetClient
<1>7. \A v \in Creator \ {u} : client'[v] = client[v]
  <2>1. \E e : SetClient(u, e)
    BY DEF Create, ReadStake, ReadCount, SendCreate, Revert, Fail, GiveBack, Resolve
  <2> QED
    BY <1>1, <2>1 DEF SetClient
<1>3. ASSUME \A v \in Account \ {u} : wallet'[v] = wallet[v],
             wallet'[u] + Sent(u)' = wallet[u] + Sent(u)
      PROVE  \A v \in Account : Held'[v] = Held[v]
  <2>1. ASSUME NEW v \in Account \ {u} PROVE Sent(v)' = Sent(v) /\ wallet'[v] = wallet[v]
    BY <1>3, <1>7 DEF Sent
  <2>2. ASSUME NEW v \in Account PROVE wallet'[v] + Sent(v)' = wallet[v] + Sent(v)
    BY <1>3, <2>1
  <2> QED
    BY <2>2 DEF Held
<1>4. ASSUME ReadStake(u) \/ ReadCount(u) \/ Resolve(u) PROVE Holds
  <2>1. UNCHANGED factoryVars /\ \E e : SetClient(u, e)
    BY <1>4 DEF ReadStake, ReadCount, Resolve
  <2>2. c.step # "sent" /\ d.step # "sent"
    <3>1. CASE ReadStake(u)
      <4>1. PICK value : SetClient(u, [c EXCEPT !.step = "priced", !.value = value])
        BY <3>1 DEF ReadStake
      <4>2. c.step = "idle" /\ d.step = "priced"
        BY <1>1, <1>2, <3>1, <4>1 DEF ReadStake, ClientType
      <4> QED
        BY <4>2
    <3>2. CASE ReadCount(u)
      <4>1. c.step = "priced" /\ d.step = "counted"
        BY <1>1, <1>2, <3>2 DEF ReadCount, ClientType
      <4> QED
        BY <4>1
    <3>3. CASE Resolve(u)
      <4>1. c.step = "waiting" /\ d.step \in {"failed", "missing", "done"}
        BY <1>2, <3>3 DEF Resolve, Idle
      <4> QED
        BY <4>1
    <3> QED
      BY <1>4, <3>1, <3>2, <3>3
  <2>3. Sent(u) = 0 /\ Sent(u)' = 0
    BY <2>2 DEF Sent
  <2> QED
    BY <1>1, <1>2, <1>3, <2>1, <2>3 DEF factoryVars, contractVars
<1>5. CASE SendCreate(u)
  <2>1. /\ wallet' = [wallet EXCEPT ![u] = wallet[u] - c.value] /\ c.step = "counted"
        /\ UNCHANGED <<contractVars, contract, left, messages>>
        /\ \E request \in Request : SetClient(u, [c EXCEPT !.step = "sent", !.request = request])
    BY <1>5 DEF SendCreate
  <2>2. d.step = "sent" /\ d.value = c.value
    BY <1>1, <1>2, <2>1 DEF ClientType
  <2>3. Sent(u) = 0 /\ Sent(u)' = c.value
    BY <2>1, <2>2 DEF Sent
  <2>4. wallet'[u] = wallet[u] - c.value /\ \A v \in Account \ {u} : wallet'[v] = wallet[v]
    BY <1>1, <2>1
  <2> HIDE DEF c, d
  <2>5. wallet'[u] + Sent(u)' = wallet[u] + Sent(u)
    BY <1>1, <2>3, <2>4
  <2> QED
    BY <1>2, <1>3, <2>1, <2>4, <2>5 DEF contractVars
<1>6. ASSUME Revert(u) \/ Fail(u) PROVE Holds
  <2>1. PICK s, r : GiveBack(u, s, r)
    BY <1>6 DEF Revert, Fail
  <2>2. /\ wallet' = [wallet EXCEPT ![u] = wallet[u] + c.value] /\ c.step = "sent"
        /\ UNCHANGED <<contractVars, contract, left, messages>>
    BY <2>1 DEF GiveBack
  <2>3. d.step = "waiting"
    BY <1>2, <2>1 DEF GiveBack, Idle
  <2>4. Sent(u) = c.value /\ Sent(u)' = 0
    BY <2>2, <2>3 DEF Sent
  <2>5. wallet'[u] = wallet[u] + c.value /\ \A v \in Account \ {u} : wallet'[v] = wallet[v]
    BY <1>1, <2>2
  <2> HIDE DEF c, d
  <2>6. wallet'[u] + Sent(u)' = wallet[u] + Sent(u)
    BY <1>1, <2>4, <2>5
  <2> QED
    BY <1>3, <2>2, <2>3, <2>5, <2>6 DEF contractVars
<1> QED
  BY <1>4, <1>5, <1>6 DEF Create

\* Two messages sent at once are sent one after the other.
LEMMA SendBoth ==
    ASSUME NEW b, IsMail(b), NEW k, NEW t, k # t, NEW d, d = b (+) SetToBag({k, t})
    PROVE  \E e : Sends(b, k, e) /\ Sends(e, t, d)
<1> DEFINE e == b (+) SetToBag({k})
           f == e (+) SetToBag({t})
<1>1. /\ e = [m \in DOMAIN b \cup {k} |->
                  (IF m \in DOMAIN b THEN b[m] ELSE 0) + (IF m \in {k} THEN 1 ELSE 0)]
      /\ f = [m \in DOMAIN e \cup {t} |->
                  (IF m \in DOMAIN e THEN e[m] ELSE 0) + (IF m \in {t} THEN 1 ELSE 0)]
      /\ d = [m \in DOMAIN b \cup {k, t} |->
                  (IF m \in DOMAIN b THEN b[m] ELSE 0) + (IF m \in {k, t} THEN 1 ELSE 0)]
  BY DEF (+), SetToBag
<1> HIDE DEF e, f
<1>2. \A m \in DOMAIN b : b[m] \in Nat
  BY DEF IsMail
<1>3. ASSUME NEW m \in DOMAIN b \cup {k, t} PROVE f[m] = d[m]
  <2>1. CASE m = t
    BY <1>1, <1>2, <2>1
  <2>2. CASE m # t
    BY <1>1, <1>2, <2>2
  <2> QED
    BY <2>1, <2>2
<1>4. f = d
  BY <1>1, <1>3
<1> QED
  BY <1>4 DEF Sends, e, f

\* A creation that is executed: the stake becomes a fee, the rest goes back.
LEMMA CreationBooks ==
    ASSUME FactoryInductive, FactoryInductive', Books, NEW u \in Creator, Execute(u)
    PROVE  Books'
<1> DEFINE paid == client[u].value
           excess == paid - creation_stake
           deploy == Deploy("monocle", Salt(Len1), u, client[u].request)
           transfer == Transfer(u, excess)
           a == Salt(Len1)
<1>1. /\ paid \in Nat /\ creation_stake \in Nat /\ paid >= creation_stake /\ excess \in Nat
      /\ u \in Account /\ client \in [Creator -> ClientType] /\ client[u].step = "sent"
  <2>1. /\ paid \in Nat /\ creation_stake \in Nat /\ u \in Account
        /\ client \in [Creator -> ClientType]
    BY StakesAreNat, OwnerIsAccount DEF FactoryInductive, TypeOK, ClientType
  <2>2. paid >= creation_stake /\ client[u].step = "sent"
    BY DEF Execute, CreateMonocle, Creatable
  <2> QED
    BY <2>1, <2>2
<1>2. /\ messages' = Send({deploy} \cup (IF excess > 0 THEN {transfer} ELSE {}))
      /\ balance' = balance + paid - (IF excess > 0 THEN excess ELSE 0)
      /\ UNCHANGED <<contract, left, wallet>>
  BY DEF Execute, CreateMonocle, Len1
<1>3. /\ deploy.value = 0 /\ deploy.type = "deploy"
      /\ transfer.value = excess /\ transfer.type = "transfer" /\ transfer.to = u
  BY DEF Deploy, Transfer
<1>4. balance \in Nat
  BY DEF FactoryInductive, TypeOK
<1>5. balance' = balance + creation_stake
  <2>1. (IF excess > 0 THEN excess ELSE 0) = excess
    BY <1>1
  <2>2. balance' = balance + paid - excess
    BY <1>2, <2>1
  <2> QED
    BY <1>1, <1>4, <2>2
<1>6. IsPost(messages)
  BY DEF Books, MoneyRecords
<1> HIDE DEF deploy, transfer
<1>7. /\ IsPost(messages') /\ AllIn(messages') = AllIn(messages) + excess
      /\ \A v \in Creator :
             TransfersIn(messages', v) = TransfersIn(messages, v) + (IF v = u THEN excess ELSE 0)
  <2>1. AllIn(messages) \in Nat /\ \A v : TransfersIn(messages, v) \in Nat
    BY BookNumbers DEF Books
  <2>2. ASSUME NEW e, Sends(messages, deploy, e)
        PROVE  /\ IsPost(e) /\ AllIn(e) = AllIn(messages)
               /\ \A v : TransfersIn(e, v) = TransfersIn(messages, v)
    <3>1. /\ IsPost(e) /\ AllIn(e) = AllIn(messages) + deploy.value
          /\ \A v : TransfersIn(e, v) = TransfersIn(messages, v)
                 + (IF deploy.type = "transfer" /\ deploy.to = v THEN deploy.value ELSE 0)
      BY <1>3, <1>6, <2>2, SendPost
    <3> QED
      BY <1>3, <2>1, <3>1
  <2>3. CASE excess = 0
    <3>1. messages' = messages (+) SetToBag({deploy})
      BY <1>2, <2>3 DEF Send
    <3>2. Sends(messages, deploy, messages')
      BY <3>1 DEF Sends
    <3> HIDE DEF excess
    <3> QED
      BY <2>1, <2>2, <2>3, <3>2
  <2>4. CASE excess > 0
    <3>1. messages' = messages (+) SetToBag({deploy, transfer})
      <4>1. {deploy} \cup {transfer} = {deploy, transfer}
        OBVIOUS
      <4> QED
        BY <1>2, <2>4, <4>1 DEF Send
    <3>2. PICK e : Sends(messages, deploy, e) /\ Sends(e, transfer, messages')
      <4>1. deploy # transfer /\ IsMail(messages)
        BY <1>3, <1>6 DEF IsPost
      <4> QED
        BY <3>1, <4>1, SendBoth
    <3>3. /\ IsPost(e) /\ AllIn(e) = AllIn(messages)
          /\ \A v : TransfersIn(e, v) = TransfersIn(messages, v)
      BY <2>2, <3>2
    <3>4. /\ IsPost(messages') /\ AllIn(messages') = AllIn(e) + transfer.value
          /\ \A v : TransfersIn(messages', v) = TransfersIn(e, v)
                 + (IF transfer.type = "transfer" /\ transfer.to = v THEN transfer.value ELSE 0)
      BY <1>1, <1>3, <3>2, <3>3, SendPost
    <3> HIDE DEF excess
    <3> QED
      BY <1>3, <3>3, <3>4
  <2> QED
    BY <1>1, <2>3, <2>4
<1>8. /\ a \notin DOMAIN monocle_meta
      /\ DOMAIN monocle_meta' = DOMAIN monocle_meta \cup {a}
      /\ \A b \in DOMAIN monocle_meta : monocle_meta'[b] = monocle_meta[b]
      /\ monocle_meta'[a].stake_required = creation_stake
      /\ CreatedBy(u)' = CreatedBy(u) \cup {a}
      /\ \A v \in Creator \ {u} : CreatedBy(v)' = CreatedBy(v)
  BY CreationRegisters
<1> HIDE DEF a
<1>9. MoneyRecords'
  <2>1. \A b \in DOMAIN monocle_meta' : monocle_meta'[b].stake_required \in Nat
    BY <1>1, <1>8 DEF Books, MoneyRecords
  <2> QED
    BY <1>2, <1>7, <2>1 DEF Books, MoneyRecords
<1>10. /\ \A b \in DOMAIN monocle_meta : StakeOf'[b] = StakeOf[b] /\ StakeOf[b] \in Int
       /\ StakeOf'[a] = creation_stake
  BY <1>8 DEF StakeOf, Books, MoneyRecords
<1>11. ASSUME NEW v \in Creator
       PROVE  /\ IsFiniteSet(CreatedBy(v)) /\ CreatedBy(v) \subseteq DOMAIN monocle_meta
              /\ SumFunctionOnSet(StakeOf', CreatedBy(v)) = StakesOf(v)
  <2>1. CreatedBy(v) \subseteq DOMAIN monocle_meta
    BY DEF CreatedBy
  <2>2. IsFiniteSet(CreatedBy(v))
    BY <2>1, FiniteSets, FS_Subset DEF FactoryInductive, TypeOK
  <2>3. \A b \in CreatedBy(v) : StakeOf[b] \in Int /\ StakeOf'[b] = StakeOf[b]
    BY <1>10, <2>1
  <2> QED
    BY <2>1, <2>2, <2>3, SumEqual DEF StakesOf
<1>12. StakesOf(u)' = creation_stake + StakesOf(u)
  <2>1. a \notin CreatedBy(u) /\ \A b \in CreatedBy(u) \cup {a} : StakeOf'[b] \in Int
    BY <1>1, <1>8, <1>10, <1>11
  <2>2. SumFunctionOnSet(StakeOf', CreatedBy(u) \cup {a})
            = StakeOf'[a] + SumFunctionOnSet(StakeOf', CreatedBy(u))
    BY <1>11, <2>1, SumAdd
  <2> QED
    BY <1>8, <1>10, <1>11, <2>2 DEF StakesOf
<1>13. \A v \in Creator \ {u} : StakesOf(v)' = StakesOf(v)
  BY <1>8, <1>11 DEF StakesOf
<1>14. /\ Held[u] = wallet[u] + paid /\ Held'[u] = wallet[u]
       /\ \A v \in Account \ {u} : Held'[v] = Held[v]
  <2>1. client'[u].step = "waiting" /\ \A v \in Creator \ {u} : client'[v] = client[v]
    BY <1>1 DEF Execute, SetClient, Idle
  <2>2. Sent(u) = paid /\ Sent(u)' = 0 /\ \A v \in Account \ {u} : Sent(v)' = Sent(v)
    BY <1>1, <2>1 DEF Sent
  <2>3. wallet[u] \in Nat
    BY <1>1 DEF FactoryInductive, TypeOK
  <2> QED
    BY <1>1, <1>2, <2>2, <2>3 DEF Held
<1>15. SumFunction(Held') = SumFunction(Held) + (Held'[u] - Held[u])
  BY <1>1, <1>14, HeldMoves DEF Books
<1>16. Residuals' = Residuals
  BY <1>2 DEF Residuals
<1>17. /\ Held \in [Account -> Nat] /\ SumFunction(Held) \in Nat /\ SumFunction(Residuals) \in Nat
       /\ AllIn(messages) \in Nat /\ TransfersIn(messages, u) \in Nat
       /\ StakesOf(u) \in Nat /\ left[u] \in Nat
       /\ \A v \in Creator : TransfersIn(messages, v) \in Nat
  BY <1>1, BookNumbers DEF Books
<1>18. excess = paid - creation_stake /\ wallet[u] \in Nat
  BY <1>1 DEF FactoryInductive, TypeOK
<1> HIDE DEF paid, excess
<1>19. OwnBook(u)'
  <2>1. Held[u] + TransfersIn(messages, u) + left[u] + StakesOf(u) = Wealth
    BY DEF Books, OwnBook
  <2>2. TransfersIn(messages', u) = TransfersIn(messages, u) + excess
    BY <1>7
  <2>3. left'[u] = left[u]
    BY <1>2
  <2>4. Held'[u] + TransfersIn(messages', u) + left'[u] + StakesOf(u)' = Wealth
    BY <1>1, <1>12, <1>14, <1>17, <1>18, <2>1, <2>2, <2>3
  <2> QED
    BY <2>4 DEF OwnBook
<1>20. \A v \in Creator \ {u} : OwnBook(v)'
  <2>1. SUFFICES ASSUME NEW v \in Creator \ {u} PROVE OwnBook(v)'
    OBVIOUS
  <2>2. OwnBook(v) /\ v \in Account
    BY OwnerIsAccount DEF Books
  <2>3. TransfersIn(messages', v) = TransfersIn(messages, v)
    BY <1>7, <1>17
  <2> QED
    BY <1>2, <1>13, <1>14, <2>2, <2>3 DEF OwnBook
<1>21. CommonBook'
  <2>1. SumFunction(Held) + balance + SumFunction(Residuals) + AllIn(messages)
            = Wealth * Cardinality(Account)
    BY DEF Books, CommonBook
  <2> DEFINE total == Wealth * Cardinality(Account)
  <2>2. Wealth * Cardinality(Account) = total
    OBVIOUS
  <2> HIDE DEF total
  <2>3. SumFunction(Held') + balance' + SumFunction(Residuals') + AllIn(messages') = total
    BY <1>1, <1>4, <1>5, <1>7, <1>14, <1>15, <1>16, <1>17, <1>18, <2>1, <2>2
  <2> QED
    BY <2>2, <2>3 DEF CommonBook
<1> QED
  BY <1>9, <1>19, <1>20, <1>21 DEF Books

\* A step of the rest of the system moves money between one account, one engine,
\* the factory and the messages, and makes or loses none.
LEMMA MoneyMoves ==
    ASSUME FactoryInductive, FactoryInductive', Books, MoneyRecords',
           UNCHANGED <<client, monocle_meta>>,
           NEW x \in Account, NEW a \in Address,
           \A v \in Account \ {x} :
               /\ wallet'[v] = wallet[v] /\ left'[v] = left[v]
               /\ v \in Creator => TransfersIn(messages', v) = TransfersIn(messages, v),
           \A b \in Address \ {a} : contract'[b].residual = contract[b].residual,
           x \in Creator => wallet'[x] + left'[x] + TransfersIn(messages', x)
                                = wallet[x] + left[x] + TransfersIn(messages, x),
           wallet'[x] + balance' + contract'[a].residual + AllIn(messages')
               = wallet[x] + balance + contract[a].residual + AllIn(messages)
    PROVE  Books'
<1>1. \A v : Sent(v)' = Sent(v)
  BY DEF Sent
<1>2. /\ Held[x] = wallet[x] + Sent(x) /\ Held'[x] = wallet'[x] + Sent(x)
      /\ \A v \in Account \ {x} : Held'[v] = Held[v]
  BY <1>1 DEF Held
<1>3. /\ SumFunction(Held') = SumFunction(Held) + (Held'[x] - Held[x])
      /\ SumFunction(Residuals') =
             SumFunction(Residuals) + (contract'[a].residual - contract[a].residual)
  BY <1>2, HeldMoves, ResidualsMove DEF Books
<1>4. /\ SumFunction(Held) \in Nat /\ SumFunction(Residuals) \in Nat
      /\ AllIn(messages) \in Nat /\ AllIn(messages') \in Nat
      /\ \A v : TransfersIn(messages, v) \in Nat /\ TransfersIn(messages', v) \in Nat
      /\ \A v \in Creator : StakesOf(v) \in Nat
      /\ left[x] \in Nat /\ left'[x] \in Nat /\ balance \in Nat /\ balance' \in Nat
  <2>1. IsMail(messages')
    BY DEF MoneyRecords, IsPost
  <2>2. AllIn(messages') \in Nat /\ \A v : TransfersIn(messages', v) \in Nat
    BY <2>1, CarriedIsNat DEF AllIn, TransfersIn
  <2> QED
    BY <2>2, BookNumbers DEF Books, MoneyRecords, FactoryInductive, TypeOK
<1>5. /\ wallet[x] \in Nat /\ wallet'[x] \in Nat /\ Sent(x) \in Nat
      /\ contract[a].residual \in Nat /\ contract'[a].residual \in Nat
  BY DEF FactoryInductive, TypeOK, Sent, ClientType
<1>6. ASSUME NEW v \in Creator PROVE OwnBook(v)'
  <2>1. /\ Held[v] + TransfersIn(messages, v) + left[v] + StakesOf(v) = Wealth
        /\ StakesOf(v)' = StakesOf(v) /\ v \in Account
    BY StakesStay, OwnerIsAccount DEF Books, OwnBook
  <2>2. CASE v # x
    <3>1. /\ Held'[v] = Held[v] /\ left'[v] = left[v]
          /\ TransfersIn(messages', v) = TransfersIn(messages, v)
      BY <1>2, <2>1, <2>2
    <3> QED
      BY <2>1, <3>1 DEF OwnBook
  <2>3. CASE v = x
    <3>1. Held'[x] + TransfersIn(messages', x) + left'[x] + StakesOf(x) = Wealth
      <4>1. /\ Held[x] + TransfersIn(messages, x) + left[x] + StakesOf(x) = Wealth
            /\ StakesOf(x) \in Nat
        BY <1>4, <2>1, <2>3
      <4>2. wallet'[x] + left'[x] + TransfersIn(messages', x)
                = wallet[x] + left[x] + TransfersIn(messages, x)
        BY <2>3
      <4>3. TransfersIn(messages, x) \in Nat /\ TransfersIn(messages', x) \in Nat
        BY <1>4
      <4>4. (wallet[x] + Sent(x)) + TransfersIn(messages, x) + left[x] + StakesOf(x) = Wealth
        BY <1>2, <4>1
      <4>5. (wallet'[x] + Sent(x)) + TransfersIn(messages', x) + left'[x] + StakesOf(x) = Wealth
        <5>1. left[x] \in Nat /\ left'[x] \in Nat
          BY <1>4
        <5> QED
          BY <1>5, <4>1, <4>2, <4>3, <4>4, <5>1
      <4> QED
        BY <1>2, <4>5
    <3> QED
      BY <2>1, <2>3, <3>1 DEF OwnBook
  <2> QED
    BY <2>2, <2>3
<1>7. CommonBook'
  <2> DEFINE total == Wealth * Cardinality(Account)
  <2>1. SumFunction(Held) + balance + SumFunction(Residuals) + AllIn(messages) = total
    BY DEF Books, CommonBook
  <2>2. Wealth * Cardinality(Account) = total
    OBVIOUS
  <2> HIDE DEF total
  <2>3. SumFunction(Held') + balance' + SumFunction(Residuals') + AllIn(messages') = total
    BY <1>2, <1>3, <1>4, <1>5, <2>1
  <2> QED
    BY <2>2, <2>3 DEF CommonBook
<1> QED
  BY <1>6, <1>7 DEF Books

\* The steps of everything but the calls.
LEMMA OtherBooks ==
    ASSUME FactoryInductive, FactoryInductive', Books, FactoryNext, UNCHANGED client
    PROVE  Books'
<1>1. /\ Owner \in Account /\ REPUTATION_SALT \in Address /\ Owner \notin Creator
      /\ creation_stake \in Nat
      /\ IsPost(messages) /\ left \in [Account -> Nat]
      /\ AllIn(messages) \in Nat /\ \A v : TransfersIn(messages, v) \in Nat
      /\ collected_fees \in Nat /\ residual_fees \in Nat /\ balance \in Nat
      /\ balance = collected_fees + residual_fees
  BY FactoryAssumption, OwnerIsAccount, StakesAreNat, BookNumbers
  DEF Address, Books, MoneyRecords, FactoryInductive, TypeOK, FeesBacked
<1>2. /\ wallet \in [Account -> Nat]
      /\ contract \in [Address ->
             [kind : {"none", "reputation", "monocle"}, creator : Account, residual : Nat]]
  BY DEF FactoryInductive, TypeOK
<1>3. CASE WithdrawFees
  <2> DEFINE amount == collected_fees + residual_fees
             k == Transfer(Owner, amount)
  <2>1. /\ Sends(messages, k, messages') /\ balance' = balance - amount
        /\ UNCHANGED <<monocle_meta, contract, wallet, left>>
    BY <1>3 DEF WithdrawFees, Send, Sends
  <2>2. amount \in Nat /\ k.type = "transfer" /\ k.to = Owner /\ k.value = amount
    BY <1>1 DEF Transfer
  <2> HIDE DEF k, amount
  <2>3. /\ IsPost(messages') /\ AllIn(messages') = AllIn(messages) + amount
        /\ \A v \in Creator : TransfersIn(messages', v) = TransfersIn(messages, v)
    <3>1. /\ IsPost(messages') /\ AllIn(messages') = AllIn(messages) + k.value
          /\ \A v : TransfersIn(messages', v) = TransfersIn(messages, v)
                 + (IF k.type = "transfer" /\ k.to = v THEN k.value ELSE 0)
      BY <1>1, <2>1, <2>2, SendPost
    <3> QED
      BY <1>1, <2>2, <3>1
  <2>4. MoneyRecords'
    BY <2>1, <2>3 DEF Books, MoneyRecords
  <2>5. wallet'[Owner] + balance' + contract'[REPUTATION_SALT].residual + AllIn(messages')
            = wallet[Owner] + balance + contract[REPUTATION_SALT].residual + AllIn(messages)
    <3>1. wallet[Owner] \in Nat /\ contract[REPUTATION_SALT].residual \in Nat
      BY <1>1, <1>2
    <3> QED
      BY <1>1, <2>1, <2>2, <2>3, <3>1
  <2> QED
    BY <1>1, <2>1, <2>3, <2>4, <2>5, MoneyMoves
<1>4. CASE SetCreationStake
  <2>1. UNCHANGED <<contract, left, messages, monocle_meta, balance, wallet>>
    BY <1>4 DEF SetCreationStake
  <2>2. \A v \in Account : Held'[v] = Held[v]
    BY <2>1 DEF Held, Sent
  <2> QED
    BY <2>1, <2>2, BooksKept
<1>5. ASSUME NEW u \in Account, Donate(u) PROVE Books'
  <2>1. PICK value \in 1..wallet[u] :
            /\ Received(value)
            /\ wallet' = [wallet EXCEPT ![u] = wallet[u] - value]
            /\ left' = [left EXCEPT ![u] = left[u] + value]
            /\ UNCHANGED <<contract, messages>>
    BY <1>5 DEF Donate
  <2>2. wallet[u] \in Nat /\ value \in Nat /\ left[u] \in Nat
    BY <1>1, <1>2
  <2>3. balance' = balance + value /\ UNCHANGED monocle_meta
    BY <2>1 DEF Received
  <2>4. /\ wallet'[u] = wallet[u] - value /\ left'[u] = left[u] + value
        /\ \A v \in Account \ {u} : wallet'[v] = wallet[v] /\ left'[v] = left[v]
        /\ left' \in [Account -> Nat]
    BY <1>1, <1>2, <2>1, <2>2
  <2>5. MoneyRecords'
    BY <2>1, <2>3, <2>4 DEF Books, MoneyRecords
  <2>6. wallet'[u] + balance' + contract'[REPUTATION_SALT].residual + AllIn(messages')
            = wallet[u] + balance + contract[REPUTATION_SALT].residual + AllIn(messages)
    <3>1. contract[REPUTATION_SALT].residual \in Nat
      BY <1>1, <1>2
    <3> QED
      BY <1>1, <2>1, <2>2, <2>3, <2>4, <3>1
  <2>7. wallet'[u] + left'[u] + TransfersIn(messages', u)
            = wallet[u] + left[u] + TransfersIn(messages, u)
    <3>1. TransfersIn(messages, u) \in Nat
      BY <1>1
    <3> QED
      BY <2>1, <2>2, <2>4, <3>1
  <2> QED
    BY <1>1, <2>1, <2>3, <2>4, <2>5, <2>6, <2>7, MoneyMoves
<1>6. CASE Deliver
  <2>1. PICK m \in BagToSet(messages) : DeliverDeploy(m) \/ DeliverTransfer(m) \/ DeliverResidual(m)
    BY <1>6 DEF Deliver
  <2>2. Consumes(messages, m, messages') /\ m \in DOMAIN messages
    BY <2>1 DEF DeliverDeploy, DeliverTransfer, DeliverResidual, Consume, Consumes, BagToSet
  <2>3. m.value \in Nat
    BY <1>1, <2>2 DEF IsPost, IsMail
  <2>4. /\ IsPost(messages') /\ AllIn(messages') = AllIn(messages) - m.value
        /\ \A v : TransfersIn(messages', v) = TransfersIn(messages, v)
               - (IF m.type = "transfer" /\ m.to = v THEN m.value ELSE 0)
    BY <1>1, <2>2, ConsumePost
  <2>5. CASE DeliverDeploy(m)
    <3>1. /\ m.type = "deploy" /\ m.value = 0
          /\ UNCHANGED <<monocle_meta, balance, wallet, left>>
          /\ \/ contract' = contract
             \/ /\ contract[m.to].kind = "none"
                /\ contract' = [contract EXCEPT ![m.to] =
                       [kind |-> m.kind, creator |-> m.creator, residual |-> 0]]
      BY <1>1, <2>2, <2>5 DEF DeliverDeploy, contractVars, IsPost
    <3>2. m.to \in Address /\ Belongs(m.kind, m.to, m.creator)
      BY <2>2, <3>1 DEF FactoryInductive, DeploysBelong, BagToSet
    <3>3. /\ \A b \in Address : contract'[b].residual = contract[b].residual
          /\ \A b \in Address : contract'[b].kind = "none" => contract'[b].residual = 0
      BY <1>2, <3>1, <3>2 DEF Books, MoneyRecords, Belongs
    <3>4. MoneyRecords'
      BY <2>4, <3>1, <3>3 DEF Books, MoneyRecords
    <3>5. AllIn(messages') = AllIn(messages)
          /\ \A v : TransfersIn(messages', v) = TransfersIn(messages, v)
      BY <1>1, <2>4, <3>1
    <3> QED
      BY <1>1, <3>1, <3>3, <3>4, <3>5, MoneyMoves
  <2>6. CASE DeliverTransfer(m)
    <3>1. /\ m.type = "transfer" /\ m.to \in Account
          /\ UNCHANGED <<monocle_meta, balance, contract, left>>
          /\ wallet' = [wallet EXCEPT ![m.to] = wallet[m.to] + m.value]
      BY <1>1, <2>2, <2>6 DEF DeliverTransfer, contractVars, IsPost
    <3>2. MoneyRecords'
      BY <2>4, <3>1 DEF Books, MoneyRecords
    <3>3. /\ wallet[m.to] \in Nat /\ wallet'[m.to] = wallet[m.to] + m.value
          /\ \A v \in Account \ {m.to} : wallet'[v] = wallet[v]
          /\ left[m.to] \in Nat /\ TransfersIn(messages, m.to) \in Nat
      BY <1>1, <1>2, <3>1
    <3>4. /\ TransfersIn(messages', m.to) = TransfersIn(messages, m.to) - m.value
          /\ \A v \in Account \ {m.to} : TransfersIn(messages', v) = TransfersIn(messages, v)
      BY <1>1, <2>4, <3>1
    <3>5. wallet'[m.to] + left'[m.to] + TransfersIn(messages', m.to)
              = wallet[m.to] + left[m.to] + TransfersIn(messages, m.to)
      BY <2>3, <3>1, <3>3, <3>4
    <3>6. wallet'[m.to] + balance' + contract'[REPUTATION_SALT].residual + AllIn(messages')
              = wallet[m.to] + balance + contract[REPUTATION_SALT].residual + AllIn(messages)
      <4>1. contract[REPUTATION_SALT].residual \in Nat
        BY <1>1, <1>2
      <4> QED
        BY <1>1, <2>3, <2>4, <3>1, <3>3, <4>1
    <3> QED
      BY <1>1, <3>1, <3>2, <3>3, <3>4, <3>5, <3>6, MoneyMoves
  <2>7. CASE DeliverResidual(m)
    <3>1. /\ m.type = "residual" /\ balance' = balance + m.value
          /\ UNCHANGED <<monocle_meta, contract, wallet, left>>
      BY <2>7 DEF DeliverResidual, Received
    <3>2. MoneyRecords'
      BY <2>4, <3>1 DEF Books, MoneyRecords
    <3>3. \A v : TransfersIn(messages', v) = TransfersIn(messages, v)
      BY <1>1, <2>4, <3>1
    <3>4. wallet'[Owner] + balance' + contract'[REPUTATION_SALT].residual + AllIn(messages')
              = wallet[Owner] + balance + contract[REPUTATION_SALT].residual + AllIn(messages)
      <4>1. wallet[Owner] \in Nat /\ contract[REPUTATION_SALT].residual \in Nat
        BY <1>1, <1>2
      <4> QED
        BY <1>1, <2>3, <2>4, <3>1, <4>1
    <3> QED
      BY <1>1, <3>1, <3>2, <3>3, <3>4, MoneyMoves
  <2> QED
    BY <2>1, <2>5, <2>6, <2>7
<1>7. ASSUME NEW u \in Creator, NEW a \in Address, Leave(u, a) PROVE Books'
  <2>1. PICK value \in 1..wallet[u] :
            /\ contract[a].kind = "monocle"
            /\ wallet' = [wallet EXCEPT ![u] = wallet[u] - value]
            /\ left' = [left EXCEPT ![u] = left[u] + value]
            /\ contract' = [contract EXCEPT ![a].residual = contract[a].residual + value]
            /\ UNCHANGED <<contractVars, messages>>
    BY <1>7 DEF Leave
  <2>2. u \in Account /\ wallet[u] \in Nat /\ value \in Nat /\ left[u] \in Nat
        /\ contract[a].residual \in Nat
    BY <1>1, <1>2, OwnerIsAccount
  <2>3. UNCHANGED <<balance, monocle_meta>>
    BY <2>1 DEF contractVars
  <2>4. /\ wallet'[u] = wallet[u] - value /\ left'[u] = left[u] + value
        /\ \A v \in Account \ {u} : wallet'[v] = wallet[v] /\ left'[v] = left[v]
        /\ left' \in [Account -> Nat]
    BY <1>1, <1>2, <2>1, <2>2
  <2>5. /\ contract'[a].residual = contract[a].residual + value
        /\ \A b \in Address \ {a} : contract'[b] = contract[b]
        /\ contract'[a].kind = "monocle"
    BY <1>2, <2>1
  <2>6. MoneyRecords'
    BY <2>1, <2>3, <2>4, <2>5 DEF Books, MoneyRecords
  <2>7. wallet'[u] + balance' + contract'[a].residual + AllIn(messages')
            = wallet[u] + balance + contract[a].residual + AllIn(messages)
    BY <1>1, <2>1, <2>2, <2>3, <2>4, <2>5
  <2>8. wallet'[u] + left'[u] + TransfersIn(messages', u)
            = wallet[u] + left[u] + TransfersIn(messages, u)
    <3>1. TransfersIn(messages, u) \in Nat
      BY <1>1
    <3> QED
      BY <2>1, <2>2, <2>4, <3>1
  <2> QED
    BY <2>1, <2>2, <2>3, <2>4, <2>5, <2>6, <2>7, <2>8, MoneyMoves
<1>8. ASSUME NEW a \in Address, FlushResidual(a) PROVE Books'
  <2> DEFINE k == Residual(contract[a].residual)
  <2>1. /\ Sends(messages, k, messages')
        /\ contract' = [contract EXCEPT ![a].residual = 0]
        /\ UNCHANGED <<contractVars, wallet, left>>
    BY <1>8 DEF FlushResidual, BucketEmptied, Send, Sends
  <2>2. /\ k.type = "residual" /\ k.value = contract[a].residual /\ k.value \in Nat
    BY <1>2 DEF Residual
  <2> HIDE DEF k
  <2>3. /\ IsPost(messages') /\ AllIn(messages') = AllIn(messages) + k.value
        /\ \A v : TransfersIn(messages', v) = TransfersIn(messages, v)
    <3>1. /\ IsPost(messages') /\ AllIn(messages') = AllIn(messages) + k.value
          /\ \A v : TransfersIn(messages', v) = TransfersIn(messages, v)
                 + (IF k.type = "transfer" /\ k.to = v THEN k.value ELSE 0)
      BY <1>1, <2>1, <2>2, SendPost
    <3> QED
      BY <1>1, <2>2, <3>1
  <2>4. /\ contract'[a].residual = 0
        /\ \A b \in Address \ {a} : contract'[b] = contract[b]
        /\ UNCHANGED <<balance, monocle_meta>>
    BY <1>2, <2>1 DEF contractVars
  <2>5. MoneyRecords'
    BY <2>1, <2>3, <2>4 DEF Books, MoneyRecords
  <2>6. wallet'[Owner] + balance' + contract'[a].residual + AllIn(messages')
            = wallet[Owner] + balance + contract[a].residual + AllIn(messages)
    <3>1. wallet[Owner] \in Nat
      BY <1>1, <1>2
    <3> QED
      BY <1>1, <2>1, <2>2, <2>3, <2>4, <3>1
  <2> QED
    BY <1>1, <2>1, <2>3, <2>4, <2>5, <2>6, MoneyMoves
<1> QED
  BY <1>3, <1>4, <1>5, <1>6, <1>7, <1>8 DEF FactoryNext

\* At first everybody has all of it.
LEMMA InitBooks == Init => Books
<1> SUFFICES ASSUME Init PROVE Books
  OBVIOUS
<1> USE DEF Init, FactoryInit
<1>1. IsPost(EmptyBag) /\ AllIn(EmptyBag) = 0 /\ \A u : TransfersIn(EmptyBag, u) = 0
  <2>1. DOMAIN EmptyBag = {}
    BY DEF EmptyBag, SetToBag
  <2>2. \A X : Carried(EmptyBag, X) = 0
    BY <2>1, SumEmpty DEF Carried
  <2> QED
    BY <2>1, <2>2, FS_EmptySet DEF IsPost, IsMail, AllIn, TransfersIn
<1>2. IsPost(messages) /\ AllIn(messages) = 0 /\ \A u : TransfersIn(messages, u) = 0
  <2> DEFINE k == Deploy("reputation", REPUTATION_SALT, Owner, "good")
  <2>1. CASE messages = SetToBag({k})
    <3>1. Sends(EmptyBag, k, messages)
      <4>1. EmptyBag (+) SetToBag({k}) = SetToBag({k})
        BY DEF EmptyBag, SetToBag, (+)
      <4> QED
        BY <2>1, <4>1 DEF Sends
    <3>2. k.type = "deploy" /\ k.value = 0 /\ k.value \in Nat /\ k.type # "transfer"
      BY DEF Deploy
    <3>4. ASSUME NEW b, IsPost(b), NEW d, Sends(b, k, d)
          PROVE  /\ IsPost(d) /\ AllIn(d) = AllIn(b) + k.value
                 /\ \A v : TransfersIn(d, v) = TransfersIn(b, v)
                        + (IF k.type = "transfer" /\ k.to = v THEN k.value ELSE 0)
      BY <3>2, <3>4, SendPost
    <3> HIDE DEF k
    <3>3. /\ IsPost(messages) /\ AllIn(messages) = AllIn(EmptyBag) + k.value
          /\ \A v : TransfersIn(messages, v) = TransfersIn(EmptyBag, v)
                 + (IF k.type = "transfer" /\ k.to = v THEN k.value ELSE 0)
      BY <1>1, <3>1, <3>4
    <3> QED
      BY <1>1, <3>2, <3>3
  <2>2. CASE messages = EmptyBag
    BY <1>1, <2>2
  <2> QED
    BY <2>1, <2>2
<1>3. DOMAIN monocle_meta = {} /\ monocle_meta = [a \in {} |-> Nothing]
  OBVIOUS
<1>4. MoneyRecords
  BY <1>2, <1>3, FactoryAssumption DEF MoneyRecords, Nothing
<1>5. Wealth \in Nat /\ \A u \in Account : Held[u] = Wealth
  BY FactoryAssumption DEF Held, Sent, Idle
<1>6. ASSUME NEW u \in Creator PROVE OwnBook(u)
  <2>1. CreatedBy(u) = {}
    BY <1>3 DEF CreatedBy
  <2>2. StakesOf(u) = 0
    BY <2>1, SumEmpty DEF StakesOf
  <2>3. left[u] = 0 /\ Held[u] = Wealth
    BY <1>5, OwnerIsAccount
  <2> QED
    BY <1>2, <1>5, <2>2, <2>3 DEF OwnBook
<1>7. SumFunction(Held) = Wealth * Cardinality(Account)
  <2>1. DOMAIN Held = Account
    BY DEF Held
  <2> QED
    BY <1>5, <2>1, FiniteSets, SumConstant DEF SumFunction
<1>8. SumFunction(Residuals) = 0
  <2>1. Residuals \in [Address -> Int] /\ \A a \in Address : Residuals[a] = 0
    BY DEF Residuals, Nothing
  <2> QED
    BY <2>1, FiniteSets, FunctionSumZero
<1>9. CommonBook
  <2>1. Wealth * Cardinality(Account) \in Nat
    <3>1. \A x, y \in Nat : x * y \in Nat
      OBVIOUS
    <3> QED
      BY <1>5, <3>1, FiniteSets
  <2> DEFINE total == Wealth * Cardinality(Account)
  <2>2. total \in Nat /\ SumFunction(Held) = total
    BY <1>7, <2>1
  <2>3. Wealth * Cardinality(Account) = total
    OBVIOUS
  <2> HIDE DEF total
  <2>4. SumFunction(Held) + balance + SumFunction(Residuals) + AllIn(messages) = total
    BY <1>2, <1>8, <2>2
  <2> QED
    BY <2>3, <2>4 DEF CommonBook
<1> QED
  BY <1>4, <1>6, <1>9 DEF Books

\* Every step keeps the books.
LEMMA StepBooks == FactoryInductive /\ FactoryInductive' /\ Books /\ [Next]_vars => Books'
<1> SUFFICES ASSUME FactoryInductive, FactoryInductive', Books, [Next]_vars PROVE Books'
  OBVIOUS
<1>1. CASE UNCHANGED vars
  <2>1. UNCHANGED <<contract, left, messages, monocle_meta, balance, wallet, client>>
    BY <1>1 DEF vars, factoryVars, contractVars
  <2>2. \A v \in Account : Held'[v] = Held[v]
    BY <2>1 DEF Held, Sent
  <2> QED
    BY <2>1, <2>2, BooksKept
<1>2. ASSUME NEW u \in Creator, Create(u) PROVE Books'
  <2>1. CASE Execute(u)
    BY <2>1, CreationBooks
  <2>2. CASE ~Execute(u)
    BY <1>2, <2>2, CallHolds, BooksKept
  <2> QED
    BY <2>1, <2>2
<1> QED
  BY <1>1, <1>2, OtherBooks DEF Next

\* The books are kept: what a creator has, has staked and is owed is what it was
\* given, and so is everything the contracts and the messages hold (create_monocle,
\* withdraw, and the refund of a deploy or a call that fails).
THEOREM BooksInvariant == Spec => []Books
BY InitBooks, StepBooks, FactoryInvariant, PTL DEF Spec

\* A creator has spent what it left in engines and the stake in force when each
\* of its engines was created, and no money is made or lost.
THEOREM CreatorsPayExactly == Spec => []CreatorPaysExactly
BY BooksInvariant, BooksShow, PTL

===============================================================================
