---------------------------- MODULE MonocleFactory ----------------------------
(***************************************************************************)
(* The factory of engines (src/contracts/MonocleFactory.py): creation for  *)
(* exactly the creation stake, the append-only registry, the fees, and the *)
(* messages it exchanges.  A deploy, a transfer or a residual is a message  *)
(* of its own, delivered after the transaction that emitted it and in any   *)
(* order; a deploy whose constructor refuses leaves nothing behind.         *)
(*                                                                         *)
(* Of an engine there is here only what its users have left in it for the   *)
(* factory (its residual bucket once it is closed); module Monocle is the   *)
(* engine.                                                                  *)
(***************************************************************************)
EXTENDS Integers, Sequences, Bags, FiniteSetsExt

CONSTANTS
    Creator,            \* accounts that create engines
    Owner,
    CreationStakes,     \* values the owner chooses from
    ReputationCode,     \* whether the constructor is given that code
    Wealth,             \* what every account holds at first
    MaxMonocles,        \* bound of the registry
    MaxGifts            \* bound of what is left in engines or donated

ASSUME FactoryAssumption ==
    /\ Owner \notin Creator /\ IsFiniteSet(Creator)
    /\ CreationStakes \subseteq Nat
    /\ ReputationCode \in BOOLEAN
    /\ Wealth \in Nat /\ MaxMonocles \in Nat /\ MaxGifts \in Nat

VARIABLES
    creation_stake, collected_fees, residual_fees,
    reputation_address,     \* NoAddress if deployed without the code
    monocle_addresses,
    monocle_meta,           \* address -> creation-time metadata
    balance,                \* the factory's own native balance
    contract,               \* address -> what lives there
    wallet,                 \* per account
    left,                   \* per account: what it left in engines or donated
    messages                \* in flight

contractVars == <<creation_stake, collected_fees, residual_fees, monocle_addresses, monocle_meta, balance>>

factoryVars == <<contractVars, reputation_address, contract, wallet, left, messages>>

Account == Creator \cup {Owner}

REPUTATION_SALT == 1
MONOCLE_SALT_OFFSET == 2

NoAddress == 0

\* An address is as good as its salt: nothing else varies (CREATE2).
Address == {REPUTATION_SALT} \cup {i + MONOCLE_SALT_OFFSET : i \in 0..(MaxMonocles - 1)}

\* What a caller may ask for: the constructor of an engine refuses more than
\* the factory does (duplicate sources, blank titles, unreadable schemas).
Request == {"good", "child_refuses", "factory_refuses"}

Nothing == [kind |-> "none", creator |-> Owner, residual |-> 0]

-----------------------------------------------------------------------------
(* Messages                                                                *)

Deploy(kind, address, creator, request) ==
    [type |-> "deploy", value |-> 0, to |-> address, kind |-> kind, creator |-> creator,
     request |-> request]

Transfer(to, value) == [type |-> "transfer", value |-> value, to |-> to]

Residual(value) == [type |-> "residual", value |-> value, to |-> Owner]

Send(sent) == messages (+) SetToBag(sent)

Consume(m) == messages (-) SetToBag({m})

-----------------------------------------------------------------------------
(* The factory's methods                                                   *)

\* Mutant: children share the salts of the reputation contract.
SaltUnshifted(registered) == registered + REPUTATION_SALT

Salt(registered) == registered + MONOCLE_SALT_OFFSET

Registered(address) == Append(monocle_addresses, address)

\* Mutant: the whole payment is a fee.
FeeIsPayment(paid) == paid

\* Exactly the stake is kept, whatever was paid.
Fee(paid) == creation_stake

\* Mutant: the payment is not looked at.
CreatableForLess(paid, request) == request # "factory_refuses"

\* Its guard; a call that fails it reverts and the payment goes back.
Creatable(paid, request) ==
    /\ paid >= creation_stake
    /\ request # "factory_refuses"

\* create_monocle, called by u with a payment that has left its wallet.
CreateMonocle(u, paid, request) ==
    LET address == Salt(Len(monocle_addresses))
        excess == paid - creation_stake
        refund == IF excess > 0 THEN {Transfer(u, excess)} ELSE {}
    IN  /\ Creatable(paid, request)
        /\ monocle_addresses' = Registered(address)
        /\ monocle_meta' =
               [a \in DOMAIN monocle_meta \cup {address} |->
                   IF a = address
                   THEN [index |-> Len(monocle_addresses), creator |-> u,
                         stake_required |-> creation_stake, stake_paid |-> paid]
                   ELSE monocle_meta[a]]
        /\ collected_fees' = collected_fees + Fee(paid)
        /\ balance' = balance + paid - (IF excess > 0 THEN excess ELSE 0)
        /\ messages' = Send({Deploy("monocle", address, u, request)} \cup refund)
        /\ UNCHANGED <<creation_stake, residual_fees, reputation_address, contract, left>>

\* receive_residual: from a closed engine (a message) or anybody (a donation).
Received(value) ==
    /\ value > 0
    /\ residual_fees' = residual_fees + value
    /\ balance' = balance + value
    /\ UNCHANGED <<creation_stake, collected_fees, monocle_addresses, monocle_meta>>

FeesReset == collected_fees' = 0 /\ residual_fees' = 0

WithdrawFees ==
    LET amount == collected_fees + residual_fees IN
    /\ amount > 0
    /\ FeesReset
    /\ balance' = balance - amount
    /\ messages' = Send({Transfer(Owner, amount)})
    /\ UNCHANGED <<creation_stake, reputation_address, monocle_addresses, monocle_meta, contract,
                   wallet, left>>

SetCreationStake ==
    /\ creation_stake' \in CreationStakes \ {creation_stake}
    /\ UNCHANGED <<collected_fees, residual_fees, reputation_address, monocle_addresses,
                   monocle_meta, balance, contract, wallet, left, messages>>

Donate(u) ==
    \E value \in 1..wallet[u] :
        /\ MapThenSumSet(LAMBDA v : left[v], Account) + value <= MaxGifts
        /\ Received(value)
        /\ wallet' = [wallet EXCEPT ![u] = @ - value]
        /\ left' = [left EXCEPT ![u] = @ + value]
        /\ UNCHANGED <<reputation_address, contract, messages>>

-----------------------------------------------------------------------------
(* Deliveries, and what the engines do                                     *)

\* A constructor runs once, at an address where nothing lives.
DeliverDeploy(m) ==
    LET runs == contract[m.to].kind = "none" /\ m.request = "good" IN
    /\ m.type = "deploy"
    /\ contract' =
           IF runs
           THEN [contract EXCEPT ![m.to] = [kind |-> m.kind, creator |-> m.creator, residual |-> 0]]
           ELSE contract
    /\ messages' = Consume(m)
    /\ UNCHANGED <<contractVars, reputation_address, wallet, left>>

DeliverTransfer(m) ==
    /\ m.type = "transfer"
    /\ wallet' = [wallet EXCEPT ![m.to] = @ + m.value]
    /\ messages' = Consume(m)
    /\ UNCHANGED <<contractVars, reputation_address, contract, left>>

DeliverResidual(m) ==
    /\ m.type = "residual"
    /\ Received(m.value)
    /\ messages' = Consume(m)
    /\ UNCHANGED <<reputation_address, contract, wallet, left>>

Deliver ==
    \E m \in BagToSet(messages) : DeliverDeploy(m) \/ DeliverTransfer(m) \/ DeliverResidual(m)

\* A user's stake, forfeited bond or stray transfer ends as residual of a closed
\* engine.
Leave(u, a) ==
    \E value \in 1..wallet[u] :
        /\ MapThenSumSet(LAMBDA v : left[v], Account) + value <= MaxGifts
        /\ contract[a].kind = "monocle"
        /\ wallet' = [wallet EXCEPT ![u] = @ - value]
        /\ left' = [left EXCEPT ![u] = @ + value]
        /\ contract' = [contract EXCEPT ![a].residual = @ + value]
        /\ UNCHANGED <<contractVars, reputation_address, messages>>

BucketEmptied(a) == contract' = [contract EXCEPT ![a].residual = 0]

\* flush_residual of a closed engine: debited when the message is emitted.
FlushResidual(a) ==
    /\ contract[a].residual > 0
    /\ messages' = Send({Residual(contract[a].residual)})
    /\ BucketEmptied(a)
    /\ UNCHANGED <<contractVars, reputation_address, wallet, left>>

FactoryInit ==
    /\ creation_stake \in CreationStakes
    /\ collected_fees = 0
    /\ residual_fees = 0
    /\ monocle_addresses = <<>>
    /\ monocle_meta = [a \in {} |-> Nothing]
    /\ balance = 0
    /\ contract = [a \in Address |-> Nothing]
    /\ wallet = [u \in Account |-> Wealth]
    /\ left = [u \in Account |-> 0]
    /\ IF ReputationCode
       THEN /\ reputation_address = REPUTATION_SALT
            /\ messages = SetToBag({Deploy("reputation", REPUTATION_SALT, Owner, "good")})
       ELSE /\ reputation_address = NoAddress
            /\ messages = EmptyBag

\* Everything but the creations.
FactoryNext ==
    \/ WithdrawFees
    \/ SetCreationStake
    \/ \E u \in Account : Donate(u)
    \/ Deliver
    \/ \E u \in Creator, a \in Address : Leave(u, a)
    \/ \E a \in Address : FlushResidual(a)

-----------------------------------------------------------------------------
(* What is where                                                           *)

\* The money of some of the messages.
InFlight(M) == SumFunctionOnSet([m \in M |-> messages[m] * m.value], M)

TransfersTo(u) == {m \in BagToSet(messages) : m.type = "transfer" /\ m.to = u}

CreatedBy(u) == {a \in DOMAIN monocle_meta : monocle_meta[a].creator = u}

=============================================================================
