---------------------------- MODULE FactoryClient -----------------------------
(***************************************************************************)
(* Creating an engine through the SDKs (createMonocle in                   *)
(* src/sdk/typescript/src/factory-calls.ts, create_monocle in              *)
(* src/sdk/python/monocle_sdk/client.py): read the stake, read the length   *)
(* of the registry, send the transaction, wait until it is finalized,       *)
(* check its outcome, and read the registry at the index known before.      *)
(* Between any two of these, other accounts go on.                          *)
(*                                                                         *)
(* The client looks at a transaction once it is FINALIZED, or has failed    *)
(* for good; that it is first ACCEPTED is not modelled.                     *)
(***************************************************************************)
EXTENDS MonocleFactory

CONSTANT Payments           \* values a caller may choose itself

ASSUME PaymentAssumption == Payments \subseteq Nat

VARIABLE client             \* per creator: how far its call is

vars == <<factoryVars, client>>

Idle == [step |-> "idle", request |-> "good", value |-> 0, index |-> 0,
         status |-> "none", result |-> "none", monocle |-> NoAddress]

SetClient(u, c) == client' = [client EXCEPT ![u] = c]

\* The value defaults to the stake of this moment.
ReadStake(u) ==
    /\ client[u].step = "idle"
    /\ \E value \in Payments \cup {creation_stake} :
           SetClient(u, [client[u] EXCEPT !.step = "priced", !.value = value])
    /\ UNCHANGED factoryVars

ReadCount(u) ==
    /\ client[u].step = "priced"
    /\ SetClient(u, [client[u] EXCEPT !.step = "counted", !.index = Len(monocle_addresses)])
    /\ UNCHANGED factoryVars

\* The value leaves the wallet with the transaction.
SendCreate(u) ==
    /\ client[u].step = "counted"
    /\ client[u].value <= wallet[u]
    /\ wallet' = [wallet EXCEPT ![u] = @ - client[u].value]
    /\ \E request \in Request :
           SetClient(u, [client[u] EXCEPT !.step = "sent", !.request = request])
    /\ UNCHANGED <<contractVars, reputation_address, contract, left, messages>>

\* The transaction executes and returns, reverts, or is never executed; whatever
\* did not return gives the value back.  What the client will not look at again
\* is dropped.
Execute(u) ==
    /\ client[u].step = "sent"
    /\ Len(monocle_addresses) < MaxMonocles
    /\ CreateMonocle(u, client[u].value, client[u].request)
    /\ SetClient(u, [Idle EXCEPT !.step = "waiting", !.index = client[u].index,
                                 !.status = "FINALIZED", !.result = "FINISHED_WITH_RETURN"])
    /\ UNCHANGED wallet

GiveBack(u, status, result) ==
    /\ client[u].step = "sent"
    /\ wallet' = [wallet EXCEPT ![u] = @ + client[u].value]
    /\ SetClient(u, [Idle EXCEPT !.step = "waiting", !.status = status, !.result = result])
    /\ UNCHANGED <<contractVars, reputation_address, contract, left, messages>>

Revert(u) ==
    /\ ~Creatable(client[u].value, client[u].request)
    /\ GiveBack(u, "FINALIZED", "FINISHED_WITH_ERROR")

Fail(u) == GiveBack(u, "UNDETERMINED", "NOT_VOTED")

\* Mutant: any terminal status will do.
TerminalSuffices(tx) == tx.status \in {"FINALIZED", "UNDETERMINED"}

\* describeTransactionOutcome with requireFinalized
Succeeded(tx) == tx.status = "FINALIZED" /\ tx.result = "FINISHED_WITH_RETURN"

\* get_monocles_page(index, 1)
Page(index) ==
    IF index < Len(monocle_addresses) THEN monocle_addresses[index + 1] ELSE NoAddress

Resolve(u) ==
    /\ client[u].step = "waiting"
    /\ SetClient(u, [Idle EXCEPT
           !.step = IF ~Succeeded(client[u]) THEN "failed"
                    ELSE IF Page(client[u].index) = NoAddress THEN "missing" ELSE "done",
           !.monocle = IF Succeeded(client[u]) THEN Page(client[u].index) ELSE NoAddress])
    /\ UNCHANGED factoryVars

Init == FactoryInit /\ client = [u \in Creator |-> Idle]

Create(u) ==
    ReadStake(u) \/ ReadCount(u) \/ SendCreate(u) \/ Execute(u) \/ Revert(u) \/ Fail(u) \/ Resolve(u)

Next ==
    \/ \E u \in Creator : Create(u)
    \/ FactoryNext /\ UNCHANGED client

Spec == Init /\ [][Next]_vars

-----------------------------------------------------------------------------
(* Properties                                                              *)

Sent(u) == IF u \in Creator /\ client[u].step = "sent" THEN client[u].value ELSE 0

Held == [u \in Account |-> wallet[u] + Sent(u)]

Residuals == [a \in Address |-> contract[a].residual]

StakeOf == [a \in DOMAIN monocle_meta |-> monocle_meta[a].stake_required]

ClientType ==
    [step : {"idle", "priced", "counted", "sent", "waiting", "done", "missing", "failed"},
     request : Request, value : Nat, index : Nat,
     status : {"none", "FINALIZED", "UNDETERMINED"},
     result : {"none", "FINISHED_WITH_RETURN", "FINISHED_WITH_ERROR", "NOT_VOTED"},
     monocle : Address \cup {NoAddress}]

\* No fee, wallet or value in flight is ever negative.
TypeOK ==
    /\ creation_stake \in CreationStakes
    /\ collected_fees \in Nat /\ residual_fees \in Nat /\ balance \in Nat
    /\ reputation_address \in {NoAddress, REPUTATION_SALT}
    /\ monocle_addresses \in Seq(Address)
    /\ DOMAIN monocle_meta \subseteq Address
    /\ contract \in [Address ->
           [kind : {"none", "reputation", "monocle"}, creator : Account, residual : Nat]]
    /\ wallet \in [Account -> Nat]
    /\ client \in [Creator -> ClientType]
    /\ \A m \in BagToSet(messages) : m.value \in Nat

\* The native balance of the factory is exactly what it owes its owner: no
\* refund, residual or withdrawal is paid out of anybody else's money, and none
\* is kept.  (docs/AUDIT.md A6)
FeesBacked == balance = collected_fees + residual_fees

\* A creator has spent, at any moment, what it left in engines and the stake in
\* force when each of its engines was created, whatever it sent, however often
\* the stake changed meanwhile and whatever became of its transaction; and no
\* money is made or lost, with residuals and refunds in flight too.
CreatorPaysExactly ==
    /\ \A u \in Creator :
           Held[u] + InFlight(TransfersTo(u)) + left[u] + SumFunctionOnSet(StakeOf, CreatedBy(u))
           = Wealth
    /\ SumFunction(Held) + balance + SumFunction(Residuals) + InFlight(BagToSet(messages))
       = Wealth * Cardinality(Account)

\* What a deploy left at a registered address is an engine of the registered
\* creator: no two children, and not the reputation contract, meet there.
\* (comment above REPUTATION_SALT)
DeployedAsRegistered ==
    \A i \in DOMAIN monocle_addresses :
        LET a == monocle_addresses[i] IN
        /\ a # reputation_address
        /\ monocle_meta[a].index = i - 1
        /\ contract[a].kind # "none" =>
               /\ contract[a].kind = "monocle"
               /\ contract[a].creator = monocle_meta[a].creator

\* The registry is append-only: the index of an entry and its metadata stand,
\* whatever is created, raised or withdrawn later.
RegistryAppendOnly ==
    [][ /\ \A i \in DOMAIN monocle_addresses : monocle_addresses'[i] = monocle_addresses[i]
        /\ \A a \in DOMAIN monocle_meta : monocle_meta'[a] = monocle_meta[a] ]_vars

\* A call of the SDK that returns has created one more engine for its caller, and
\* finds an entry at its index; one that throws has created none.
OutcomeReported ==
    \A u \in Creator :
        /\ client[u].step # "missing"
        /\ client[u].step = "done" => client[u].monocle # NoAddress /\ CreatedBy(u) # {}
        /\ client[u].step = "failed" => CreatedBy(u) = {}

\* "Creates a Monocle and returns its address" (client.py, create_monocle).
ReturnsOwnMonocle ==
    \A u \in Creator :
        client[u].step = "done" => monocle_meta[client[u].monocle].creator = u

\* "Deploys a Monocle with you as creator" (docs/AGENT_SDK.md): what has been
\* registered is deployed, unless the deploy is still on its way.
RegisteredIsDeployed ==
    \A a \in DOMAIN monocle_meta :
        \/ contract[a].kind = "monocle"
        \/ \E m \in BagToSet(messages) : m.type = "deploy" /\ m.to = a

=============================================================================
