----------------------------- MODULE VeryInsure -----------------------------
(***************************************************************************)
(* Insurance bought from one pool and claims against it: the registrar     *)
(* (very-insure/contracts/InsuranceRegistrar.sol), the claims half of the  *)
(* pool (InsurancePool.sol), the arbitration both inherit                  *)
(* (ArbitrationManager.sol) and the disputes at the arbitrable proxies     *)
(* (test/ArbitrableProxy.sol), around the vault of InsurancePool.tla.      *)
(*                                                                         *)
(* Callers are authorised: who may act for a node is decided by resolvers  *)
(* outside this module.  A signature is a statement in the set signed.     *)
(*                                                                         *)
(* The asset may be an ERC20 or an ERC777 (InsurancePool.sol, line 95).    *)
(* The latter calls the payer before it moves the money, the recipient     *)
(* after, and both may call anything before the transfer returns.  So the  *)
(* finalization of a request is three steps: executeDispute checks, the    *)
(* body transfers, and only then the dispute is marked; that of a claim is *)
(* two, since nobody is called between the check and the payment.          *)
(***************************************************************************)
EXTENDS InsurancePool, SequencesExt

CONSTANTS
    Nodes,          \* names that can be insured
    ForeignNodes,   \* those insured by another pool
    Proxies,        \* arbitrable proxies
    Operators,      \* accounts that approve by signature
    Prices, Terms,  \* prices and expirations of insurance that are asked for
    Amounts,        \* amounts that are claimed
    Nonces, Deadlines,
    OwnerShare,     \* ownerShare of the pool, in basis points
    FactoryFee,     \* factoryFee of the pool, in basis points
    Notifies,       \* whether the asset calls the parties of a transfer
    MaxClaims,      \* bound of the model: claims for each node
    MaxDisputes,    \* bound of the model: disputes at each proxy
    MaxNesting      \* bound of the model: finalizations under way at once

ASSUME VeryInsureAssumption ==
    /\ ForeignNodes \subseteq Nodes
    /\ Proxies \cap Operators = {} /\ "elsewhere" \notin Proxies
    /\ Prices \subseteq Nat /\ Terms \subseteq Nat /\ Amounts \subseteq Nat
    /\ Nonces \subseteq Nat /\ Deadlines \subseteq Nat
    /\ OwnerShare \in 0..BasisPoints /\ FactoryFee \in 0..BasisPoints
    /\ Notifies \in BOOLEAN
    /\ MaxClaims \in Nat /\ MaxDisputes \in Nat /\ MaxNesting \in Nat

VARIABLES
    trusted,    \* registrar: trustedArbitrableProxies of this pool
    insurances, \* registrar: _insurances
    sold,       \* registrar: isDisputeExecuted
    income,     \* what premiums brought the pool's owners and the factory
    claims,     \* pool: _claims, a sequence for each node, latestClaimId its length
    settled,    \* pool: isDisputeExecuted
    disputes,   \* proxies: the ruling of every dispute, in the order of creation
    signed,     \* statements operators have put their signatures to
    underway,   \* finalizations that have not returned, the latest first
    premiums,   \* history: the prices collected for each node
    payments    \* history: the number of times each claim was paid

registry == <<trusted, insurances, sold, income, premiums>>
claiming == <<claims, settled, payments>>
arbitration == <<disputes, signed, underway>>
vault == vars
allVars == <<vars, registry, claiming, arbitration>>

NoInsurance == [pool |-> "none"]
Unruled == 3            \* isRuled is false
Rulings == 0..2         \* 0: refused to arbitrate, 1: for, 2: against
ClaimIds == 1..MaxClaims

Insured(n) == insurances[n].pool # "none"

----------------------------------------------------------------------------
(* Arbitration.                                                            *)

\* createDispute, through a proxy the pool trusts; the proxy numbers it.
DisputeCreated(proxy) ==
    /\ proxy \in trusted
    /\ Len(disputes[proxy]) < MaxDisputes
    /\ disputes' = [disputes EXCEPT ![proxy] = Append(@, Unruled)]

\* Mistaken form of NextDispute: a counter read before it was raised.
LastDispute(proxy) == IF disputes[proxy] = << >> THEN 1 ELSE Len(disputes[proxy])

NextDispute(proxy) == Len(disputes[proxy]) + 1

\* Mistaken forms of Executable: any ruling will do; what was executed is not
\* looked up.
ExecutableIfRuled(approver, dispute, executed) ==
    /\ approver \in trusted \cap Proxies
    /\ <<approver, dispute>> \notin executed
    /\ disputes[approver][dispute] # Unruled

ExecutableAgain(approver, dispute, executed) ==
    /\ approver \in trusted \cap Proxies
    /\ disputes[approver][dispute] = 1

\* isDisputeExecutable: the proxy is (still) trusted, the ruling is in, it is
\* for the request, and this contract has not acted on it yet.
Executable(approver, dispute, executed) ==
    /\ approver \in trusted \cap Proxies
    /\ <<approver, dispute>> \notin executed
    /\ disputes[approver][dispute] = 1

\* A finalization, in what is left of its executeDispute: the body of a purchase
\* ("collect") and the mark ("sold"), or the mark of a claim ("settled").
Begin(next, n, approver, dispute) ==
    /\ Len(underway) < MaxNesting
    /\ underway' =
          <<[next |-> next, node |-> n, dispute |-> <<approver, dispute>>]>> \o underway

\* markDisputeExecuted, when the body has returned, in the table of the contract
\* whose call it is.
MarkDisputeExecuted ==
    LET call == Head(underway)
    IN  /\ underway # << >>
        /\ underway' = Tail(underway)
        /\ \/ call.next = "sold" /\ sold' = sold \cup {call.dispute} /\ UNCHANGED settled
           \/ call.next = "settled" /\ settled' = settled \cup {call.dispute} /\ UNCHANGED sold
        /\ UNCHANGED <<vault, trusted, insurances, income, premiums, claims, payments>>
        /\ UNCHANGED <<disputes, signed>>

\* Whether a call can be made: while another is under way, only by those whom
\* the asset calls.
Callable == underway = << >> \/ Notifies

\* rule, called by the arbitrator of the proxy, once for each dispute.
Rule(proxy, dispute, ruling) ==
    /\ disputes[proxy][dispute] = Unruled
    /\ disputes' = [disputes EXCEPT ![proxy][dispute] = ruling]
    /\ UNCHANGED <<vault, registry, claiming, signed, underway>>

\* An operator signs a statement off chain.
Sign(statement) ==
    /\ signed' = signed \cup {statement}
    /\ UNCHANGED <<vault, registry, claiming, disputes, underway>>

\* The statement is signed, and its deadline has not passed.
SignatureHolds(statement) == statement \in signed /\ now <= statement.deadline

----------------------------------------------------------------------------
(* Buying insurance.                                                       *)

SetTrustedArbitrableProxy(proxy, trust) ==
    /\ trusted' = IF trust THEN trusted \cup {proxy} ELSE trusted \ {proxy}
    /\ UNCHANGED <<vault, insurances, sold, income, premiums, claiming, arbitration>>

\* Mistaken form of Insurance: two arguments change places.
InsuranceSwapped(price, term, approver, dispute) ==
    [pool |-> "this", price |-> term, expiration |-> price,
     approver |-> approver, dispute |-> dispute, approvedAt |-> 0]

Insurance(price, term, approver, dispute) ==
    [pool |-> "this", price |-> price, expiration |-> term,
     approver |-> approver, dispute |-> dispute, approvedAt |-> 0]

\* The premium is split; a split that takes more than all of it underflows.
Share(price, part) == (price * part) \div BasisPoints

\* Mistaken form of Buy: the factory's fee is not deducted from what remains.
BuyUndeducted(n, insurance) ==
    LET ownerFee == Share(insurance.price, OwnerShare)
        factoryFee == Share(insurance.price, FactoryFee)
    IN  /\ income' = [owners |-> income.owners + ownerFee,
                      factory |-> income.factory + factoryFee]
        /\ premiums' = [premiums EXCEPT ![n] = Append(@, insurance.price)]
        /\ Distribute(insurance.price - ownerFee)

\* _buyInsurance, which its callers enter with an insurance that does not outlast
\* the pool.  Its last step is distribute of the vault; approvedAt is set on a
\* copy in memory, so the stored insurance keeps its zero.
Buy(n, insurance) ==
    LET ownerFee == Share(insurance.price, OwnerShare)
        factoryFee == Share(insurance.price, FactoryFee)
    IN  /\ ownerFee + factoryFee <= insurance.price
        /\ income' = [owners |-> income.owners + ownerFee,
                      factory |-> income.factory + factoryFee]
        /\ premiums' = [premiums EXCEPT ![n] = Append(@, insurance.price)]
        /\ Distribute(insurance.price - ownerFee - factoryFee)

\* Mistaken form of BuyInsuranceWithArbitration: a second request replaces the
\* first.
BuyInsuranceReplacing(n, price, term, proxy) ==
    /\ term <= expiration
    /\ insurances' = [insurances EXCEPT
                        ![n] = Insurance(price, term, proxy, NextDispute(proxy))]
    /\ DisputeCreated(proxy)
    /\ UNCHANGED <<vault, trusted, sold, income, premiums, claiming, signed, underway>>

BuyInsuranceWithArbitration(n, price, term, proxy) ==
    /\ ~Insured(n)
    /\ term <= expiration
    /\ insurances' = [insurances EXCEPT
                        ![n] = Insurance(price, term, proxy, NextDispute(proxy))]
    /\ DisputeCreated(proxy)
    /\ UNCHANGED <<vault, trusted, sold, income, premiums, claiming, signed, underway>>

\* buyInsuranceFinalize, as far as the transfer of the premium.
BuyInsuranceFinalize(n) ==
    LET insurance == insurances[n]
    IN  /\ insurance.pool = "this"
        /\ Executable(insurance.approver, insurance.dispute, sold)
        /\ insurance.expiration <= expiration
        /\ Begin("collect", n, insurance.approver, insurance.dispute)
        /\ UNCHANGED <<vault, registry, claiming, disputes, signed>>

\* From there to the end of its body.
CollectPremium ==
    LET call == Head(underway)
    IN  /\ underway # << >>
        /\ call.next = "collect"
        /\ Buy(call.node, insurances[call.node])
        /\ underway' = <<[call EXCEPT !.next = "sold"]>> \o Tail(underway)
        /\ UNCHANGED <<trusted, insurances, sold, claiming, disputes, signed>>

\* Or the body reverts: the payer's funds, which are not modelled, may not do,
\* or the pool cannot take the premium.  What was called meanwhile could have been
\* called without it.
CollectionReverts ==
    /\ underway # << >>
    /\ Head(underway).next = "collect"
    /\ underway' = Tail(underway)
    /\ UNCHANGED <<vault, registry, claiming, disputes, signed>>

PurchaseStatements ==
    [kind : {"purchase"}, node : Nodes \ ForeignNodes, price : Prices, term : Terms,
     operator : Operators, nonce : Nonces, deadline : Deadlines]

BuyInsuranceWithSignature(s) ==
    LET insurance == Insurance(s.price, s.term, s.operator, s.nonce)
    IN  /\ ~Insured(s.node)
        /\ s.term <= expiration
        /\ SignatureHolds(s)
        /\ insurances' = [insurances EXCEPT ![s.node] = insurance]
        /\ Buy(s.node, insurance)
        /\ sold' = sold \cup {<<s.operator, s.nonce>>}
        /\ UNCHANGED <<trusted, claiming, arbitration>>

----------------------------------------------------------------------------
(* Claiming.                                                               *)

\* insuranceClaimable.  An insurance is looked up whether or not it has been
\* paid for: the code asks for no approval.
Claimable(n) ==
    /\ now < expiration
    /\ insurances[n].pool = "this"
    /\ now < insurances[n].expiration

Claim(amount, approver, dispute) ==
    [amount |-> amount, approver |-> approver, dispute |-> dispute, approvedAt |-> 0]

ClaimWithArbitration(n, amount, proxy) ==
    /\ Len(claims[n]) < MaxClaims
    /\ Claimable(n)
    /\ claims' = [claims EXCEPT
                    ![n] = Append(@, Claim(amount, proxy, NextDispute(proxy)))]
    /\ DisputeCreated(proxy)
    /\ UNCHANGED <<vault, registry, settled, payments, signed, underway>>

\* Mistaken form of Pay: what was checked when the claim was filed is relied on.
PayUnchecked(n, id, amount) ==
    /\ PayClaim(amount)
    /\ payments' = [payments EXCEPT ![n][id] = @ + 1]

\* _claim: checked again when the claim is paid, whenever it was approved.
Pay(n, id, amount) ==
    /\ Claimable(n)
    /\ PayClaim(amount)
    /\ payments' = [payments EXCEPT ![n][id] = @ + 1]

\* claimFinalize, by anyone.
ClaimFinalize(n, id) ==
    /\ id \in DOMAIN claims[n]
    /\ LET claim == claims[n][id]
       IN  /\ Executable(claim.approver, claim.dispute, settled)
           /\ Pay(n, id, claim.amount)
           /\ Begin("settled", n, claim.approver, claim.dispute)
    /\ UNCHANGED <<registry, claims, settled, disputes, signed>>

ClaimStatements ==
    [kind : {"claim"}, node : Nodes, id : ClaimIds, amount : Amounts,
     operator : Operators, nonce : Nonces, deadline : Deadlines]

\* Mistaken form of ClaimWithSignature: the signed number is not compared.
ClaimUnnumbered(s) ==
    /\ Len(claims[s.node]) < MaxClaims
    /\ SignatureHolds(s)
    /\ claims' = [claims EXCEPT
                    ![s.node] = Append(@, Claim(s.amount, s.operator, s.nonce))]
    /\ Pay(s.node, s.id, s.amount)
    /\ settled' = settled \cup {<<s.operator, s.nonce>>}
    /\ UNCHANGED <<registry, arbitration>>

\* The number of the claim is part of what was signed.
ClaimWithSignature(s) ==
    /\ s.id = Len(claims[s.node]) + 1
    /\ SignatureHolds(s)
    /\ claims' = [claims EXCEPT
                    ![s.node] = Append(@, Claim(s.amount, s.operator, s.nonce))]
    /\ Pay(s.node, s.id, s.amount)
    /\ settled' = settled \cup {<<s.operator, s.nonce>>}
    /\ UNCHANGED <<registry, arbitration>>

----------------------------------------------------------------------------
SystemInit ==
    /\ Init
    /\ trusted = {}
    /\ insurances = [n \in Nodes |->
            IF n \in ForeignNodes
            THEN [Insurance(0, MaxTime + 1, "elsewhere", 0) EXCEPT !.pool = "other"]
            ELSE NoInsurance]
    /\ sold = {} /\ settled = {} /\ signed = {} /\ underway = << >>
    /\ income = [owners |-> 0, factory |-> 0]
    /\ claims = [n \in Nodes |-> << >>]
    /\ disputes = [p \in Proxies |-> << >>]
    /\ premiums = [n \in Nodes |-> << >>]
    /\ payments = [n \in Nodes |-> [id \in ClaimIds |-> 0]]

\* The vault acts on its own, but pays claims only through this module.  No
\* time passes while a call is under way.
VaultStep ==
    /\ Investor \/ Rewards \/ Conclude \/ (underway = << >> /\ Tick)
       \/ \E n \in 0..MaxHeld : Distribute(n) \/ Donate(n)
    /\ UNCHANGED <<registry, claiming, arbitration>>

Purchase ==
    \/ \E p \in Proxies, trust \in BOOLEAN : SetTrustedArbitrableProxy(p, trust)
    \/ \E n \in Nodes :
          \/ \E price \in Prices, term \in Terms, p \in Proxies :
                BuyInsuranceWithArbitration(n, price, term, p)
          \/ BuyInsuranceFinalize(n)
    \/ \E s \in signed : s.kind = "purchase" /\ BuyInsuranceWithSignature(s)

Claiming ==
    \/ \E n \in Nodes :
          \/ \E amount \in Amounts, p \in Proxies : ClaimWithArbitration(n, amount, p)
          \/ \E id \in ClaimIds : ClaimFinalize(n, id)
    \/ \E s \in signed : s.kind = "claim" /\ ClaimWithSignature(s)

Approval ==
    \/ \E p \in Proxies : \E d \in DOMAIN disputes[p], r \in Rulings : Rule(p, d, r)
    \/ \E s \in PurchaseStatements \cup ClaimStatements : Sign(s)

SystemNext ==
    \/ Callable /\ (VaultStep \/ Purchase \/ Claiming \/ Approval)
    \/ CollectPremium \/ CollectionReverts \/ MarkDisputeExecuted

SystemSpec == SystemInit /\ [][SystemNext]_allVars

----------------------------------------------------------------------------
(* What is promised.                                                       *)

Calls ==
    [next : {"collect", "sold", "settled"}, node : Nodes, dispute : Proxies \X Nat]

\* Every variable of the registrar, the claims and the arbitration has its type.
SystemTypeOK ==
    /\ TypeOK
    /\ trusted \subseteq Proxies
    /\ \A n \in Nodes : Insured(n) =>
          /\ insurances[n].price \in Prices \cup {0}
          /\ insurances[n].expiration \in Terms \cup {MaxTime + 1}
    /\ sold \cup settled \subseteq (Proxies \cup Operators) \X Nat
    /\ income \in [owners : Nat, factory : Nat]
    /\ \A n \in Nodes : Len(claims[n]) <= MaxClaims
    /\ disputes \in [Proxies -> Seq(Rulings \cup {Unruled})]
    /\ signed \subseteq PurchaseStatements \cup ClaimStatements
    /\ underway \in Seq(Calls)
    /\ premiums \in [Nodes -> Seq(Nat)]
    /\ payments \in [Nodes -> [ClaimIds -> Nat]]

\* Where each insurance and each claim stands.  A second collection of the
\* premium or a second payment would have no name in the life cycle.
Cover ==
    [n \in Nodes |->
        CASE Len(premiums[n]) = 1 -> "bought"
          [] Len(premiums[n]) > 1 -> "bought again"
          [] OTHER -> IF Insured(n) THEN "requested" ELSE "none"]

ClaimState ==
    [n \in Nodes |-> [id \in ClaimIds |->
        CASE payments[n][id] = 1 -> "paid"
          [] payments[n][id] > 1 -> "paid again"
          [] OTHER -> IF id <= Len(claims[n]) THEN "filed" ELSE "none"]]

Lifecycle == INSTANCE InsuranceLifecycle WITH cover <- Cover, claim <- ClaimState

\* The contracts go through the life cycle: whatever the order of rulings,
\* signatures and calls, nothing is bought or paid twice (the modifiers of
\* ArbitrationManager.sol, lines 91-127, in both contracts).  With an asset
\* that calls the parties of a transfer it holds of what is approved by
\* signature only.
LifecycleSpec == Lifecycle!Spec

\* The contract acts on a dispute of a proxy only after a ruling for it, and
\* no ruling is changed afterwards.
ActedOnlyOnRulingsFor ==
    \A p \in Proxies, d \in 1..MaxDisputes :
        <<p, d>> \in sold \cup settled =>
            d \in DOMAIN disputes[p] /\ disputes[p][d] = 1

\* The requests and the claims that wait, or waited, for a ruling; their disputes.
Asked(n) == Insured(n) /\ insurances[n].approver \in Proxies
Filed(n, id) == id \in 1..Len(claims[n]) /\ claims[n][id].approver \in Proxies

Asking(n) == <<insurances[n].approver, insurances[n].dispute>>
Filing(n, id) == <<claims[n][id].approver, claims[n][id].dispute>>

\* Two requests never stand or fall with the same dispute, though registrar
\* and pool share the proxy and each counts executed disputes on its own.
RequestsHaveTheirOwnDispute ==
    /\ \A m, n \in Nodes : Asked(m) /\ Asked(n) /\ Asking(m) = Asking(n) => m = n
    /\ \A m, n \in Nodes, i, j \in ClaimIds :
          Filed(m, i) /\ Filed(n, j) /\ Filing(m, i) = Filing(n, j) => m = n /\ i = j
    /\ \A m, n \in Nodes, i \in ClaimIds : Asked(m) /\ Filed(n, i) => Asking(m) # Filing(n, i)

\* A request whose dispute is marked, with no call left that would collect for
\* it; a claim whose dispute is marked.
Bought(n) ==
    /\ Asked(n) /\ Asking(n) \in sold
    /\ \A call \in ToSet(underway) : call.next = "collect" => call.node # n

Settled(n, id) == Filed(n, id) /\ Filing(n, id) \in settled

\* The mark does what it is there for, whatever the asset calls and in whatever
\* order the calls return (ArbitrationManager.sol, lines 91-97, in two contracts
\* with a table each): what is marked has been collected or paid, and no premium
\* is collected and no claim paid on the same ruling any more.
MarkedIsDone ==
    [][ \A n \in Nodes :
          /\ Bought(n) => premiums[n] # << >> /\ premiums'[n] = premiums[n] /\ Bought(n)'
          /\ \A id \in ClaimIds : Settled(n, id) =>
                payments[n][id] # 0 /\ payments'[n][id] = payments[n][id] ]_allVars

\* Nothing is taken from the holders for a claim outside the time it covers:
\* whenever the approval came, payment needs a running pool and an insurance
\* of this pool that has not expired.
PaidOnlyWhileCovered ==
    [][ payments' # payments =>
          /\ now < expiration
          /\ \E n \in Nodes : /\ payments'[n] # payments[n]
                              /\ insurances'[n].pool = "this"
                              /\ now < insurances'[n].expiration ]_allVars

\* The terms a request was approved with are the terms it is bought at, and a
\* name is insured once: nothing replaces or removes an insurance.
TermsAreKept ==
    [][ \A n \in Nodes :
          /\ Insured(n) => insurances'[n] = insurances[n]
          /\ premiums'[n] # premiums[n] =>
                premiums'[n] = Append(premiums[n], insurances'[n].price) ]_allVars

\* A premium is divided without loss among the owners, the factory, the
\* holders' reserve and their rewards (lines 298-312 and InsurancePool.sol
\* lines 375-384), rounding included.
PremiumsAreSplitExactly ==
    [][ \A n \in Nodes : premiums'[n] # premiums[n] =>
          income'.owners + income'.factory + held' + chef'.funds[Asset]
            = income.owners + income.factory + held + chef.funds[Asset]
              + Last(premiums'[n]) ]_allVars

\* What the test says of a claim that was finalized (very-insure/test/
\* Insurance.ts:573-574), the asset being an ERC20 or an ERC777 as the comment
\* at InsurancePool.sol:95 has it: another finalization of the claim reverts.
ClaimsPaidOnce == \A n \in Nodes, id \in ClaimIds : payments[n][id] <= 1
=============================================================================
