# very.insure in TLA+

A verification project for the contracts of very.insure: insurance of ENS names,
sold from pools that investors fund, with claims decided by arbitration or by an
operator's signature. The modules model the contracts under
`src/very-insure/contracts` and the scripts that deploy the ENS fork and the diamond
resolver they stand on. TLC checks them on small instances. For every instance, TLAPS
proves every safety property that the runs check, two of them under a hypothesis that is
named below: of the reward ledger, the owner's
token, the vault, purchases and claims, the arbitrable proxy, and the deployment.

## The system

The repository has three Solidity projects. `src/very-insure` is the product;
`src/ens` is a fork of the ENS contracts; `src/diamond-resolver` is an earlier
resolver. The money flows through the first.

| part | state | operations | who calls it |
|---|---|---|---|
| `InsuranceRegistrar` | the insurance of each name, executed disputes, trusted proxies per pool, fees | buy with arbitration, finalize, buy with signature, trust a proxy, set fees, deploy a pool | anyone authorised for the name; the pools read it |
| `InsurancePool` (ERC20 share token and vault) | balances, supply, allowances, expiration, claims per name, executed disputes | deposit, mint, withdraw, redeem, transfer, distribute, claim with arbitration, finalize, claim with signature, conclude | investors, the registrar, the insured |
| `InsuranceMasterchef` (one for each pool) | reward tokens, reward per share, its own copy of balances and supply, debts | increaseShare, decreaseShare (pool only), harvest, harvestAll, distributeReward | the pool inside every share movement; anyone |
| `InsuranceOwnershipToken` (one for each pool) | ERC20 of fixed supply, reward per share, debts | transfer, harvest, harvestAll, distribute | owners, the registrar |
| `ArbitrationManager` (base of registrar and pool) | executed disputes, signature nonces | create dispute, the two modifiers | registrar, pool |
| `ArbitrableProxy` (of `contracts/test`) | disputes, rounds, contributions | create dispute, fund appeal, rule, withdraw | registrar, pool, arbitrator, contributors |
| `AutoAppealableArbitrator` | disputes, appeal periods, fees | create, give ruling, appeal, execute | its owner, the proxy |
| `InsuranceResolver`, `EASAttestator`, diamond | records, attestations, roles | set and clear records | names' owners, the registrar reads roles |
| ENS registry, registrars, wrapper, resolvers | names, owners, expiries, fuses | register, renew, wrap, set | users |
| deployment scripts of `ens` and `diamond-resolver` | recorded deployments, remembered scripts, the nonce of `Root`; what is wired on the chain | deploy, call, have `Root` call, compare and set | an operator with hardhat |
| tasks `archive-scan`, `save`, `seed` | the archive directory | make a directory, fill it | an operator with hardhat |

How they interact:

* Every movement of pool shares (mint, burn, transfer) goes through
  `InsurancePool._update`, which moves the balances and then calls the ledger. A
  transfer is two calls, `decreaseShare` and `increaseShare`, in one transaction.
* A premium is collected by the registrar, which divides it among the owner's
  token, the factory and the pool. The pool's `distribute` passes an instant part
  on to the ledger by an ERC20 allowance and keeps the rest.
* A purchase or a claim creates a dispute at a proxy; at any later time somebody
  calls the finalization, which reads the ruling back from that proxy. Registrar
  and pool share the proxies and each remembers on its own which disputes it has
  acted on: a finalization checks this, does what was asked for, and notes it.
* The asset is an ERC20 or an ERC777 (`InsurancePool.sol:95`). The latter calls the
  parties of a transfer, the payer before the money moves and the recipient after, and
  they may call the contracts in turn.
* The pool asks the registrar which pool insures a name and until when, at filing
  and again at payment.

* A deployment script reads what earlier scripts recorded, deploys unless the record
  is up to date, and wires the contracts by calls. In `ens` these calls are made by
  `Root`, for whoever brings its owner's signature over its next nonce: seven of them,
  numbered 0 to 6 by hand in five scripts. Tags and dependencies decide the order of
  the scripts. Most scripts return early when nothing was newly deployed.

What is hard: any order of transactions of any actors is possible, and time passes
between them; inside a transaction, the asset may let others act between two steps of
a handler. Approvals
arrive late, are used twice or by the wrong contract; trust in a proxy is withdrawn
and restored in between; divisions round down in a dozen places whose errors add
up; and the same quantity (shares, supply) is kept in two contracts. The scripts run on
another machine than the chain: they are killed between a transaction and its record,
rerun in part or in whole, and know only what is recorded. The hazards, each at its
line, are in `PROJECT.json`.

What makes each part correct:

* *Ledger*: pays each holder what its shares earned and nothing that was earned
  before they were bought; what it owes beyond what it holds is only rounding.
* *Owner's token*: the same, as far as it is true (see Findings).
* *Vault*: the ledger mirrors the balances; no profit is paid before expiry; a way
  out never dilutes those who stay; the reserve survives; expiry is final.
* *Registrar, claims, arbitration*: each request is decided by a dispute of its
  own, acted on at most once, only after a ruling for it, on the terms approved;
  a claim is paid only while it is covered; a premium is divided without loss.
* *Proxy and arbitrator*: whoever withdraws first, everyone can be paid; who pays
  first for the ruling that wins loses nothing; a round paid for on one side only is
  won by it; after the appeal period the outcome is settled.
* *Deployment*: what is wired is what is recorded; nothing is deployed twice; whoever
  keeps running everything gets everything wired, or learns that it is not.
* *Archive*: repeated scans archive all that can be.
* *Registrar's administration (planned)*: a fee in force stays within its limits.
* *Records (planned)*: clearing a version hides all of its records.
* *ENS (planned)*: a name has one owner; grace period and expiry are respected; a
  burned fuse stays burned until expiry.

## Modules

| module | models | state |
|---|---|---|
| `InsuranceMasterchef` | the reward ledger | `chef`, one record with the contract's storage |
| `InsuranceMasterchefHistory` | the same with history: what each account earned and was paid, and how often its shares were updated | `earned`, `received`, `updates` |
| `InsuranceMasterchefProofs`, `InsuranceMasterchefHistoryProofs` | theorems about the two | |
| `InsuranceOwnershipToken`, `...History` | the owner's token, and what its holders were paid | `own`; `received`, `moved` |
| `InsuranceOwnershipTokenProofs` | theorems about the two | |
| `InsurancePool` | the vault and, by `INSTANCE`, its ledger | `balanceOf`, `totalSupply`, `allowance`, `held`, `approved`, `expiration`, `now`, `chef` |
| `InsurancePoolHistory` | the vault with the investors' net payments | `principal` |
| `InsurancePoolProofs` | theorems about the two, on top of the ledger's | |
| `InsuranceLifecycle` | abstract specification: an insurance is requested and bought at most once, a claim filed and paid at most once and in order | `cover`, `claim` |
| `Arbitration` | abstract specification: disputes are numbered in order, and each is ruled at most once | `rulings` |
| `VeryInsure` | registrar, claims, arbitration and signatures around the vault | `trusted`, `insurances`, `sold`, `claims`, `settled`, `disputes`, `signed`, `income`, `underway`; history `premiums`, `payments` |
| `VeryInsureProofs` | theorems about it, on top of the vault's | |
| `AutoAppealableArbitrator` | the arbitrator: its owner's calls, direct appeals, time | `now`, `price`, `cases` |
| `ArbitrableProxy` | the proxy on top of it: disputes, appeals funded by contributions, rulings, withdrawals | `disputes`, `rounds`, `multipliers`, `balance` |
| `ArbitrableProxyProofs` | theorems about the two | |
| `Arithmetic` | lemmas on division as Solidity divides, and on sums of a function over a finite set | |
| `DeploymentScripts` | the networks of the configurations, and the steps a script is made of | |
| `EnsDeployment`, `DiamondDeployment`, `DnsDeployment`, `HardhatTasks` | each script, and each task, as a record of tags, dependencies and steps | |
| `HardhatDeploy` | what runs them: the order of the scripts, the process that executes them, the chain that mines what it sends, the operator who runs it again, crashes and edits | see below |
| `HardhatDeployProofs` | theorems about these runs, with facts about each script | |
| `MC...` | model values and symmetry for TLC | |

`InsuranceMasterchef` is written as operators on ledgers (`IncreaseShare(c, a, n)`
is the storage after the call, `IncreaseShareReverts(c, a)` says when it reverts)
with thin actions on top. So the vault can call them inside its own actions, twice
in one transaction for a transfer, and lemmas can be stated about them. The vault
is related to the ledger by refinement: `LedgerSpec` says that every step of the
vault is a step of `InsuranceMasterchef`'s specification, so what is proved about
the ledger holds of the one inside the vault. In the same way `LifecycleSpec` says
that the contracts of `VeryInsure` implement `InsuranceLifecycle`. `Arbitration` stands
between the contracts and the proxy: `VeryInsure` has it for every proxy, with any ruling
at any time, and `ArbitrableProxy` implements it.

`HardhatDeploy` has the state of three parties. Of the project's directory: `records`
(`deployments/<network>/*.json`: address, sources, arguments), `migrations`
(`.migrations.json`), `unsaved` (`.pendingTransactions`), `changed` (the sources edited
last) and `archive`. Of the chain: `contracts`, numbered in the order of their creation,
with the owner and `Root`'s nonce; `storage`, the slots that scripts set; `mempool` and
the last `receipt`. Of the process: its `command`, the `queue` of scripts to come, `pc`
in the first of them, `waiting` for a transaction, and the `outcome`. The scripts are
data: a step is a record like `DeployOnce(name, args)` (deploy, and return unless newly
deployed) or `Execute(nonce, to, slot, value)`, and `HardhatDeploy` has one action for
each kind of step, so that a process may be killed between any two, and between a
transaction and its receipt.

In the contracts, one action is one external call, with all that it calls: a deposit includes the
ledger's harvest and update, a purchase by signature the split and distribution of the
premium. A revert is a disabled action. The exception are the finalizations of
`VeryInsure`. That of a claim is two actions, `ClaimFinalize` (check and payment) and
`MarkDisputeExecuted`; that of a purchase is three, `BuyInsuranceFinalize` (check),
`CollectPremium` (or `CollectionReverts`) and `MarkDisputeExecuted`. Between them lie the
calls of the asset. `underway` is the stack of finalizations that have not returned: only
the latest goes on, and others make calls meanwhile only where the asset lets them
(`Callable`). Each property has a mistaken form of some
operator beside it ("Mistaken form of ..."), a plausible bug in the code; the
property is violated when that form takes the place of the right one.

### Decisions

* **Numbers** are naturals. Solidity 0.8 reverts when one would go below zero, and
  that is a guard in the actions (`DecreaseShareReverts`, `amount <= held`) or, where
  the code relies on it not happening, a part of `TypeOK`. Amounts stay far below
  2^256, so overflow is not modelled.
* **Scale.** `Precision` stands for 1e18, `BasisPoints` for 10000, `ReserveDivisor`
  for 20. All are parameters. A small precision makes rounding errors as large as
  they can be relative to the amounts, so a run with a small one is the hard case.
* **ERC20 contracts** other than the two in the system are external. `held` and
  `funds` are what they record for the contract; the payer's own balance is left
  out. Donations to the pool are an action. Donations to the ledger are not: they
  only add funds that nothing accounts for.
* **Tokens** take no fee on transfers.
* **Calls by the asset.** With `Notifies` the asset calls the payer before a transfer and
  the recipient after it, and whoever is called makes any calls of the system, finalizations
  included, up to `MaxNesting` within each other. It matters where a handler reads before a
  transfer what it writes, or others read, after it. In `claimFinalize` that is the mark:
  the recipient is called between payment and mark. In `buyInsuranceFinalize` the payer is
  called between the check and the first transfer, and the factory's owner, who gets the
  fee, in the middle of the body; what the latter calls is taken to come before
  `CollectPremium`, since the registrar and the pool have not changed by then.
  `CollectionReverts` takes back the collection and not what was called meanwhile, all of
  which could have been called without it.
* **Other handlers stay one action.** Nothing reads the mark that a signature leaves, and
  these handlers write the insurance or the claim's number before they pay. Withdrawals
  burn before they pay (`InsurancePool.sol:340-347`). A deposit checks the expiration
  before the payer is called, so a payer with the role to conclude the pool might do so
  and still get shares; this, and calls made when the ledger or the owner's token pays
  rewards (`InsuranceMasterchef.sol:81-87`), are left out.
* **The reserve** is compared when the call to a claim's recipient has returned, in the
  model when the claim is paid. The model lacks the payments that are within the reserve
  only because of money that arrives during the call.
* **Authorisation** by resolvers is outside: callers in `VeryInsure` are authorised.
  In the ledger and the owner's token, where the right to add a token matters for the
  books, it is the set of callers that have it.
* **Signatures** are statements in the set `signed`. The modifier checks the signature
  and the deadline, and the handlers the claim's number; the model checks the same and
  no more. In particular the modifier looks up no executed dispute: what stops a second
  use is the number of the claim or the insurance already there. Nor does it ask whether
  the pool trusts the operator, as the other modifier asks of a proxy.
* **Purchases and the clock.** No guard of a purchase looks at the time
  (`InsuranceRegistrar.sol:292`), so a request approved late is bought from a pool that has
  expired. The test's scenario (`Insurance.ts:58-59`) says that such a purchase reverts.
* **`approvedAt`** is assigned to a copy in memory and so stays 0 in storage; the model
  keeps the 0. `Claimable` asks for no approval, as the code does not.
* **Names insured by another pool** (`ForeignNodes`) exist from the start, since the
  registrar's table is shared among pools.
* **A ruling in `VeryInsure`** is the moment at which the proxy's `isRuled` becomes
  true: what the registrar and the pool read does not change before or after it. How it
  comes about is in `ArbitrableProxy`.
* **Before a ruling is appealable** the arbitrator's price of an appeal is half of the
  largest number. Its product with a multiplier overflows and reverts `fundAppeal`, so
  that a ruling can be paid for early only when its multiplier is 0. (Multipliers of 1
  and 2 in 10000 would also fit; they are taken to revert.)
* **Two handlers of the proxy** pay out with `send`, whose failure they ignore. The set
  `Refusers` holds the contributors for whom it fails.
* **The governor and the arbitrator's owner** are whoever makes their calls. The fees
  that the arbitrator collects are paid on to its callers and decide nothing.
* **Transactions of the deployer** are mined in the order of their nonces and are never
  lost. A call that would revert throws when its gas is estimated, or when it is waited
  for; the model lets it be mined and fail. Sending a deployment and noting it as
  pending is one step, and so is removing that note and saving the record when it is mined. `deployer` and `owner` are the same account
  (`hardhat.config.ts:139-146`), so transfers of ownership between them are left out,
  and every network has the tag `use_root`.
* **Networks that save nothing** (`hardhat`, `localhost`) mine at once, and each run
  starts anew.
* **What hardhat-deploy does** (tags, dependencies, `.migrations.json`, comparing a
  record with the sources, pending transactions) is external, modelled from how the
  scripts use it. Two sources compare as equal or not, arguments by address; a record
  without its transaction counts as up to date.
* **Upstream's records** in `ens/deployments/{mainnet,ropsten,goerli}` came with the
  fork. They are taken to differ from what this repository compiles, but for
  `TestUnwrap`, which is tried both ways. Upstream's `Root` has no `execute`, so on these
  networks every script that needs it fails once and, its contract being recorded, is
  left out afterwards: the run is green and nothing is wired. The properties of the
  wiring are therefore about the other networks.
* **`deploy copy`** holds scripts of upstream, to be run with that directory in place of
  `deploy`. Those whose identities are recorded are skipped; the DNSSEC oracle, the DNS
  registrar and `TestUnwrap` can run and are modelled. A run of everything there ends at
  the DNS registrar.
* **The addresses in `facetcut.ts`** are taken to be those of the recorded diamond and
  facet. A group of selectors that is cut together is one slot, which must be empty.
* **The top-level domains** of `20_set_tlds.ts` are one slot: `enableNode` is called with
  text where bytes are expected, so the script throws for the first domain that is not
  the registrar's already.
* **`seed`** reads its environment file and then fails at the factory of `NameWrapper`,
  which is abstract. The hundred lines after that are never reached.
* `harvestAll` loops over tokens; no iteration reads what another wrote, so the loop
  is one assignment over the table.

## Runs

The contracts have no fairness and no liveness property. They act only when somebody
calls them, and nothing in the code makes anybody call. What one would like to see
happen ("an approved claim is eventually paid") is not promised by the code: the pool
may expire first, or be below its reserve.

The deployment has both. `Fairness` is weak fairness of three things: a process that can
go on does (`Step`), a chain with a transaction in its pool mines it (`Mine`), and an
operator who may run something does. Which command the operator settles on is `goal`,
chosen at the start; at most `others` runs of other commands come in between, and at
most `faults` crashes and edits, of which only one is an edit. Without these bounds
nothing could be promised: an operator who always runs the wrong part, or always kills
the process, completes nothing. Fairness of the chain and the process is what an ordinary
chain and computer do; fairness of the operator is the "just run it again" that the
scripts' early returns and comparisons are written for.

Deadlock is checked in every run of the contracts: some call is always possible. It is
not in `deployment`, where a run of everything is no longer started once there are
`MaxContracts` contracts (the DNS registrar is deployed anew by every run, being
told the address of the one before).

| run | what it shows | bounds, and why they are enough |
|---|---|---|
| `masterchef` | The ledger pays what was earned, no more and no less but for rounding; debts are covered; only listed tokens carry rewards; it never owes more than one unit for each share update beyond what it holds; a share update pays in full first. | Two holders, four shares, four units of reward, precision 10, six share updates. Four shares among two holders give divisors 1 to 4, of which 3 does not divide the precision, so both the reward per share and the entitlements round. Six updates let the errors of several roundings add up; the bound `BoundedDeficit` is reached. |
| `ownership` | Transfers settle both parties, and as long as no share moves after a reward everyone is paid in full and fairly. | Three accounts and a supply of 3, so parts do not divide evenly and a third party exists beside sender and recipient. |
| `ownership_harvest` | Finding 1. | the same |
| `pool` | The ledger inside the vault mirrors the shares; the vault drives it as its specification allows; an expired pool stays closed. | Two investors with allowances, the asset and a second reward token competing for one place in the table, rewards from a proxy, from premiums and to nobody, a pool that expires at time 2 or is concluded earlier. |
| `pool_price` | Reserve, agreement of withdraw and redeem, no profit in total, no dilution. | One investor, with up to 13 shares and 16 units held at a fee of two fifths: fees and price roundings of all sizes occur, and the fee is large enough for `WaysOutAgree` to be tight. One is enough since the price depends only on supply and holdings. The reserve is a fifth, so that it is not always zero. |
| `pool_open_ended` | Finding 2. | a pool without an expiration |
| `system` | With an asset that calls nobody, purchases and claims go through their life cycle, whether approved by ruling or by signature: nothing is bought or paid twice. A premium is divided without loss. | One name, two claims, one proxy shared by registrar and pool with two disputes, one operator who may sign the purchase and either claim, trust withdrawn and restored, time to the pool's expiration: a ruling and a signature compete for each request. Price 5 in quarters, half of the rest instant: every division rounds. |
| `system_callbacks` | With an asset that calls the parties of a transfer: what is marked is done, and done no more; disputes are not shared nor acted on without a ruling; payment only while covered; terms are kept. | Two names, one of them insured elsewhere, one shared proxy with three disputes, two claims for each name, time to 3 with insurance ending at 2 or at 3: rulings before and after each expiry. Two finalizations within each other (`MaxNesting`): the same request twice, a purchase within a claim and a claim within a purchase. |
| `unmarked_claim` | Finding 3. | as `system_callbacks` |
| `arbitration` | The proxy can pay everyone whatever the outcome; first funders of the winner get everything back; one-sided rounds are won by their side; the outcome stands after the period. | One dispute with three rulings, so that a ruling funded in no round can win; two rounds; two contributors, one of which refuses payments; prices of an appeal and stakes that change between contributions, with divisions that round; contributions of 3 in all, enough for a round that two share on one side, or for a full round and a ruling funded in the next; time for one whole appeal period. |
| `late_funding` | Finding 4. | as `arbitration`, with a period multiplier of one and a half |
| `deployment` | Nothing is deployed twice; at every moment what is wired is what is recorded; a green run of everything leaves a registry with its top level and reverse names; whoever keeps running everything gets every call of `Root` made in its turn, unless a run is killed or edited under way; the scripts that compare before they call converge after any crash; repeated scans archive what can be archived. | Nine deployments, each project where it behaves in a way of its own: `ens` on a network with two faults (crashes at any step, or a crash and an edit) and one run of another command, on one with runs of three other commands, on one that saves nothing and on upstream's mainnet; the diamond with parts run first; the DNS scripts on goerli and mainnet, `TestUnwrap` with every combination of owners of the three wrappers and of itself; the archive with every set of deployments whose artifact cannot be found. Two faults are enough for a crash during the recovery from a crash. |

Symmetry is used over accounts only and only where the accounts are interchangeable;
no liveness is checked with it (`deployment` uses none). Two `CONSTANT` bounds of the same kind occur
throughout: `Max...` in a module limits what TLC explores and is named in a comment;
none of them is a limit of the code, except `MaxAssets`.

## Findings

1. *The owner's token promises rewards it does not hold* (`HarvestPaysPending`).
   `InsuranceOwnershipToken.sol:122-132` harvests for both parties of a transfer and
   then moves the balances, and does not rewrite the debts: `_updateDebt` is defined
   and never called. The recipient's `pendingReward` then counts what the sender was
   already paid. The test expects `harvestAll` to pay exactly what is pending
   (`very-insure/test/Insurance.ts:1001`).
2. *A pool without an expiration pays profit while it takes deposits*
   (`NoProfitWhileOpen`). Deposits read an expiration of 0 as "never", the previews
   of withdrawals as "already". The comment at `InsurancePool.sol:236` and the test
   at `Insurance.ts:615` say otherwise.
3. *A claim is finalized again before it is marked* (`ClaimsPaidOnce`). `executeDispute`
   (`ArbitrationManager.sol:91-97`) marks a dispute after the body, and the body pays the
   recipient (`InsurancePool.sol:414`) with an asset that may be an ERC777 by the comment
   at line 95. Called during the payment, the recipient can have the claim finalized once
   more, while the test says that this reverts (`Insurance.ts:573-574`). The comment at
   `InsurancePool.sol:340-345` describes the order that withdrawals keep for this reason.
   Purchases have the same modifier. What holds with such an asset is `MarkedIsDone`; with
   an asset that calls nobody, `LifecycleSpec`.
4. *A period multiplier above the denominator has an effect* (`OutcomeStands`). The
   comment at `ArbitrableProxy.sol:274` says it has none, since the arbitrator limits
   the appeal period. It limits appeals, and a ruling funded alone needs none: funded
   after the period and before the ruling is executed, it wins. With the default
   multiplier, a half, the outcome stands (run `arbitration`).

## Proofs

TLAPS checks all proofs to the last leaf. Every invariant and every action property that
a passing run checks is a theorem, as are the refinements (`LifecycleSpec` for an asset that
calls nobody); the theorems are listed in
`PROJECT.json`.

### Assumptions

They are named in the modules that declare the constants, and TLC evaluates them in
every run.

* `MasterchefAssumption`, `OwnershipAssumption`: a positive precision (and a positive
  supply of the owner's token), finitely many accounts and tokens, bounds that are
  naturals, a pool that is not one of its own shareholders.
* `PoolAssumption`: the same, positive divisors, a premium's instant part within the
  basis points, and a withdrawal fee of at most a half, which the pool's initialization
  requires (`InsurancePool.sol:108`).
* `VeryInsureAssumption`: shares and fees within the basis points; proxies and
  operators are different addresses, and `"elsewhere"`, which stands for the approver
  of insurances of other pools, is not a proxy.
* `DeploymentAssumption`: each deployment is of one of the four projects, on a network of
  its configuration; upstream's records, and the scripts of `deploy copy`, exist only on
  the networks where upstream deployed.
* `QueueAssumption`: what `Queue` computes from tags and dependencies. A queue names
  scripts, each after the scripts it depends on, and a run without tags leaves out none
  but those that run by name only. That is what hardhat-deploy's resolution of
  dependencies is for; here it is a recursion over the dependencies (data), so it is not
  proved: TLC evaluates the assumption for every command of every deployment of the run.
* `ArbitratorAssumption`, `ProxyAssumption`: amounts and times are naturals, the
  denominator is positive, and the contributors are finitely many.

Two theorems have a hypothesis of their own. `SystemLifecycle` is about an asset that
does not call the parties of a transfer: the run `unmarked_claim` violates the property
with one that does (finding 3). All other theorems about purchases and claims hold for both.
`ProxyOutcomeStands` is about multipliers of the period that do not exceed the
denominator: the run `late_funding` violates the property with a larger one (finding 4).

### Sums

`Arithmetic` proves what `SumFunction` does: the sum is taken over any element first and
the rest afterwards (`SumWithout`), it is monotone and linear, it changes with one value
by the difference. The fold that defines it chooses elements of the set; `SumOfPick`
is the equation of one step, from the existence and uniqueness of the function that the
fold describes (`AddsExists`, `AddsUnique`). Induction is used in the form of a least
counterexample: `NaturalInduction` says that a *set* that contains a number whenever it
contains the smaller ones contains all, and follows from `WFMin`, so no theorem with an
operator parameter is needed.

### The ledger

`InsuranceMasterchefProofs` proves four invariants of the ledger: `TypeOK` (so no
subtraction underflows), `SharesAddUp`, `DebtWithinEntitlement`,
`OnlyListedTokensCarryRewards`. None is inductive alone. The inductive invariant
`LedgerInv` is their conjunction: that the debts are covered after a share update needs
that an unlisted token has none to rewrite, and that a debt may be set to 0 when the
total is 0 needs the types. Every operator on ledgers has a `...Fields` lemma that says
what it changes and a `...KeepsInv` lemma; `NextInv` then has a step for each action. The
sum of the shares is stated there as a cardinality: `Units(shares)` is the set of pairs
of a holder and the number of one of its shares.

`InsuranceMasterchefHistoryProofs` proves what the ledger pays. The argument is
bookkeeping in units of 1/`Precision`, and the inductive invariant `HistoryInv` adds two
sets of books to `LedgerInv`. The first, `Fair`, is for each token and account

    Precision * received + acc * shares  <=  earned + Precision * (debt + updates)

A harvest adds to `received` at most what it adds to `debt`. A distribution adds the
same to `acc * shares` and to `earned`. A share update first harvests, after which
`Precision * received <= earned + Precision * updates` because the debt equals the
entitlement; then it writes as debt the new `acc * shares` rounded down, and what the
rounding loses is less than `Precision`, the price of one more update. It gives
`NoMoreThanEarned`.

The second, `Balanced`, is for all accounts together. It keeps account of the funds: what
was distributed is what was paid and what is held. `Covered` says of what is pending before it is
rounded, `Fine`: all of it is within `Precision` times the funds and the updates, which
gives `BoundedDeficit`; and what an account was paid and has pending covers what it
earned, but for the updates, and for the missing part of the funds. That last part is
what makes `NoLessThanEarned` inductive: a harvest that is capped by the funds empties
them, and what the account loses by that is what was not there for all.

`SettledInFull` is an action property of the same invariant.

### The owner's token

`BooksInv` is simpler, since the supply is fixed and spread over the accounts for good:
the reward per share times the supply is within the total distributed, so all that the
shares can stand for is held or paid (`Conserved`). As long as no share moves, an
account's debt is exactly what it was paid (`Booked`), so what is pending for all is
within the funds and no payment is capped: `FairUntilSharesMove`. Finding 1 is that
`Booked` is lost by the first transfer. `TransferSettlesFirst` needs only `Conserved` and
that harvesting for the sender takes nothing from what is pending for the receiver.

### The vault

`InsurancePoolProofs` uses the ledger's lemmas by `INSTANCE`, as the vault uses the
ledger. Its inductive invariant `VaultInv` has the vault's types and `SharesInv`: the
ledger's shares are the vault's balances, and the ledger satisfies `LedgerInv`. The two
are proved together because each needs the other: the ledger's precondition that an
account has the shares it gives up is the vault's check of its own balance.

Most of what is promised to investors follows from the shape of a step and not from the
action that takes it. `Priced` lists the shapes: shares are bought one for one while the
pool is open; given up at a price that is `Fair` (assets * (supply + 1) <= shares *
(held + 1)); money comes in for nobody's shares; a claim leaves the reserve; time passes
or the pool is concluded. Each action is shown to have one of the shapes, by lemmas on
`PreviewWithdraw` and `PreviewRedeem` about rounding; then `LeaversDiluteNobody`,
`ReserveHolds`, `ExpiredForGood` and `NoProfitInTotal` are proved from the shapes.

`PoolCallsLedger` is the refinement: each step of the vault is a step of the ledger's
specification or leaves the ledger alone.

The proof of `WaysOutAgree` corrected it. Its first form, in which withdrawing what a
redemption pays costs at most one share more than was redeemed, held at a fee of a
twentieth for every amount the run tried; the proof stopped at two roundings up in a row, and at
a fee of two fifths a supply of 10 and holdings of 7 need two. The property now says two, and
`pool_price` has that fee.

### Purchases and claims

`SystemUsesVault` shows that the system implements the vault: the amounts it pays in and
out are ones the vault's specification allows. So every theorem about the vault holds of
it inside the system (`SystemKeepsVault` names them).

The rest follows from `SystemInv`, which adds to `VaultInv` where each request stands:
each request and claim that was filed with a proxy has a number that the proxy has given
out, and no two have the same (`OwnDisputes`); what registrar or pool has acted on, or is
acting on, is a ruling for the request (`RuledFor`); each call under way is for a request
or a claim with the dispute it names, and one that is to mark has collected or paid
(`CallsOpen`); and when a premium was collected or a claim paid, the dispute is marked or
a call under way will mark it (`BoughtOnce`, `PaidOnce`). `OwnDisputes` is what the others
need: a mark for one request must not be the mark of another's.

`SystemMarks` is about calls within each other. By `CallsOpen` a mark is set only after a
collection or a payment, which gives `MarkedWasDone`. Once a dispute is marked no
finalization of its request begins, and those under way only become fewer: a claim has its
payments behind it when its mark is set, and a request may still have collections to come
from calls that began before, which `Bought` leaves out.

`SystemLifecycle` is the refinement of `InsuranceLifecycle`, action by action. Its
hypothesis makes one call follow the other, and then `BoughtOnce` and `PaidOnce` say more:
a premium that was collected is the only one for its name, and so with a claim's payment.

### The proxy

`ArbitrableProxyProofs` proves that the proxy can pay. A round is paid for by nobody, for
one ruling or for two (`RoundInv`), and its rewards are accordingly nothing, what that
ruling was paid, or something between what the first was paid and what both were: what the
second was paid covers the price of the appeal, whatever the price and the multipliers
were when the first was paid. With that, what can be withdrawn of a round, whatever wins,
is within its pot, the rewards and what was paid for rulings that are not funded
(`OwedWithinPot`; the shares of the rewards round down and add up to no more than the
rewards, `SharesOfWhole`).

The claim of a dispute is the sum of its pots as long as it is not ruled, and what can
be withdrawn of it afterwards. The inductive invariant `ProxyInv` says that the claims
of all disputes together are within the balance (`Books`), and that every dispute has its
case at the arbitrator, which is over when the dispute is ruled (`Courts`). A payment adds
to the pot no more than to the balance; an appeal takes its price from both; a ruling
never raises the claim; a withdrawal takes out of the claim what it pays. `Courts` is
needed because a ruling that is paid for in a dispute whose winner is known would
change who shares the rewards. A contribution to such a dispute is possible when the
multiplier is 0, but it never completes a payment, since the arbitrator's price for a
case that is over is more than anyone pays (`NotPayable`); it is owed to its sender.

`Solvent`, `FirstFundersLoseNothing` and `OneSidedRoundsAreWon` follow. `OutcomeStands`
is an action property: after the period the only step that touches the case or the rounds
is its execution, which decides what was expected.

### Between the contracts and the proxy

Registrar and pool read nothing of a proxy but `isRuled` and `ruling`
(`ArbitrationManager.sol:73-79`). `ProxyArbitrates` shows that, read in this way, every
behaviour of `ArbitrableProxy` is one of `Arbitration`: creations number the disputes in
order, and a ruling, once in, stays. The step that matters is `rule`, which must concern the
dispute of its case (`LocalOfCase`, from `Courts`: the arbitrator numbers the cases of
others too) and give a ruling there is, funded or not. What the contracts keep of a
dispute is the number of its case, while `VeryInsure` and `Arbitration` have the number of
the dispute: `ProxyFindsDisputes` shows that `externalIDtoLocalID` leads back from the one
to the other, since no two disputes have the same case (`OwnCases`).

`SystemArbitrates` shows that what `VeryInsure` has in place of each proxy is `Arbitration`
as well, and `AnyRulingMayCome` that it does not choose: any ruling that `Arbitration`
allows, at any moment, is a step of the system. So the theorems about purchases and claims
do not depend on how rulings come about. Two things differ. Disputes that others create
at a proxy are steps of `Arbitration` and not of `VeryInsure`; no request has their
numbers, and the contracts only compare numbers. And the two models are not composed in a
run, since neither side reads more of the other than `Arbitration` shows.

### The deployment

`HardhatDeployProofs` is about any set of deployments, any number of runs of any commands
and of crashes, and an edit of any source; TLC has nine deployments and two faults.

*Scripts.* The scripts are data, and what the proofs need of them is shown of each once.
A script calls only what it was `Told` of by an earlier step, which read its record or
deployed it (`SoundScript`, `WiredScript`), and every script that deploys a contract gives
it the same arguments (`ArgsOf`). For the last theorem, about `ens` alone, the order of
what its scripts do to the registry is added (`OrderedScript`). No lemma about a run opens
a script.

*Process and chain.* `DeployInv` says where records and transactions point (`ChainInv`),
and what a process knows at a step: all that the steps before it read or deployed is
recorded, and what it waits for is what it sent (`ProcessInv`). A creation is the last
transaction of the pool and is the one noted as pending. All actions are reduced to eight
kinds of step: keep, forget, restart, record, mine, edit, call, deploy. The invariants that
follow have one lemma for each kind, not one for each of the 23 actions. `TypeOK` follows.

*Nothing is deployed twice.* The hard case is a contract that was replaced, because an
argument of its constructor was, and that would fit again if that argument's record went
back to the old address. It does not: the addresses that records hold only grow, since the
chain numbers contracts as it creates them. `FreshInv` says that a contract's arguments
are at or below what is on record now (`Dated`), and that one that still fits is on record
or just mined and pending (`Kept`). So a deployment is sent only when no contract fits.
Wrappers of the testnet, which no script deploys, are exempt from the second part.

*What is wired is recorded.* While nothing is edited a record is for good: the script would
deploy the same again, since the arguments are recorded before and stay where they are
(`RecordsLast`), and what is pending has no record yet (`UnsavedNew`). So a transaction in
the pool still names recorded contracts when it is mined, after any number of crashes
(`CallsRecorded`), and so does storage.

*Green runs.* `GreenRunsHaveReverseNames` holds although calls are lost in crashes, edits
replace contracts, and no script looks at the registry. Three facts carry it. The
registry's script is remembered when it ends, and everything that names the registry
depends on it, so that there is one registry once it is remembered (`RegistryStands`).
`Root` accepts no number twice and none out of turn, and the call numbered 0 sets the top
level: any nonce but 0 means that the top level is set (`NoncesCount`), and `addr.reverse`
cannot be set without `reverse` (`ReverseFollows`). And the name wrapper's constructor
reverts without `addr.reverse` (`WrapperClaimed`), while the script of the wrapper cannot
be left without its record; `QueueInv` says that a run of everything has it recorded or
still to come. The run checks the invariant with two faults; the proof shows that no
number of crashes breaks it, and that the second constructor that reverts, the resolver's,
is not needed.

### Only model-checked

* `DeploymentCompletes`, `SettingsConverge` and `ArchiveConverges`, which are liveness
  under `Fairness`: the prover has no `ENABLED`.
* What `Queue` computes (`QueueAssumption` above): induction over data.
* The four findings, which are counterexamples.

## What is not modelled

`PROJECT.json` lists every component with its status. Not yet modelled: deployment of
pools, fee setters and roles of the registrar; records and KYC of names; the contracts of
the ENS fork, of which only owners, nonces and the slots that scripts set appear in
`HardhatDeploy`. Not to be modelled: the vendored Ethereum Attestation Service, diamond
selector routing, DNSSEC and wire formats, universal resolvers (views and encodings), the
test doubles of the registry, the scripts of `deploy copy` that no longer fit the
contracts, sample files, and the part of `seed` that is never reached.

What the `deployment` run does not promise: after a crash between a deployment and its
calls nothing in the scripts repairs the wiring, since the next run returns at
`newlyDeployed`. `DeploymentCompletes` excludes this case, and `GreenRunsHaveReverseNames`
says what remains true: two constructors look for the reverse registrar, so that a run of
everything cannot end without an error as long as it is not assigned. The later calls,
nonces 3 to 6, have no such guard. In the diamond, two calls to the name wrapper registry
are never made where `Root` owns it.

## Plan

Done: the ledger, the owner's token, the vault, purchases and claims with arbitration
and signatures, in this order since each composes the ones before; the arbitrable
proxy with its arbitrator; the deployment scripts and tasks with crashes, reruns and
liveness. Proved: every safety property that the runs check.

Left, in this order:

1. `InsuranceRegistrarFees`: several pools, the four fee setters, the owner's limit
   and deployment. Property: how fees in force and their limits relate.
2. `WhitelistRegistrarController` over `BaseRegistrar`: registration, renewal, grace
   period, the whitelist's signatures; then `EASAttestator`'s versioned records.
