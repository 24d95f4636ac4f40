------------------------------- MODULE HardhatDeploy -------------------------------
\* The runs of the hardhat projects of this repository. An operator starts hardhat
\* again and again; a process executes one script after the other, sends transactions
\* of one account and records what it deploys; it may be killed at any moment, and
\* what it has sent is mined all the same. The next run knows only the records.
EXTENDS EnsDeployment, DiamondDeployment, DnsDeployment, HardhatTasks, Integers,
        SequencesExt

CONSTANTS
    Deployments,  \* what may be run where: project, network, commands, whether
                  \* upstream has deployed there; and the bounds: the sources that
                  \* are edited, the faults (crashes, and one edit), the runs of
                  \* other commands than the one the operator settles on
    MaxContracts  \* no run of everything starts with this many contracts

ASSUME DeploymentAssumption ==
    /\ MaxContracts \in Nat
    /\ \A d \in Deployments :
          /\ d.project \in {"ens", "diamond", "dns", "tasks"}
          /\ d.network \in DOMAIN IF d.project = "diamond" THEN DiamondNetworks
                                                          ELSE EnsNetworks
          /\ d.upstream \/ d.project = "dns" => d.network \in DOMAIN RecordedIds
          /\ d.faults \in Nat /\ d.others \in Nat

VARIABLES
    \* what is run, and the command the operator will not tire of
    deployment, goal, others, faults,
    \* the directory of the project: sources, records, remembered scripts, the
    \* deployment that was sent and not recorded, the archive
    changed, records, migrations, unsaved, archive, unresolvable,
    \* the chain
    contracts, storage, mempool, receipt,
    \* the process
    outcome, command, queue, pc, waiting

setup == <<deployment, goal, unresolvable>>
directory == <<records, migrations, unsaved, archive>>
chain == <<contracts, storage, mempool, receipt>>
process == <<outcome, command, queue, pc, waiting>>
operator == <<others, faults, changed>>
vars == <<setup, directory, chain, process, operator>>

-------------------------------------------------------------------------------
\* The scripts of a project, and the queue a command makes of them.

Project == deployment.project

NetworkOf(d) ==
    IF d.project = "diamond" THEN DiamondNetworks[d.network]
                             ELSE EnsNetworks[d.network]

Network == NetworkOf(deployment)

Saves == Network.saves

ScriptsOf ==
    [d \in Deployments |->
        CASE d.project = "ens" -> EnsScripts
          [] d.project = "diamond" -> DiamondScripts
          [] d.project = "dns" -> DnsScripts("test" \in NetworkOf(d).tags)
          [] d.project = "tasks" -> TaskScripts]

Scripts == ScriptsOf[deployment]

\* What a run without tags leaves out.
ByName == {"scripts/facetcut"}

Asked(scripts, tags) ==
    SelectSeq([i \in DOMAIN scripts |-> i],
              LAMBDA i : IF tags = {} THEN scripts[i].tags \intersect ByName = {}
                                      ELSE scripts[i].tags \intersect tags # {})

Needed(scripts, i) ==
    FlattenSeq([d \in DOMAIN scripts[i].dependencies |->
                   Asked(scripts, {scripts[i].dependencies[d]})])

\* The queue a command makes: a script comes after the scripts it depends on, once.
Queue(scripts, tags) ==
    LET Queued[i \in Nat, q \in Seq(Nat)] ==
            IF Contains(q, i)
            THEN q
            ELSE Append(FoldLeft(LAMBDA r, j : Queued[j, r], q, Needed(scripts, i)), i)
    IN  FoldLeft(LAMBDA q, i : Queued[i, q], <<>>, Asked(scripts, tags))

QueueOf ==
    [d \in Deployments |-> [tags \in d.commands |-> Queue(ScriptsOf[d], tags)]]

\* The dependencies of no script lead back to it, so that a queue is one: every script in
\* it comes after the scripts it depends on, and a run without tags leaves out none.
ASSUME QueueAssumption ==
    \A d \in Deployments : \A tags \in d.commands :
        LET scripts == ScriptsOf[d]
            order == QueueOf[d][tags]
        IN  /\ order \in Seq(DOMAIN scripts)
            /\ \A k \in DOMAIN order : \A i \in DOMAIN scripts :
                  scripts[i].tags \intersect Range(scripts[order[k]].dependencies) # {}
                      => \E j \in 1 .. k - 1 : order[j] = i
            /\ tags = {} =>
                  \A i \in DOMAIN scripts :
                      scripts[i].tags \intersect ByName = {} => i \in Range(order)

-------------------------------------------------------------------------------
\* Addresses, sources and records.

Nowhere == 0

Address(name) ==
    IF name \in DOMAIN records
    THEN records[name].at
    ELSE IF Contains(Wrappers, name)
         THEN CHOOSE a \in DOMAIN contracts : contracts[a].name = name
         ELSE Nowhere

Source(name) == IF name \in changed THEN "changed" ELSE "first"

Arguments(names) == [i \in DOMAIN names |-> Address(names[i])]

\* The recorded deployment was made from these sources with these arguments, as far
\* as the record tells.
UpToDate(name, args) ==
    /\ name \in DOMAIN records
    /\ \/ deployment.upstream /\ records[name].source = "upstream"
             /\ name \in WithoutTransaction[deployment.network]
       \/ records[name].source = Source(name) /\ records[name].args = args

\* The function that is v at x and f elsewhere.
With(f, x, v) == [y \in DOMAIN f \union {x} |-> IF y = x THEN v ELSE f[y]]

WithRecord(name, record) == With(records, name, record)

-------------------------------------------------------------------------------
\* The chain. It mines the transactions of the account in the order they were sent.

\* Slots that hold a set of addresses; the others hold the last one set.
Mappings == {"controllers", "whitelisted", "approvedWrapper"}

Slot(a, slot) == IF <<a, slot>> \in DOMAIN storage THEN storage[<<a, slot>>] ELSE {}

Holds(a, slot, value) == Address(value) \in Slot(a, slot)

\* Mutant of ClaimsReverse: no constructor does.
NoneClaimReverse == {}

\* Constructors that claim a reverse name revert until there is a registrar for it.
ClaimsReverse == {"OptiDomains", "PublicResolver"}

\* Contracts that give themselves to the owner of the registry's root, which is Root.
OwnedByRoot ==
    {"ENSRegistry", "BaseRegistrarImplementation", "ReverseRegistrar", "OptiDomains",
     "WhitelistRegistrarController", "NameWrapperRegistry"}

OwnerOf(name) ==
    IF name \in OwnedByRoot THEN "root"
    ELSE IF name = "Root" THEN "signer" ELSE "account"

Contract(name, source, args, owner) ==
    [name |-> name, source |-> source, args |-> args, owner |-> owner, nonce |-> 0]

\* Root verifies its owner's signature over its current nonce, and calls; the account
\* can call what it owns. A registry gives a subnode only to the owner of its node,
\* and a diamond has the functions that were cut into it.
Accepts(tx) ==
    IF tx.root # Nowhere
    THEN /\ contracts[tx.root].nonce = tx.nonce
         /\ contracts[tx.to].owner = "root"
         /\ tx.slot = "addr.reverse" => Slot(tx.to, "reverse") = {tx.root}
    ELSE /\ contracts[tx.to].owner = "account"
         /\ tx.fresh => Slot(tx.to, tx.slot) = {}
         /\ tx.slot = "whitelisted" => Slot(tx.to, "auth") # {}

Creates(tx) ==
    tx.name \in ClaimsReverse => Slot(tx.args[1], "addr.reverse") # {}

Failed == [ok |-> FALSE, at |-> Nowhere]
Succeeded(a) == [ok |-> TRUE, at |-> a]

MineCreation(tx) ==
    /\ tx.kind = "create"
    /\ IF Creates(tx)
       THEN /\ contracts' = Append(contracts, Contract(tx.name, tx.source, tx.args,
                                                       OwnerOf(tx.name)))
            /\ receipt' = Succeeded(Len(contracts) + 1)
       ELSE /\ receipt' = Failed
            /\ UNCHANGED contracts
    /\ UNCHANGED storage

MineCall(tx) ==
    /\ tx.kind = "call"
    /\ IF Accepts(tx)
       THEN /\ storage' = With(storage, <<tx.to, tx.slot>>,
                              IF tx.slot \in Mappings
                              THEN Slot(tx.to, tx.slot) \union {tx.value}
                              ELSE {tx.value})
            /\ contracts' = IF tx.root = Nowhere THEN contracts
                            ELSE [contracts EXCEPT ![tx.root].nonce = @ + 1]
            /\ receipt' = Succeeded(tx.to)
       ELSE /\ receipt' = Failed
            /\ UNCHANGED <<contracts, storage>>

Mine ==
    /\ mempool # <<>>
    /\ \/ MineCreation(Head(mempool))
       \/ MineCall(Head(mempool))
    /\ mempool' = Tail(mempool)
    /\ UNCHANGED <<setup, directory, process, operator>>

-------------------------------------------------------------------------------
\* Initial states.

None == <<>>

\* What is on the chain before the first run: the contracts ens/ deployed, or those
\* upstream did. Of the wrappers of the testnet, and of the contract they are to be
\* upgraded to, the accounts own some.
Existing(ours) ==
    LET All(names, source, owner) ==
            [i \in DOMAIN names |-> Contract(names[i], source, <<>>, owner)]
        Whose(name) == IF name \in ours THEN "account" ELSE "other"
    IN  CASE Project = "diamond" ->
               [i \in DOMAIN CopiedRecords |->
                   Contract(CopiedRecords[i], "first", <<>>,
                            OwnerOf(CopiedRecords[i]))]
          [] Project = "ens" ->
               IF deployment.upstream
               THEN All(UpstreamRecords, "upstream", "other") ELSE <<>>
          [] Project = "dns" ->
               All(UpstreamDnsRecords, "upstream", "other")
               \o [i \in DOMAIN Wrappers |->
                      Contract(Wrappers[i], "upstream", <<>>, Whose(Wrappers[i]))]
               \o (IF "TestUnwrap" \in ours THEN <<>>
                   ELSE <<Contract("TestUnwrap", "first", <<1, 3>>, "other")>>)
          [] Project = "tasks" -> All(ArchivedNames, "first", "root")

RecordsOf(cs) ==
    [n \in {cs[a].name : a \in DOMAIN cs} |->
        LET a == CHOOSE a \in DOMAIN cs : cs[a].name = n
        IN  [at |-> a, source |-> cs[a].source, args |-> cs[a].args]]

NoRecords == RecordsOf(<<>>)

\* What upstream has wired: a reverse registrar, and perhaps the top-level domains.
Wired(domains) ==
    CASE Project = "ens" /\ deployment.upstream ->
           [d \in {<<2, "reverse">>, <<2, "addr.reverse">>} |->
               IF d[2] = "reverse" THEN {1} ELSE {4}]
      [] Project = "dns" -> [d \in {<<1, "tlds">>} |-> domains]
      [] OTHER -> [d \in {} |-> {}]

Init ==
    /\ deployment \in Deployments
    /\ goal \in deployment.commands
    /\ unresolvable \in IF Project = "tasks" THEN SUBSET Range(ArchivedNames) ELSE {{}}
    /\ \E ours \in IF goal = {"TestUnwrap"}
                   THEN SUBSET (Range(Wrappers) \union {"TestUnwrap"})
                   ELSE {Range(Wrappers) \union {"TestUnwrap"}} :
          contracts = Existing(ours)
    /\ \E domains \in IF goal = {"dnsregistrar"} THEN {{}, {4}} ELSE {{4}} :
          storage = Wired(domains)
    /\ records = [n \in DOMAIN RecordsOf(contracts) \ Range(Wrappers) |->
                     RecordsOf(contracts)[n]]
    /\ migrations = IF Project = "dns" \/ deployment.upstream
                    THEN RecordedIds[deployment.network] ELSE {}
    /\ unsaved = None
    /\ archive = [n \in {} |-> "empty"]
    /\ mempool = <<>>
    /\ receipt = Failed
    /\ outcome = "idle" /\ command = {} /\ queue = <<>> /\ pc = 1 /\ waiting = FALSE
    /\ others = 0 /\ faults = 0 /\ changed = {}

-------------------------------------------------------------------------------
\* Beginning and end of a run.

Running == outcome = "running"

\* Between two steps, and no longer occupied with what an earlier run has sent.
Ready == Running /\ ~waiting /\ unsaved = None

Rest(result) ==
    /\ outcome' = result
    /\ queue' = <<>> /\ pc' = 1 /\ waiting' = FALSE

\* A run knows what is recorded. Where nothing is, everything starts anew on a chain
\* that mines at once, and what was there before is of no consequence.
Run(tags) ==
    /\ ~Running
    /\ tags \in deployment.commands
    /\ IF tags = goal THEN UNCHANGED others
       ELSE others < deployment.others /\ others' = others + 1
    /\ tags = {} => Len(contracts) < MaxContracts
    /\ Saves \/ mempool = <<>>
    /\ IF Saves THEN UNCHANGED <<directory, chain>>
       ELSE /\ records' = NoRecords /\ migrations' = {}
            /\ contracts' = <<>> /\ storage' = NoRecords
            /\ UNCHANGED <<unsaved, archive, mempool, receipt>>
    /\ outcome' = "running" /\ command' = tags /\ queue' = QueueOf[deployment][tags] /\ pc' = 1
    /\ UNCHANGED <<setup, faults, changed, waiting>>

\* Mutant of Adopt: what was under way is waited for and not recorded.
AdoptNothing ==
    /\ Running /\ ~waiting
    /\ unsaved # None
    /\ mempool = <<>>
    /\ unsaved' = None
    /\ UNCHANGED <<setup, records, migrations, archive, chain, process, operator>>

\* The process waits for a deployment that was sent before and never recorded.
Adopt ==
    /\ Running /\ ~waiting
    /\ unsaved # None
    /\ mempool = <<>>
    /\ records' = IF receipt.ok
                  THEN WithRecord(unsaved[1].name,
                                  [at |-> receipt.at, source |-> unsaved[1].source,
                                   args |-> unsaved[1].args])
                  ELSE records
    /\ unsaved' = None
    /\ UNCHANGED <<setup, migrations, archive, chain, process, operator>>

EndRun ==
    /\ Ready
    /\ queue = <<>>
    /\ Rest("done")
    /\ UNCHANGED <<setup, directory, chain, command, operator>>

Current == Scripts[Head(queue)]

SkipScript ==
    /\ Ready
    /\ queue # <<>> /\ pc = 1
    /\ Current.id \in migrations
    /\ queue' = Tail(queue)
    /\ UNCHANGED <<setup, directory, chain, outcome, command, pc, waiting, operator>>

EndScript ==
    /\ Ready
    /\ queue # <<>> /\ pc > Len(Current.steps)
    /\ Current.id \notin migrations
    /\ queue' = Tail(queue) /\ pc' = 1
    /\ migrations' = IF Current.remembered THEN migrations \union {Current.id}
                                           ELSE migrations
    /\ UNCHANGED <<setup, records, unsaved, archive, chain, outcome, command, waiting,
                   operator>>

-------------------------------------------------------------------------------
\* The steps of a script.

This == Current.steps[pc]

AtStep(op) ==
    /\ Running /\ unsaved = None
    /\ queue # <<>> /\ pc <= Len(Current.steps)
    /\ Current.id \notin migrations
    /\ This.op = op

Before(op) == ~waiting /\ AtStep(op)
\* What was sent has been mined.
After(op) == waiting /\ AtStep(op) /\ mempool = <<>>

Advance(n) == pc' = pc + n /\ UNCHANGED <<outcome, command, queue>>
Leave == queue' = Tail(queue) /\ pc' = 1 /\ UNCHANGED <<outcome, command>>
Throws == Rest("failed") /\ UNCHANGED command
Submit(tx) == mempool' = Append(mempool, tx) /\ UNCHANGED <<contracts, storage, receipt>>

GetRecords ==
    /\ Before("get")
    /\ IF This.names \subseteq DOMAIN records
       THEN Advance(1) /\ UNCHANGED waiting ELSE Throws
    /\ UNCHANGED <<setup, directory, chain, operator>>

LeaveNetwork ==
    /\ Before("leave")
    /\ IF deployment.network \in This.networks THEN Leave ELSE Advance(1)
    /\ UNCHANGED <<setup, directory, chain, waiting, operator>>

\* A deployment that is recorded and up to date is not made again.
KeepDeployed ==
    /\ Before("deploy")
    /\ UpToDate(This.name, Arguments(This.args))
    /\ IF This.once THEN Leave ELSE Advance(1)
    /\ UNCHANGED <<setup, directory, chain, waiting, operator>>

SendDeployment ==
    /\ Before("deploy")
    /\ ~UpToDate(This.name, Arguments(This.args))
    /\ LET creation == [name |-> This.name, source |-> Source(This.name),
                        args |-> Arguments(This.args)]
       IN  /\ Submit([kind |-> "create", name |-> creation.name,
                      source |-> creation.source, args |-> creation.args])
           /\ unsaved' = <<creation>>
    /\ waiting' = TRUE
    /\ UNCHANGED <<setup, records, migrations, archive, outcome, command, queue, pc,
                   operator>>

\* Mutant of SaveDeployment: the receipt is not looked at.
SaveUnchecked ==
    /\ Running /\ waiting
    /\ unsaved # None
    /\ mempool = <<>>
    /\ unsaved' = None
    /\ records' = WithRecord(unsaved[1].name,
                             [at |-> receipt.at, source |-> unsaved[1].source,
                              args |-> unsaved[1].args])
    /\ Advance(1) /\ waiting' = FALSE
    /\ UNCHANGED <<setup, migrations, archive, chain, operator>>

SaveDeployment ==
    /\ Running /\ waiting
    /\ unsaved # None
    /\ mempool = <<>>
    /\ unsaved' = None
    /\ IF receipt.ok
       THEN /\ records' = WithRecord(unsaved[1].name,
                                     [at |-> receipt.at, source |-> unsaved[1].source,
                                      args |-> unsaved[1].args])
            /\ Advance(1) /\ waiting' = FALSE
       ELSE Throws /\ UNCHANGED records
    /\ UNCHANGED <<setup, migrations, archive, chain, operator>>

CallOf(root, nonce, fresh) ==
    [kind |-> "call", root |-> root, nonce |-> nonce, to |-> Address(This.to),
     slot |-> This.slot, value |-> Address(This.value), fresh |-> fresh]

SendCall ==
    /\ Before("call")
    /\ Submit(CallOf(Nowhere, 0, This.fresh))
    /\ waiting' = TRUE
    /\ UNCHANGED <<setup, directory, outcome, command, queue, pc, operator>>

\* The Root of upstream has no function execute.
ExecuteByRoot ==
    /\ Before("execute")
    /\ IF deployment.upstream
       THEN Throws /\ UNCHANGED chain
       ELSE /\ Submit(CallOf(Address("Root"), This.nonce, FALSE))
            /\ waiting' = TRUE
            /\ UNCHANGED <<outcome, command, queue, pc>>
    /\ UNCHANGED <<setup, directory, operator>>

SendUnlessSet ==
    /\ Before("send")
    /\ IF Holds(Address(This.to), This.slot, This.value)
       THEN UNCHANGED chain
       ELSE Submit(CallOf(Nowhere, 0, FALSE))
    /\ Advance(1)
    /\ UNCHANGED <<setup, directory, waiting, operator>>

CallUnlessSet ==
    /\ Before("ensure")
    /\ IF \/ Holds(Address(This.to), This.slot, This.value)
          \/ contracts[Address(This.to)].owner # "account"
       THEN Advance(1) /\ UNCHANGED <<chain, waiting>>
       ELSE /\ Submit(CallOf(Nowhere, 0, FALSE))
            /\ waiting' = TRUE
            /\ UNCHANGED <<outcome, command, queue, pc>>
    /\ UNCHANGED <<setup, directory, operator>>

\* tx.wait() returns, or throws when the transaction was reverted.
Mined ==
    /\ \E op \in {"call", "execute", "ensure"} : After(op)
    /\ IF receipt.ok THEN Advance(1) /\ waiting' = FALSE ELSE Throws
    /\ UNCHANGED <<setup, directory, chain, operator>>

SettleAll ==
    /\ Before("settle")
    /\ mempool = <<>>
    /\ Advance(1)
    /\ UNCHANGED <<setup, directory, chain, waiting, operator>>

RequireSet ==
    /\ Before("require")
    /\ IF Holds(Address(This.to), This.slot, This.value)
       THEN Advance(1) /\ UNCHANGED waiting ELSE Throws
    /\ UNCHANGED <<setup, directory, chain, operator>>

\* The artifact of a deployment is looked up first, which throws for some. It throws
\* for all in diamond-resolver/, whose configuration names no archive.
MakeArchive ==
    /\ Before("mkdir")
    /\ LET known == This.name \in DOMAIN archive
       IN  /\ IF known /\ This.scanning THEN Advance(2) /\ UNCHANGED waiting
              ELSE IF known \/ This.name \in unresolvable THEN Throws
              ELSE Advance(1) /\ UNCHANGED waiting
           /\ archive' = IF known \/ This.name \in unresolvable THEN archive
                         ELSE With(archive, This.name, "empty")
    /\ UNCHANGED <<setup, records, migrations, unsaved, chain, operator>>

WriteArchive ==
    /\ Before("write")
    /\ archive' = [archive EXCEPT ![This.name] = "written"]
    /\ Advance(1)
    /\ UNCHANGED <<setup, records, migrations, unsaved, chain, waiting, operator>>

\* No file: a warning and nothing else. A file: an error, sooner or later.
ReadEnvironmentFile ==
    /\ Before("environment")
    /\ \/ Leave /\ UNCHANGED waiting
       \/ Throws
    /\ UNCHANGED <<setup, directory, chain, operator>>

-------------------------------------------------------------------------------
\* Faults, and the whole.

\* The process is killed. What it has sent stays sent.
Crash ==
    /\ Running
    /\ faults < deployment.faults
    /\ faults' = faults + 1
    /\ Rest("crashed")
    /\ unsaved' = IF Saves THEN unsaved ELSE None
    /\ UNCHANGED <<setup, records, migrations, archive, chain, command, others, changed>>

\* The source of a contract is edited between two runs.
Edit(name) ==
    /\ ~Running
    /\ faults < deployment.faults /\ changed = {}
    /\ faults' = faults + 1
    /\ name \in deployment.edits
    /\ changed' = {name}
    /\ UNCHANGED <<setup, directory, chain, process, others>>

Step ==
    \/ Adopt \/ SkipScript \/ EndScript \/ EndRun
    \/ GetRecords \/ LeaveNetwork
    \/ KeepDeployed \/ SendDeployment \/ SaveDeployment
    \/ SendCall \/ ExecuteByRoot \/ SendUnlessSet \/ CallUnlessSet
    \/ Mined \/ SettleAll \/ RequireSet
    \/ MakeArchive \/ WriteArchive \/ ReadEnvironmentFile

Next ==
    \/ \E tags \in deployment.commands : Run(tags)
    \/ Step
    \/ Mine
    \/ Crash
    \/ \E name \in deployment.edits : Edit(name)

Fairness ==
    /\ WF_vars(Step)
    /\ WF_vars(Mine)
    /\ WF_vars(\E tags \in deployment.commands : Run(tags))

Spec == Init /\ [][Next]_vars /\ Fairness

-------------------------------------------------------------------------------
\* Properties.

\* Each variable has its type: records point at contracts of their name, the process
\* is within its scripts, and only a run that goes on waits for anything.
TypeOK ==
    /\ deployment \in Deployments /\ goal \in deployment.commands
    /\ others \in 0 .. deployment.others /\ faults \in 0 .. deployment.faults
    /\ changed \subseteq deployment.edits
    /\ \A n \in DOMAIN records :
          /\ records[n].at \in DOMAIN contracts
          /\ contracts[records[n].at].name = n
    /\ \A d \in DOMAIN storage : d[1] \in DOMAIN contracts
    /\ Len(unsaved) <= 1
    /\ \A n \in DOMAIN archive : archive[n] \in {"empty", "written"}
    /\ outcome \in {"idle", "running", "done", "failed", "crashed"}
    /\ command \in deployment.commands \union {{}}
    /\ queue \in Seq(DOMAIN Scripts)
    /\ pc \in 1 .. 1 + (IF queue = <<>> THEN 0 ELSE Len(Current.steps))
    /\ waiting => Running

\* However often a run is killed, no contract is deployed a second time from the same
\* sources with the same arguments: a deployment that was under way is taken over by
\* the next run, and one that is recorded is kept.
NeverDeployedTwice ==
    Saves =>
        \A a, b \in DOMAIN contracts :
            /\ contracts[a].name = contracts[b].name
            /\ contracts[a].source = contracts[b].source
            /\ contracts[a].args = contracts[b].args
            => a = b

\* Unless a source was edited, no part of the chain points at a contract that the
\* records do not know, or was set on one: what the scripts wire is what is recorded,
\* at every moment of every run and after every crash.
WiringMatchesRecords ==
    LET recorded == {records[n].at : n \in DOMAIN records}
    IN  Project \in {"ens", "diamond"} /\ ~deployment.upstream /\ changed = {} =>
            \A d \in DOMAIN storage : {d[1]} \union storage[d] \subseteq recorded

\* A run of all scripts of ens/ that ends without an error leaves a registry whose top
\* level and whose reverse names are assigned, although no script checks that, and
\* although a run that comes after a crash leaves out calls without an error.
GreenRunsHaveReverseNames ==
    Project = "ens" /\ ~deployment.upstream /\ outcome = "done" /\ command = {} =>
        \A i \in 1 .. 3 : Slot(Address("ENSRegistry"), RootCalls[i][2]) # {}

Complete ==
    \/ /\ Project = "ens"
       /\ \A i \in DOMAIN RootCalls :
             Holds(Address(RootCalls[i][1]), RootCalls[i][2], RootCalls[i][3])
    \/ /\ Project = "diamond"
       /\ LET diamond == Address("DiamondResolver")
          IN  /\ Holds(diamond, "auth", "RegistryWhitelistAuthFacet")
              /\ Holds(diamond, "resolver", "PublicResolverFacet")
              /\ Holds(diamond, "whitelisted", "WhitelistRegistrarController")
              /\ Holds(diamond, "whitelisted", "ReverseRegistrar")

\* Whoever keeps running all scripts gets everything wired, every nonce in its turn,
\* unless something is killed or edited on the way or more than one run of a part came
\* in between. Where nothing is saved, not even that is in the way.
DeploymentCompletes ==
    /\ Project \in {"ens", "diamond"}
    /\ ~deployment.upstream
    /\ goal = {}
    => <>(Complete \/ (Saves /\ (faults > 0 \/ others > 1)))

WrappersUpgrade ==
    /\ "TestUnwrap" \in DOMAIN records
    /\ \A i \in DOMAIN Wrappers :
          LET wrapper == Address(Wrappers[i])
              upgrade == Address("TestUnwrap")
          IN  /\ contracts[wrapper].owner = "account" =>
                    Holds(wrapper, "upgradeContract", "TestUnwrap")
              /\ contracts[upgrade].owner = "account" =>
                    Holds(upgrade, "approvedWrapper", Wrappers[i])

OracleConfigured ==
    LET settings == OracleSettings("test" \in Network.tags)
    IN  \A i \in DOMAIN settings :
            Holds(Address("DNSSECImpl"), settings[i][1], settings[i][2])

\* The scripts that compare before they call end up with every setting made, whatever
\* was killed in whatever state and whatever was edited: the oracle knows the recorded
\* algorithms and digests, and whatever can be set about the wrappers is set.
SettingsConverge ==
    /\ Project = "dns" /\ goal # {"TestUnwrap"} => <>[]OracleConfigured
    /\ Project = "dns" /\ goal = {"TestUnwrap"} /\ deployment.network = "goerli"
           => <>[]WrappersUpgrade

\* Repeated scans archive every deployment that comes before one without an artifact;
\* a crash leaves behind one directory without a file, at most, that no scan and no
\* save will ever fill.
ArchiveConverges ==
    Project = "tasks" /\ goal = {"archive-scan"} =>
        <>[](/\ \A i \in DOMAIN ArchivedNames :
                   (\A j \in 1 .. i : ArchivedNames[j] \notin unresolvable)
                       => ArchivedNames[i] \in DOMAIN archive
             /\ Cardinality({n \in DOMAIN archive : archive[n] = "empty"}) <= faults)
=============================================================================
