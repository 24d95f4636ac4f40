--------------------------- MODULE DeploymentScripts ---------------------------
\* What the hardhat projects of this repository run against a chain: the networks
\* of their configurations and the files of their deploy/, scripts/ and tasks/
\* directories, each as a record. The runner of HardhatDeploy interprets them.
\* A name in an argument or a value stands for the address recorded for it.
EXTENDS Sequences, FiniteSets

-------------------------------------------------------------------------------
\* Networks.

\* The tags the scripts ask for, and whether what a run deploys is remembered by
\* the next one. Every network has the tag use_root.
Tags(tags) == [tags |-> tags \union {"use_root"}, saves |-> TRUE]
Forgetting(n) == [n EXCEPT !.saves = FALSE]

EnsNetworks ==
    [hardhat |-> Forgetting(Tags({"test"})),
     localhost |-> Forgetting(Tags({"test", "legacy"})),
     rinkeby |-> Tags({"test", "legacy"}),
     ropsten |-> Tags({"test", "legacy"}),
     goerli |-> Tags({"test", "legacy"}),
     mainnet |-> Tags({"legacy"}),
     optimism |-> Tags({"test"}),
     optimism_goerli |-> Tags({"test"}),
     base_goerli |-> Tags({"test"})]

DiamondNetworks ==
    [hardhat |-> Forgetting(Tags({"test"})),
     localhost |-> Forgetting(Tags({"test", "legacy"})),
     rinkeby |-> Tags({"test", "legacy"}),
     ropsten |-> Tags({"test", "legacy"}),
     goerli |-> Tags({"test"}),
     mainnet |-> Tags({"legacy"}),
     optimism_goerli |-> Tags({"test"}),
     base_goerli |-> Tags({"test"}),
     polygonzkevm_goerli |-> Tags({"test"}),
     xdc_testnet |-> Tags({"test"}),
     gnosis_testnet |-> Tags({"test"})]

\* The registry directories that came with the fork already record a deployment
\* of the upstream contracts, and the identities of scripts that ran there.
RecordedIds ==
    [mainnet |-> {"ens", "root"},
     ropsten |-> {"ens", "root"},
     goerli |-> {"ens", "root", "registrar", "legacy-controller", "legacy-resolver"}]

\* Of some of these deployments the records hold no transaction to compare with: they
\* count as up to date whatever the sources say.
WithoutTransaction ==
    [mainnet |-> {"Root", "ENSRegistry", "BaseRegistrarImplementation"},
     ropsten |-> {"ENSRegistry", "BaseRegistrarImplementation"},
     goerli |-> {}]

-------------------------------------------------------------------------------
\* The steps a script is made of.

\* getContract, deployments.get: throws when the name has no record.
Get(names) == [op |-> "get", names |-> names]

\* deploy(name, args); "once" when a return follows unless it is newly deployed.
Deploy(name, args) == [op |-> "deploy", name |-> name, args |-> args, once |-> FALSE]
DeployOnce(name, args) == [op |-> "deploy", name |-> name, args |-> args, once |-> TRUE]

\* if (network.name === ...) return
LeaveOn(networks) == [op |-> "leave", networks |-> networks]

\* A call from the account the scripts run under, or by Root on its signed behalf,
\* waited for. "fresh" when it reverts if the slot is set already.
Call(to, slot, value) ==
    [op |-> "call", to |-> to, slot |-> slot, value |-> value, fresh |-> FALSE]
Add(to, slot, value) == [Call(to, slot, value) EXCEPT !.fresh = TRUE]

Execute(nonce, to, slot, value) ==
    [op |-> "execute", nonce |-> nonce, to |-> to, slot |-> slot, value |-> value]

\* A call made only when the slot does not hold the value. Send does not wait for
\* it: Settle waits for all of them. CallUnless is left out when the target
\* belongs to somebody else.
Send(to, slot, value) ==
    [op |-> "send", to |-> to, slot |-> slot, value |-> value]
CallUnless(to, slot, value) ==
    [op |-> "ensure", to |-> to, slot |-> slot, value |-> value]
Settle == [op |-> "settle"]

\* Throws unless the slot holds the value: a call that can only fail is skipped
\* when what it would set is set.
Require(to, slot, value) ==
    [op |-> "require", to |-> to, slot |-> slot, value |-> value]

\* A file: the id under which it is remembered, its tags, its dependencies, whether
\* it returns true at its end, and its steps.
Script(id, tags, dependencies, remembered, steps) ==
    [id |-> id, tags |-> tags, dependencies |-> dependencies,
     remembered |-> remembered, steps |-> steps]
=============================================================================
