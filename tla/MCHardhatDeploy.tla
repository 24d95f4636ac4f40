--------------------------- MODULE MCHardhatDeploy ---------------------------
EXTENDS HardhatDeploy

Deployment(project, network, upstream, commands, edits, maxFaults, maxOthers) ==
    [project |-> project, network |-> network, upstream |-> upstream,
     commands |-> commands, edits |-> edits, faults |-> maxFaults,
     others |-> maxOthers]

\* Each project where it behaves in a way of its own.
MCDeployments ==
    {Deployment("ens", "base_goerli", FALSE,
                {{}, {"ReverseRegistrar"}, {"NameWrapper"}},
                {"ReverseRegistrar", "OptiDomains"}, 2, 1),
     Deployment("ens", "optimism", FALSE,
                {{}, {"registry"}, {"ReverseRegistrar"}, {"NameWrapper"}}, {}, 1, 2),
     Deployment("ens", "localhost", FALSE, {{}, {"NameWrapper"}},
                {"PublicResolver"}, 2, 1),
     Deployment("ens", "mainnet", TRUE, {{}}, {"PublicResolver"}, 2, 0),
     Deployment("diamond", "gnosis_testnet", FALSE,
                {{}, {"PublicResolverFacet"}, {"scripts/facetcut"}},
                {"NameWrapperRegistry", "PublicResolverFacet"}, 2, 1),
     Deployment("dns", "goerli", TRUE, {{}, {"dnsregistrar"}}, {}, 1, 0),
     Deployment("dns", "goerli", TRUE, {{"TestUnwrap"}}, {"TestUnwrap"}, 2, 0),
     Deployment("dns", "mainnet", TRUE, {{"dnssec-oracle"}},
                {"SHA256Digest"}, 2, 0),
     Deployment("tasks", "optimism_goerli", FALSE,
                {{"archive-scan"}, {"save"}, {"seed"}}, {}, 2, 1)}
=============================================================================
