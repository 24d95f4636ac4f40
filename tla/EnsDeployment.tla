------------------------------ MODULE EnsDeployment ------------------------------
\* The deploy scripts of ens/: the registry, the registrars, the name wrapper and
\* the resolver, wired by calls that Root makes for whoever brings its owner's
\* signature over its next nonce. The scripts count these nonces by hand.
EXTENDS DeploymentScripts

RootScript ==
    Script("root", {"root", "Root"}, <<>>, TRUE,
           <<Deploy("Root", <<>>)>>)

RegistryScript ==
    Script("ens", {"registry", "ENSRegistry"}, <<"Root">>, TRUE,
           <<Get({"Root"}),
             Deploy("ENSRegistry", <<"Root">>)>>)

BaseRegistrarScript ==
    Script("registrar", {"ethregistrar", "BaseRegistrarImplementation"},
           <<"registry", "root">>, FALSE,
           <<Get({"ENSRegistry", "Root"}),
             DeployOnce("BaseRegistrarImplementation", <<"ENSRegistry">>),
             Execute(0, "ENSRegistry", "tld", "BaseRegistrarImplementation")>>)

\* Mutant of ReverseRegistrarScript: the calls come before the deployment.
ReverseRegistrarWiredFirst ==
    Script("reverse-registrar", {"ReverseRegistrar"}, <<"root">>, FALSE,
           <<Get({"ENSRegistry", "Root"}),
             Execute(1, "ENSRegistry", "reverse", "Root"),
             Execute(2, "ENSRegistry", "addr.reverse", "ReverseRegistrar"),
             DeployOnce("ReverseRegistrar", <<"ENSRegistry">>)>>)

ReverseRegistrarScript ==
    Script("reverse-registrar", {"ReverseRegistrar"}, <<"root">>, FALSE,
           <<Get({"ENSRegistry"}),
             DeployOnce("ReverseRegistrar", <<"ENSRegistry">>),
             LeaveOn({"mainnet"}),
             Get({"Root"}),
             Execute(1, "ENSRegistry", "reverse", "Root"),
             Execute(2, "ENSRegistry", "addr.reverse", "ReverseRegistrar")>>)

MetadataScript ==
    Script("metadata", {"wrapper", "OptiDomainsMetadataService"}, <<>>, FALSE,
           <<Deploy("OptiDomainsMetadataService", <<>>)>>)

NameWrapperScript ==
    Script("name-wrapper", {"wrapper", "NameWrapper"},
           <<"BaseRegistrarImplementation", "OptiDomainsMetadataService", "Root",
             "registry">>, FALSE,
           <<Get({"Root", "ENSRegistry", "BaseRegistrarImplementation",
                  "OptiDomainsMetadataService"}),
             DeployOnce("OptiDomains",
                        <<"ENSRegistry", "BaseRegistrarImplementation",
                          "OptiDomainsMetadataService">>),
             LeaveOn({"mainnet"}),
             Execute(3, "BaseRegistrarImplementation", "controllers",
                     "OptiDomains")>>)

ControllerScript ==
    Script("", {"ethregistrar", "ETHRegistrarController"},
           <<"ENSRegistry", "Root", "BaseRegistrarImplementation",
             "ReverseRegistrar", "NameWrapper">>, FALSE,
           <<Get({"ENSRegistry", "Root", "BaseRegistrarImplementation",
                  "ReverseRegistrar", "OptiDomains"}),
             DeployOnce("WhitelistRegistrarController",
                        <<"BaseRegistrarImplementation", "ReverseRegistrar",
                          "OptiDomains">>),
             Execute(4, "OptiDomains", "controllers", "WhitelistRegistrarController"),
             Execute(5, "ReverseRegistrar", "controllers",
                     "WhitelistRegistrarController")>>)

\* Mutant of ResolverScript: one nonce too far.
ResolverMiscounts ==
    Script("resolver", {"resolvers", "PublicResolver"},
           <<"registry", "ETHRegistrarController", "NameWrapper",
             "ReverseRegistrar", "Root">>, FALSE,
           <<Get({"Root", "ENSRegistry", "OptiDomains",
                  "WhitelistRegistrarController", "ReverseRegistrar"}),
             DeployOnce("PublicResolver",
                        <<"ENSRegistry", "OptiDomains",
                          "WhitelistRegistrarController", "ReverseRegistrar">>),
             Execute(7, "ReverseRegistrar", "defaultResolver", "PublicResolver")>>)

ResolverScript ==
    Script("resolver", {"resolvers", "PublicResolver"},
           <<"registry", "ETHRegistrarController", "NameWrapper",
             "ReverseRegistrar", "Root">>, FALSE,
           <<Get({"Root", "ENSRegistry", "OptiDomains",
                  "WhitelistRegistrarController", "ReverseRegistrar"}),
             DeployOnce("PublicResolver",
                        <<"ENSRegistry", "OptiDomains",
                          "WhitelistRegistrarController", "ReverseRegistrar">>),
             Execute(6, "ReverseRegistrar", "defaultResolver", "PublicResolver")>>)

\* Returns before its first statement.
UniversalResolverScript ==
    Script("universal-resolver", {"utils", "UniversalResolver"}, <<"registry">>,
           FALSE, <<>>)

\* In the order of their paths.
EnsScripts ==
    <<BaseRegistrarScript, ControllerScript, RegistryScript,
      ReverseRegistrarScript, ResolverScript, RootScript,
      UniversalResolverScript, MetadataScript, NameWrapperScript>>

\* What the records of the upstream deployments name, of what the scripts read.
UpstreamRecords ==
    <<"Root", "ENSRegistry", "BaseRegistrarImplementation", "ReverseRegistrar",
      "PublicResolver">>

\* The calls Root is meant to make, in the order of their nonces.
RootCalls ==
    <<<<"ENSRegistry", "tld", "BaseRegistrarImplementation">>,
      <<"ENSRegistry", "reverse", "Root">>,
      <<"ENSRegistry", "addr.reverse", "ReverseRegistrar">>,
      <<"BaseRegistrarImplementation", "controllers", "OptiDomains">>,
      <<"OptiDomains", "controllers", "WhitelistRegistrarController">>,
      <<"ReverseRegistrar", "controllers", "WhitelistRegistrarController">>,
      <<"ReverseRegistrar", "defaultResolver", "PublicResolver">>>>
=============================================================================
