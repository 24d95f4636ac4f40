---------------------------- MODULE DiamondDeployment ----------------------------
\* The deploy scripts of diamond-resolver/: a diamond whose functions are added to
\* it facet by facet by its owner, next to a deployment of ens/ whose records have
\* been copied here. A group of selectors is one slot: a cut adds all or none.
EXTENDS DeploymentScripts

DiamondResolverScript ==
    Script("diamond-resolver", {"DiamondResolver"}, <<>>, FALSE,
           <<Get({"ENSRegistry", "OptiDomains"}),
             DeployOnce("NameWrapperRegistry", <<"ENSRegistry">>),
             Deploy("OptiDomainsAttestation", <<"NameWrapperRegistry">>),
             DeployOnce("DiamondResolver", <<"NameWrapperRegistry">>),
             Call("NameWrapperRegistry", "isNameWrapper", "OptiDomains"),
             Call("NameWrapperRegistry", "attestation", "OptiDomainsAttestation")>>)

\* The return after the deployment is commented out.
WhitelistAuthScript ==
    Script("registry-whitelist-auth", {"RegistryWhitelistAuthFacet"}, <<>>, FALSE,
           <<Deploy("RegistryWhitelistAuthFacet", <<>>),
             Get({"DiamondResolver"}),
             Add("DiamondResolver", "auth", "RegistryWhitelistAuthFacet"),
             Get({"WhitelistRegistrarController", "ReverseRegistrar"}),
             Call("DiamondResolver", "whitelisted", "WhitelistRegistrarController"),
             Call("DiamondResolver", "whitelisted", "ReverseRegistrar")>>)

PublicResolverFacetScript ==
    Script("public-resolver", {"PublicResolverFacet"}, <<>>, FALSE,
           <<Deploy("PublicResolverFacet", <<>>),
             Get({"DiamondResolver"}),
             Add("DiamondResolver", "resolver", "PublicResolverFacet")>>)

\* Returns before its first statement.
TestScript ==
    Script("public-resolver", {"PublicResolverFacet"}, <<>>, FALSE, <<>>)

\* scripts/facetcut.ts, run by itself: its addresses, written out in the file, are
\* taken to be those of the recorded diamond and facet.
FacetCutScript ==
    Script("", {"scripts/facetcut"}, <<>>, FALSE,
           <<Get({"DiamondResolver", "PublicResolverFacet"}),
             Add("DiamondResolver", "earthKyc", "PublicResolverFacet")>>)

DiamondScripts ==
    <<DiamondResolverScript, WhitelistAuthScript, PublicResolverFacetScript,
      TestScript, FacetCutScript>>

\* The records of ens/ that the scripts read.
CopiedRecords ==
    <<"Root", "ENSRegistry", "OptiDomains", "WhitelistRegistrarController",
      "ReverseRegistrar">>
=============================================================================
