------------------------------ MODULE DnsDeployment ------------------------------
\* The scripts of "ens/deploy copy" that can run against this repository's
\* contracts: the DNSSEC oracle, the DNS registrar, and the wrapper that testnets
\* upgrade to. The other files of that directory deploy the upstream contracts;
\* the three that these depend on are remembered as run, and so are skipped.
EXTENDS DeploymentScripts, Naturals

AlgorithmsScript(test) ==
    Script("", {"dnssec-algorithms"}, <<>>, FALSE,
           <<Deploy("RSASHA1Algorithm", <<>>),
             Deploy("RSASHA256Algorithm", <<>>),
             Deploy("P256SHA256Algorithm", <<>>)>>
           \o (IF test THEN <<Deploy("DummyAlgorithm", <<>>)>> ELSE <<>>))

DigestsScript(test) ==
    Script("", {"dnssec-digests"}, <<>>, FALSE,
           <<Deploy("SHA1Digest", <<>>),
             Deploy("SHA256Digest", <<>>)>>
           \o (IF test THEN <<Deploy("DummyDigest", <<>>)>> ELSE <<>>))

\* The parameters the oracle script keeps set, slot by slot.
OracleSettings(test) ==
    <<<<"algorithm 5", "RSASHA1Algorithm">>,
      <<"algorithm 7", "RSASHA1Algorithm">>,
      <<"algorithm 8", "RSASHA256Algorithm">>,
      <<"algorithm 13", "P256SHA256Algorithm">>>>
    \o (IF test THEN <<<<"algorithm 253", "DummyAlgorithm">>,
                       <<"algorithm 254", "DummyAlgorithm">>>> ELSE <<>>)
    \o <<<<"digest 1", "SHA1Digest">>,
         <<"digest 2", "SHA256Digest">>>>
    \o (IF test THEN <<<<"digest 253", "DummyDigest">>>> ELSE <<>>)

\* Mutant of OracleScript: it returns unless the oracle is newly deployed.
OracleSetOnce(test) ==
    Script("", {"dnssec-oracle"}, <<"dnssec-algorithms", "dnssec-digests">>, FALSE,
           <<DeployOnce("DNSSECImpl", <<>>)>>
           \o [i \in DOMAIN OracleSettings(test) |->
                  Send("DNSSECImpl", OracleSettings(test)[i][1],
                       OracleSettings(test)[i][2])]
           \o <<Settle>>)

\* The trust anchors that the oracle is created with are the same for every run.
OracleScript(test) ==
    Script("", {"dnssec-oracle"}, <<"dnssec-algorithms", "dnssec-digests">>, FALSE,
           <<Deploy("DNSSECImpl", <<>>)>>
           \o [i \in DOMAIN OracleSettings(test) |->
                  Send("DNSSECImpl", OracleSettings(test)[i][1],
                       OracleSettings(test)[i][2])]
           \o <<Settle>>)

OffchainResolverScript ==
    Script("", {"OffchainDNSResolver"}, <<"registry", "dnssec-oracle">>, FALSE,
           <<Get({"ENSRegistry", "DNSSECImpl"}),
             Deploy("OffchainDNSResolver", <<"ENSRegistry", "DNSSECImpl">>)>>)

\* Each registrar is told the address of the one recorded before it. The last call is
\* not waited for, but throws as it is made: the Root of upstream has another owner.
DNSRegistrarScript ==
    Script("", {"DNSRegistrar"},
           <<"registry", "dnssec-oracle", "OffchainDNSResolver", "Root">>, FALSE,
           <<Get({"ENSRegistry", "DNSSECImpl", "OffchainDNSResolver", "Root"}),
             Deploy("TLDPublicSuffixList", <<>>),
             Deploy("DNSRegistrar",
                    <<"DNSRegistrar", "OffchainDNSResolver", "DNSSECImpl",
                      "TLDPublicSuffixList", "ENSRegistry">>),
             Call("Root", "controllers", "DNSRegistrar")>>)

\* enableNode takes the bytes of a domain and is given a label as text (and the
\* recorded registrars have no such function): it throws for the first top-level
\* domain that does not belong to the registrar already.
SetTLDsScript ==
    Script("", {"dnsregistrar"}, <<"registry", "root", "dnssec-oracle">>, FALSE,
           <<Get({"DNSRegistrar", "Root", "ENSRegistry"}),
             Require("ENSRegistry", "tlds", "DNSRegistrar")>>)

Wrappers == <<"0x5822", "0xEe1F", "0x060f">>

\* Two calls for each wrapper known on the network, which are those of goerli, each
\* made only when it is still needed and its target belongs to one of the accounts.
TestUnwrapScript ==
    Script("test-unwrap", {"wrapper", "TestUnwrap"},
           <<"BaseRegistrarImplementation", "registry">>, FALSE,
           <<LeaveOn({"mainnet"}),
             Get({"ENSRegistry", "BaseRegistrarImplementation"}),
             Deploy("TestUnwrap", <<"ENSRegistry", "BaseRegistrarImplementation">>),
             LeaveOn(DOMAIN EnsNetworks \ {"goerli"})>>
           \o [i \in 1 .. 2 * Len(Wrappers) |->
                  LET wrapper == Wrappers[(i + 1) \div 2]
                  IN  IF i % 2 = 1
                      THEN CallUnless(wrapper, "upgradeContract", "TestUnwrap")
                      ELSE CallUnless("TestUnwrap", "approvedWrapper", wrapper)])

\* Upstream scripts whose identities are recorded.
SkippedScripts ==
    <<Script("registrar", {"ethregistrar", "BaseRegistrarImplementation"},
             <<"registry", "root">>, FALSE, <<>>),
      Script("ens", {"registry", "ENSRegistry"}, <<>>, TRUE, <<>>),
      Script("root", {"root", "Root"}, <<"ENSRegistry">>, TRUE, <<>>)>>

\* A run of everything ends at the DNS registrar: no file after it is reached.
DnsScripts(test) ==
    <<OffchainResolverScript, DNSRegistrarScript, SetTLDsScript,
      AlgorithmsScript(test), DigestsScript(test), OracleScript(test)>>
    \o SkippedScripts \o <<TestUnwrapScript>>

UpstreamDnsRecords ==
    <<"ENSRegistry", "Root", "BaseRegistrarImplementation", "DNSRegistrar">>
=============================================================================
