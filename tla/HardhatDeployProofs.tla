-------------------------- MODULE HardhatDeployProofs --------------------------
(***************************************************************************)
(* What holds of the runs of the hardhat projects whatever is deployed     *)
(* where, however often it is run and killed, and whatever is edited.      *)
(*                                                                         *)
(* The first part shows of every script of the four projects that it calls *)
(* only what it was told of, and deploys each contract with the same       *)
(* arguments as every other script.  The second is about the records, the  *)
(* chain and the process; the third shows that no contract is deployed     *)
(* twice, the fourth that whatever is wired is recorded, the fifth that a  *)
(* green run of everything leaves a wired registry.                        *)
(***************************************************************************)
EXTENDS HardhatDeploy, TLAPS

-----------------------------------------------------------------------------
(* Sequences, whatever they are sequences of.                              *)

Listed(s) == s \in Seq(Range(s))

LEMMA ListedSeq ==
  ASSUME NEW S, NEW s \in Seq(S)
  PROVE  Listed(s) /\ Len(s) \in Nat /\ DOMAIN s = 1 .. Len(s)
<1>1. DOMAIN s = 1 .. Len(s) /\ Len(s) \in Nat  OBVIOUS
<1>2. \A i \in 1 .. Len(s) : s[i] \in Range(s)  BY <1>1 DEF Range
<1> QED BY <1>1, <1>2 DEF Listed

LEMMA ListedLen ==
  ASSUME NEW s, Listed(s)
  PROVE  Len(s) \in Nat /\ DOMAIN s = 1 .. Len(s) /\ (s = <<>> <=> Len(s) = 0)
BY DEF Listed

LEMMA ListedAppend ==
  ASSUME NEW s, Listed(s), NEW e
  PROVE  /\ Listed(Append(s, e))
         /\ Len(Append(s, e)) = Len(s) + 1
         /\ \A i \in 1 .. Len(s) : Append(s, e)[i] = s[i]
         /\ Append(s, e)[Len(s) + 1] = e
<1> DEFINE S == Range(s) \union {e}
<1>1. s \in Seq(S) /\ e \in S  BY DEF Listed
<1> HIDE DEF S
<1>2. Append(s, e) \in Seq(S)  BY <1>1
<1>3. Listed(Append(s, e))  BY <1>2, ListedSeq
<1> QED BY <1>1, <1>3

LEMMA ListedTail ==
  ASSUME NEW s, Listed(s), s # <<>>
  PROVE  /\ Listed(Tail(s))
         /\ Len(Tail(s)) = Len(s) - 1
         /\ \A i \in 1 .. Len(s) - 1 : Tail(s)[i] = s[i + 1]
         /\ Head(s) = s[1]
<1> DEFINE S == Range(s)
<1>1. s \in Seq(S)  BY DEF Listed
<1> HIDE DEF S
<1>2. Tail(s) \in Seq(S)  BY <1>1
<1>3. Listed(Tail(s))  BY <1>2, ListedSeq
<1> QED BY <1>1, <1>3

LEMMA ListedConcat ==
  ASSUME NEW s, Listed(s), NEW t, Listed(t)
  PROVE  Listed(s \o t) /\ Len(s \o t) = Len(s) + Len(t)
<1> DEFINE S == Range(s) \union Range(t)
<1>1. s \in Seq(S) /\ t \in Seq(S)  BY DEF Listed
<1> HIDE DEF S
<1>2. s \o t \in Seq(S)  BY <1>1
<1>3. Listed(s \o t)  BY <1>2, ListedSeq
<1> QED BY <1>1, <1>3

LEMMA ConcatItem ==
  ASSUME NEW s, Listed(s), NEW t, Listed(t), NEW j \in 1 .. Len(s) + Len(t)
  PROVE  (s \o t)[j] = IF j <= Len(s) THEN s[j] ELSE t[j - Len(s)]
<1> DEFINE S == Range(s) \union Range(t)
<1>1. s \in Seq(S) /\ t \in Seq(S)  BY DEF Listed
<1> HIDE DEF S
<1> QED BY <1>1

LEMMA ListedTuples ==
  /\ Listed(<<>>) /\ Len(<<>>) = 0
  /\ \A a : Listed(<<a>>) /\ Len(<<a>>) = 1
  /\ \A a, b : Listed(<<a, b>>) /\ Len(<<a, b>>) = 2
  /\ \A a, b, c : Listed(<<a, b, c>>) /\ Len(<<a, b, c>>) = 3
  /\ \A a, b, c, d : Listed(<<a, b, c, d>>) /\ Len(<<a, b, c, d>>) = 4
<1>1. Listed(<<>>)  BY DEF Listed
<1>2. ASSUME NEW a PROVE Listed(<<a>>)
  <2>1. <<a>> \in Seq({a})  OBVIOUS
  <2> QED BY <2>1, ListedSeq
<1>3. ASSUME NEW a, NEW b PROVE Listed(<<a, b>>)
  <2>1. <<a, b>> \in Seq({a, b})  OBVIOUS
  <2> QED BY <2>1, ListedSeq
<1>4. ASSUME NEW a, NEW b, NEW c PROVE Listed(<<a, b, c>>)
  <2>1. <<a, b, c>> \in Seq({a, b, c})  OBVIOUS
  <2> QED BY <2>1, ListedSeq
<1>5. ASSUME NEW a, NEW b, NEW c, NEW d PROVE Listed(<<a, b, c, d>>)
  <2>1. <<a, b, c, d>> \in Seq({a, b, c, d})  OBVIOUS
  <2> QED BY <2>1, ListedSeq
<1> QED BY <1>1, <1>2, <1>3, <1>4, <1>5

\* A sequence that is given by a function.
LEMMA FunctionSeq == ASSUME NEW n \in Nat, NEW S, NEW f \in [1 .. n -> S] PROVE f \in Seq(S)
OBVIOUS

LEMMA ListedFunction ==
  ASSUME NEW n \in Nat, NEW s, DOMAIN s = 1 .. n, s = [i \in DOMAIN s |-> s[i]]
  PROVE  Listed(s) /\ Len(s) = n
<1>1. s \in [1 .. n -> Range(s)]  BY DEF Range
<1>2. s \in Seq(Range(s)) /\ Len(s) = n  BY <1>1
<1> QED BY <1>2 DEF Listed

-----------------------------------------------------------------------------
(* Scripts.                                                                *)

\* The arguments of each constructor, by the names whose addresses they are.
ArgsOf(name) ==
    CASE name = "ENSRegistry" -> <<"Root">>
      [] name = "BaseRegistrarImplementation" -> <<"ENSRegistry">>
      [] name = "ReverseRegistrar" -> <<"ENSRegistry">>
      [] name = "OptiDomains" ->
           <<"ENSRegistry", "BaseRegistrarImplementation", "OptiDomainsMetadataService">>
      [] name = "WhitelistRegistrarController" ->
           <<"BaseRegistrarImplementation", "ReverseRegistrar", "OptiDomains">>
      [] name = "PublicResolver" ->
           <<"ENSRegistry", "OptiDomains", "WhitelistRegistrarController",
             "ReverseRegistrar">>
      [] name = "NameWrapperRegistry" -> <<"ENSRegistry">>
      [] name = "OptiDomainsAttestation" -> <<"NameWrapperRegistry">>
      [] name = "DiamondResolver" -> <<"NameWrapperRegistry">>
      [] name = "OffchainDNSResolver" -> <<"ENSRegistry", "DNSSECImpl">>
      [] name = "DNSRegistrar" ->
           <<"DNSRegistrar", "OffchainDNSResolver", "DNSSECImpl", "TLDPublicSuffixList",
             "ENSRegistry">>
      [] name = "TestUnwrap" -> <<"ENSRegistry", "BaseRegistrarImplementation">>
      [] OTHER -> <<>>

\* Whether a process at step j of a script knows that there is a record of the name.
Told(steps, j, name) ==
    \E i \in 1 .. j - 1 : \/ steps[i].op = "get" /\ name \in steps[i].names
                          \/ steps[i].op = "deploy" /\ name = steps[i].name

SoundStep(steps, j, wrappers) ==
    LET st == steps[j]
    IN  /\ st.op = "deploy" => st.name \notin Range(Wrappers) /\ st.args = ArgsOf(st.name)
        /\ st.op \in {"call", "execute", "send", "ensure"} =>
              Told(steps, j, st.to) \/ st.to \in wrappers
        /\ st.op = "execute" => Told(steps, j, "Root")
        /\ st.op = "mkdir" => j < Len(steps) /\ steps[j + 1].op = "write"

SoundScript(s, wrappers) ==
    /\ Listed(s.steps)
    /\ \A j \in 1 .. Len(s.steps) : SoundStep(s.steps, j, wrappers)

\* In ens/ and diamond-resolver/, what is deployed or set is told of as well.
WiredStep(steps, j, copied) ==
    LET st == steps[j]
    IN  /\ st.op = "deploy" => /\ st.name \notin copied
                               /\ \A i \in DOMAIN st.args : Told(steps, j, st.args[i])
        /\ st.op \in {"call", "execute"} => Told(steps, j, st.to) /\ Told(steps, j, st.value)
        /\ st.op \notin {"send", "ensure"}

WiredScript(s, copied) ==
    SoundScript(s, {}) /\ \A j \in 1 .. Len(s.steps) : WiredStep(s.steps, j, copied)

-----------------------------------------------------------------------------
(* The scripts of ens/, diamond-resolver/ and "deploy copy" that are           *)
(* written out as tuples: step by step.                                    *)

LEMMA WrapperNames == Range(Wrappers) = {"0x5822", "0xEe1F", "0x060f"}
  BY DEF Range, Wrappers

LEMMA CopiedNames ==
  Range(CopiedRecords) = {"Root", "ENSRegistry", "OptiDomains",
                          "WhitelistRegistrarController", "ReverseRegistrar"}
  BY DEF Range, CopiedRecords

LEMMA RootScriptWired == WiredScript(RootScript, {})
<1> DEFINE st == RootScript.steps
<1>1. /\ st = [i \in DOMAIN st |-> st[i]] /\ DOMAIN st = 1 .. 1
      /\ st[1].op = "deploy" /\ st[1].name = "Root"
      /\ st[1].args = <<>>
  BY DEF RootScript, Script, Deploy
<1> HIDE DEF st
<1>2. Listed(st) /\ Len(st) = 1
  BY <1>1, ListedFunction
<1>4. /\ "Root" \notin Range(Wrappers) /\ ArgsOf("Root") = <<>>
  BY WrapperNames DEF ArgsOf
<1>5. \A j \in 1 .. 1 : SoundStep(st, j, {})
  BY <1>1, <1>4 DEF SoundStep
<1>6. \A j \in 1 .. 1 : WiredStep(st, j, {})
  BY <1>1 DEF WiredStep
<1> QED BY <1>2, <1>5, <1>6 DEF SoundScript, WiredScript, st

LEMMA RegistryScriptWired == WiredScript(RegistryScript, {})
<1> DEFINE st == RegistryScript.steps
<1>1. /\ st = [i \in DOMAIN st |-> st[i]] /\ DOMAIN st = 1 .. 2
      /\ st[1].op = "get" /\ st[1].names = {"Root"}
      /\ st[2].op = "deploy" /\ st[2].name = "ENSRegistry"
      /\ st[2].args = <<"Root">>
  BY DEF RegistryScript, Script, Get, Deploy
<1> HIDE DEF st
<1>2. Listed(st) /\ Len(st) = 2
  BY <1>1, ListedFunction
<1>3. /\ Told(st, 2, "Root")
  BY <1>1 DEF Told
<1>4. /\ "ENSRegistry" \notin Range(Wrappers) /\ ArgsOf("ENSRegistry") = <<"Root">>
  BY WrapperNames DEF ArgsOf
<1>5. \A j \in 1 .. 2 : SoundStep(st, j, {})
  BY <1>1, <1>3, <1>4 DEF SoundStep
<1>6. \A j \in 1 .. 2 : WiredStep(st, j, {})
  BY <1>1, <1>3 DEF WiredStep
<1> QED BY <1>2, <1>5, <1>6 DEF SoundScript, WiredScript, st

LEMMA BaseRegistrarScriptWired == WiredScript(BaseRegistrarScript, {})
<1> DEFINE st == BaseRegistrarScript.steps
<1>1. /\ st = [i \in DOMAIN st |-> st[i]] /\ DOMAIN st = 1 .. 3
      /\ st[1].op = "get" /\ st[1].names = {"ENSRegistry", "Root"}
      /\ st[2].op = "deploy" /\ st[2].name = "BaseRegistrarImplementation"
      /\ st[2].args = <<"ENSRegistry">>
      /\ st[3].op = "execute"
      /\ st[3].to = "ENSRegistry"
      /\ st[3].value = "BaseRegistrarImplementation"
  BY DEF BaseRegistrarScript, Script, Get, DeployOnce, Execute
<1> HIDE DEF st
<1>2. Listed(st) /\ Len(st) = 3
  BY <1>1, ListedFunction
<1>3. /\ Told(st, 2, "ENSRegistry")
      /\ \A name \in {"ENSRegistry", "BaseRegistrarImplementation",
           "Root"} : Told(st, 3, name)
  BY <1>1 DEF Told
<1>4. /\ "BaseRegistrarImplementation" \notin Range(Wrappers)
      /\ ArgsOf("BaseRegistrarImplementation") = <<"ENSRegistry">>
  BY WrapperNames DEF ArgsOf
<1>5. \A j \in 1 .. 3 : SoundStep(st, j, {})
  BY <1>1, <1>3, <1>4 DEF SoundStep
<1>6. \A j \in 1 .. 3 : WiredStep(st, j, {})
  BY <1>1, <1>3 DEF WiredStep
<1> QED BY <1>2, <1>5, <1>6 DEF SoundScript, WiredScript, st

LEMMA ReverseRegistrarScriptWired == WiredScript(ReverseRegistrarScript, {})
<1> DEFINE st == ReverseRegistrarScript.steps
<1>1. /\ st = [i \in DOMAIN st |-> st[i]] /\ DOMAIN st = 1 .. 6
      /\ st[1].op = "get" /\ st[1].names = {"ENSRegistry"}
      /\ st[2].op = "deploy" /\ st[2].name = "ReverseRegistrar"
      /\ st[2].args = <<"ENSRegistry">>
      /\ st[3].op = "leave"
      /\ st[4].op = "get" /\ st[4].names = {"Root"}
      /\ st[5].op = "execute" /\ st[5].to = "ENSRegistry" /\ st[5].value = "Root"
      /\ st[6].op = "execute" /\ st[6].to = "ENSRegistry" /\ st[6].value = "ReverseRegistrar"
  BY DEF ReverseRegistrarScript, Script, Get, DeployOnce, LeaveOn, Execute
<1> HIDE DEF st
<1>2. Listed(st) /\ Len(st) = 6
  BY <1>1, ListedFunction
<1>3. /\ Told(st, 2, "ENSRegistry")
      /\ \A name \in {"ENSRegistry", "Root"} : Told(st, 5, name)
      /\ \A name \in {"ENSRegistry", "ReverseRegistrar", "Root"} : Told(st, 6, name)
  BY <1>1 DEF Told
<1>4. /\ "ReverseRegistrar" \notin Range(Wrappers)
      /\ ArgsOf("ReverseRegistrar") = <<"ENSRegistry">>
  BY WrapperNames DEF ArgsOf
<1>5. \A j \in 1 .. 6 : SoundStep(st, j, {})
  BY <1>1, <1>3, <1>4 DEF SoundStep
<1>6. \A j \in 1 .. 6 : WiredStep(st, j, {})
  BY <1>1, <1>3 DEF WiredStep
<1> QED BY <1>2, <1>5, <1>6 DEF SoundScript, WiredScript, st

LEMMA MetadataScriptWired == WiredScript(MetadataScript, {})
<1> DEFINE st == MetadataScript.steps
<1>1. /\ st = [i \in DOMAIN st |-> st[i]] /\ DOMAIN st = 1 .. 1
      /\ st[1].op = "deploy" /\ st[1].name = "OptiDomainsMetadataService"
      /\ st[1].args = <<>>
  BY DEF MetadataScript, Script, Deploy
<1> HIDE DEF st
<1>2. Listed(st) /\ Len(st) = 1
  BY <1>1, ListedFunction
<1>4. /\ "OptiDomainsMetadataService" \notin Range(Wrappers)
      /\ ArgsOf("OptiDomainsMetadataService") = <<>>
  BY WrapperNames DEF ArgsOf
<1>5. \A j \in 1 .. 1 : SoundStep(st, j, {})
  BY <1>1, <1>4 DEF SoundStep
<1>6. \A j \in 1 .. 1 : WiredStep(st, j, {})
  BY <1>1 DEF WiredStep
<1> QED BY <1>2, <1>5, <1>6 DEF SoundScript, WiredScript, st

LEMMA NameWrapperScriptWired == WiredScript(NameWrapperScript, {})
<1> DEFINE st == NameWrapperScript.steps
<1>1. /\ st = [i \in DOMAIN st |-> st[i]] /\ DOMAIN st = 1 .. 4
      /\ st[1].op = "get" /\ st[1].names = {"Root", "ENSRegistry",
         "BaseRegistrarImplementation", "OptiDomainsMetadataService"}
      /\ st[2].op = "deploy" /\ st[2].name = "OptiDomains"
      /\ st[2].args = <<"ENSRegistry", "BaseRegistrarImplementation",
         "OptiDomainsMetadataService">>
      /\ st[3].op = "leave"
      /\ st[4].op = "execute"
      /\ st[4].to = "BaseRegistrarImplementation"
      /\ st[4].value = "OptiDomains"
  BY DEF NameWrapperScript, Script, Get, DeployOnce, LeaveOn, Execute
<1> HIDE DEF st
<1>2. Listed(st) /\ Len(st) = 4
  BY <1>1, ListedFunction
<1>3. /\ \A name \in {"ENSRegistry", "BaseRegistrarImplementation",
           "OptiDomainsMetadataService"} : Told(st, 2, name)
      /\ \A name \in {"BaseRegistrarImplementation", "OptiDomains",
           "Root"} : Told(st, 4, name)
  BY <1>1 DEF Told
<1>4. /\ "OptiDomains" \notin Range(Wrappers)
      /\ ArgsOf("OptiDomains") = <<"ENSRegistry", "BaseRegistrarImplementation", "OptiDomainsMetadataService">>
  BY WrapperNames DEF ArgsOf
<1>5. \A j \in 1 .. 4 : SoundStep(st, j, {})
  BY <1>1, <1>3, <1>4 DEF SoundStep
<1>6. \A j \in 1 .. 4 : WiredStep(st, j, {})
  BY <1>1, <1>3 DEF WiredStep
<1> QED BY <1>2, <1>5, <1>6 DEF SoundScript, WiredScript, st

LEMMA ControllerScriptWired == WiredScript(ControllerScript, {})
<1> DEFINE st == ControllerScript.steps
<1>1. /\ st = [i \in DOMAIN st |-> st[i]] /\ DOMAIN st = 1 .. 4
      /\ st[1].op = "get" /\ st[1].names = {"ENSRegistry", "Root",
         "BaseRegistrarImplementation", "ReverseRegistrar", "OptiDomains"}
      /\ st[2].op = "deploy" /\ st[2].name = "WhitelistRegistrarController"
      /\ st[2].args = <<"BaseRegistrarImplementation", "ReverseRegistrar",
         "OptiDomains">>
      /\ st[3].op = "execute"
      /\ st[3].to = "OptiDomains"
      /\ st[3].value = "WhitelistRegistrarController"
      /\ st[4].op = "execute"
      /\ st[4].to = "ReverseRegistrar"
      /\ st[4].value = "WhitelistRegistrarController"
  BY DEF ControllerScript, Script, Get, DeployOnce, Execute
<1> HIDE DEF st
<1>2. Listed(st) /\ Len(st) = 4
  BY <1>1, ListedFunction
<1>3. /\ \A name \in {"BaseRegistrarImplementation", "ReverseRegistrar",
           "OptiDomains"} : Told(st, 2, name)
      /\ \A name \in {"OptiDomains", "WhitelistRegistrarController",
           "Root"} : Told(st, 3, name)
      /\ \A name \in {"ReverseRegistrar", "WhitelistRegistrarController",
           "Root"} : Told(st, 4, name)
  BY <1>1 DEF Told
<1>4. /\ "WhitelistRegistrarController" \notin Range(Wrappers)
      /\ ArgsOf("WhitelistRegistrarController") = <<"BaseRegistrarImplementation", "ReverseRegistrar", "OptiDomains">>
  BY WrapperNames DEF ArgsOf
<1>5. \A j \in 1 .. 4 : SoundStep(st, j, {})
  BY <1>1, <1>3, <1>4 DEF SoundStep
<1>6. \A j \in 1 .. 4 : WiredStep(st, j, {})
  BY <1>1, <1>3 DEF WiredStep
<1> QED BY <1>2, <1>5, <1>6 DEF SoundScript, WiredScript, st

LEMMA ResolverScriptWired == WiredScript(ResolverScript, {})
<1> DEFINE st == ResolverScript.steps
<1>1. /\ st = [i \in DOMAIN st |-> st[i]] /\ DOMAIN st = 1 .. 3
      /\ st[1].op = "get" /\ st[1].names = {"Root", "ENSRegistry", "OptiDomains",
         "WhitelistRegistrarController", "ReverseRegistrar"}
      /\ st[2].op = "deploy" /\ st[2].name = "PublicResolver"
      /\ st[2].args = <<"ENSRegistry", "OptiDomains",
         "WhitelistRegistrarController", "ReverseRegistrar">>
      /\ st[3].op = "execute"
      /\ st[3].to = "ReverseRegistrar"
      /\ st[3].value = "PublicResolver"
  BY DEF ResolverScript, Script, Get, DeployOnce, Execute
<1> HIDE DEF st
<1>2. Listed(st) /\ Len(st) = 3
  BY <1>1, ListedFunction
<1>3. /\ \A name \in {"ENSRegistry", "OptiDomains", "WhitelistRegistrarController",
           "ReverseRegistrar"} : Told(st, 2, name)
      /\ \A name \in {"ReverseRegistrar", "PublicResolver", "Root"} : Told(st, 3,
           name)
  BY <1>1 DEF Told
<1>4. /\ "PublicResolver" \notin Range(Wrappers)
      /\ ArgsOf("PublicResolver") = <<"ENSRegistry", "OptiDomains", "WhitelistRegistrarController", "ReverseRegistrar">>
  BY WrapperNames DEF ArgsOf
<1>5. \A j \in 1 .. 3 : SoundStep(st, j, {})
  BY <1>1, <1>3, <1>4 DEF SoundStep
<1>6. \A j \in 1 .. 3 : WiredStep(st, j, {})
  BY <1>1, <1>3 DEF WiredStep
<1> QED BY <1>2, <1>5, <1>6 DEF SoundScript, WiredScript, st

LEMMA DiamondResolverScriptWired == WiredScript(DiamondResolverScript, Range(CopiedRecords))
<1> DEFINE st == DiamondResolverScript.steps
<1>1. /\ st = [i \in DOMAIN st |-> st[i]] /\ DOMAIN st = 1 .. 6
      /\ st[1].op = "get" /\ st[1].names = {"ENSRegistry", "OptiDomains"}
      /\ st[2].op = "deploy" /\ st[2].name = "NameWrapperRegistry"
      /\ st[2].args = <<"ENSRegistry">>
      /\ st[3].op = "deploy" /\ st[3].name = "OptiDomainsAttestation"
      /\ st[3].args = <<"NameWrapperRegistry">>
      /\ st[4].op = "deploy" /\ st[4].name = "DiamondResolver"
      /\ st[4].args = <<"NameWrapperRegistry">>
      /\ st[5].op = "call" /\ st[5].to = "NameWrapperRegistry" /\ st[5].value = "OptiDomains"
      /\ st[6].op = "call"
      /\ st[6].to = "NameWrapperRegistry"
      /\ st[6].value = "OptiDomainsAttestation"
  BY DEF DiamondResolverScript, Script, Get, DeployOnce, Deploy, Call
<1> HIDE DEF st
<1>2. Listed(st) /\ Len(st) = 6
  BY <1>1, ListedFunction
<1>3. /\ Told(st, 2, "ENSRegistry")
      /\ Told(st, 3, "NameWrapperRegistry")
      /\ Told(st, 4, "NameWrapperRegistry")
      /\ \A name \in {"NameWrapperRegistry", "OptiDomains"} : Told(st, 5, name)
      /\ \A name \in {"NameWrapperRegistry", "OptiDomainsAttestation"} : Told(st,
           6, name)
  BY <1>1 DEF Told
<1>4. /\ "NameWrapperRegistry" \notin Range(Wrappers)
      /\ ArgsOf("NameWrapperRegistry") = <<"ENSRegistry">>
      /\ "OptiDomainsAttestation" \notin Range(Wrappers)
      /\ ArgsOf("OptiDomainsAttestation") = <<"NameWrapperRegistry">>
      /\ "DiamondResolver" \notin Range(Wrappers)
      /\ ArgsOf("DiamondResolver") = <<"NameWrapperRegistry">>
  BY WrapperNames DEF ArgsOf
<1>5. \A j \in 1 .. 6 : SoundStep(st, j, {})
  BY <1>1, <1>3, <1>4 DEF SoundStep
<1>6. \A j \in 1 .. 6 : WiredStep(st, j, Range(CopiedRecords))
  BY <1>1, CopiedNames, <1>3 DEF WiredStep
<1> QED BY <1>2, <1>5, <1>6 DEF SoundScript, WiredScript, st

LEMMA WhitelistAuthScriptWired == WiredScript(WhitelistAuthScript, Range(CopiedRecords))
<1> DEFINE st == WhitelistAuthScript.steps
<1>1. /\ st = [i \in DOMAIN st |-> st[i]] /\ DOMAIN st = 1 .. 6
      /\ st[1].op = "deploy" /\ st[1].name = "RegistryWhitelistAuthFacet"
      /\ st[1].args = <<>>
      /\ st[2].op = "get" /\ st[2].names = {"DiamondResolver"}
      /\ st[3].op = "call"
      /\ st[3].to = "DiamondResolver"
      /\ st[3].value = "RegistryWhitelistAuthFacet"
      /\ st[4].op = "get" /\ st[4].names = {"WhitelistRegistrarController",
         "ReverseRegistrar"}
      /\ st[5].op = "call"
      /\ st[5].to = "DiamondResolver"
      /\ st[5].value = "WhitelistRegistrarController"
      /\ st[6].op = "call" /\ st[6].to = "DiamondResolver" /\ st[6].value = "ReverseRegistrar"
  BY DEF WhitelistAuthScript, Script, Deploy, Get, Add, Call
<1> HIDE DEF st
<1>2. Listed(st) /\ Len(st) = 6
  BY <1>1, ListedFunction
<1>3. /\ \A name \in {"DiamondResolver", "RegistryWhitelistAuthFacet"} : Told(st,
           3, name)
      /\ \A name \in {"DiamondResolver", "WhitelistRegistrarController"} : Told(st,
           5, name)
      /\ \A name \in {"DiamondResolver", "ReverseRegistrar"} : Told(st, 6, name)
  BY <1>1 DEF Told
<1>4. /\ "RegistryWhitelistAuthFacet" \notin Range(Wrappers)
      /\ ArgsOf("RegistryWhitelistAuthFacet") = <<>>
  BY WrapperNames DEF ArgsOf
<1>5. \A j \in 1 .. 6 : SoundStep(st, j, {})
  BY <1>1, <1>3, <1>4 DEF SoundStep
<1>6. \A j \in 1 .. 6 : WiredStep(st, j, Range(CopiedRecords))
  BY <1>1, CopiedNames, <1>3 DEF WiredStep
<1> QED BY <1>2, <1>5, <1>6 DEF SoundScript, WiredScript, st

LEMMA PublicResolverFacetScriptWired == WiredScript(PublicResolverFacetScript, Range(CopiedRecords))
<1> DEFINE st == PublicResolverFacetScript.steps
<1>1. /\ st = [i \in DOMAIN st |-> st[i]] /\ DOMAIN st = 1 .. 3
      /\ st[1].op = "deploy" /\ st[1].name = "PublicResolverFacet"
      /\ st[1].args = <<>>
      /\ st[2].op = "get" /\ st[2].names = {"DiamondResolver"}
      /\ st[3].op = "call"
      /\ st[3].to = "DiamondResolver"
      /\ st[3].value = "PublicResolverFacet"
  BY DEF PublicResolverFacetScript, Script, Deploy, Get, Add, Call
<1> HIDE DEF st
<1>2. Listed(st) /\ Len(st) = 3
  BY <1>1, ListedFunction
<1>3. /\ \A name \in {"DiamondResolver", "PublicResolverFacet"} : Told(st, 3, name)
  BY <1>1 DEF Told
<1>4. /\ "PublicResolverFacet" \notin Range(Wrappers) /\ ArgsOf("PublicResolverFacet") = <<>>
  BY WrapperNames DEF ArgsOf
<1>5. \A j \in 1 .. 3 : SoundStep(st, j, {})
  BY <1>1, <1>3, <1>4 DEF SoundStep
<1>6. \A j \in 1 .. 3 : WiredStep(st, j, Range(CopiedRecords))
  BY <1>1, CopiedNames, <1>3 DEF WiredStep
<1> QED BY <1>2, <1>5, <1>6 DEF SoundScript, WiredScript, st

LEMMA FacetCutScriptWired == WiredScript(FacetCutScript, Range(CopiedRecords))
<1> DEFINE st == FacetCutScript.steps
<1>1. /\ st = [i \in DOMAIN st |-> st[i]] /\ DOMAIN st = 1 .. 2
      /\ st[1].op = "get" /\ st[1].names = {"DiamondResolver",
         "PublicResolverFacet"}
      /\ st[2].op = "call"
      /\ st[2].to = "DiamondResolver"
      /\ st[2].value = "PublicResolverFacet"
  BY DEF FacetCutScript, Script, Get, Add, Call
<1> HIDE DEF st
<1>2. Listed(st) /\ Len(st) = 2
  BY <1>1, ListedFunction
<1>3. /\ \A name \in {"DiamondResolver", "PublicResolverFacet"} : Told(st, 2, name)
  BY <1>1 DEF Told
<1>5. \A j \in 1 .. 2 : SoundStep(st, j, {})
  BY <1>1, <1>3 DEF SoundStep
<1>6. \A j \in 1 .. 2 : WiredStep(st, j, Range(CopiedRecords))
  BY <1>1, CopiedNames, <1>3 DEF WiredStep
<1> QED BY <1>2, <1>5, <1>6 DEF SoundScript, WiredScript, st

LEMMA OffchainResolverScriptSound == SoundScript(OffchainResolverScript, Range(Wrappers))
<1> DEFINE st == OffchainResolverScript.steps
<1>1. /\ st = [i \in DOMAIN st |-> st[i]] /\ DOMAIN st = 1 .. 2
      /\ st[1].op = "get" /\ st[1].names = {"ENSRegistry", "DNSSECImpl"}
      /\ st[2].op = "deploy" /\ st[2].name = "OffchainDNSResolver"
      /\ st[2].args = <<"ENSRegistry", "DNSSECImpl">>
  BY DEF OffchainResolverScript, Script, Get, Deploy
<1> HIDE DEF st
<1>2. Listed(st) /\ Len(st) = 2
  BY <1>1, ListedFunction
<1>4. /\ "OffchainDNSResolver" \notin Range(Wrappers)
      /\ ArgsOf("OffchainDNSResolver") = <<"ENSRegistry", "DNSSECImpl">>
  BY WrapperNames DEF ArgsOf
<1>5. \A j \in 1 .. 2 : SoundStep(st, j, Range(Wrappers))
  BY <1>1, <1>4 DEF SoundStep
<1> QED BY <1>2, <1>5 DEF SoundScript, st

LEMMA DNSRegistrarScriptSound == SoundScript(DNSRegistrarScript, Range(Wrappers))
<1> DEFINE st == DNSRegistrarScript.steps
<1>1. /\ st = [i \in DOMAIN st |-> st[i]] /\ DOMAIN st = 1 .. 4
      /\ st[1].op = "get" /\ st[1].names = {"ENSRegistry", "DNSSECImpl",
         "OffchainDNSResolver", "Root"}
      /\ st[2].op = "deploy" /\ st[2].name = "TLDPublicSuffixList"
      /\ st[2].args = <<>>
      /\ st[3].op = "deploy" /\ st[3].name = "DNSRegistrar"
      /\ st[3].args = <<"DNSRegistrar", "OffchainDNSResolver", "DNSSECImpl",
         "TLDPublicSuffixList", "ENSRegistry">>
      /\ st[4].op = "call" /\ st[4].to = "Root" /\ st[4].value = "DNSRegistrar"
  BY DEF DNSRegistrarScript, Script, Get, Deploy, Call
<1> HIDE DEF st
<1>2. Listed(st) /\ Len(st) = 4
  BY <1>1, ListedFunction
<1>3. /\ Told(st, 4, "Root")
  BY <1>1 DEF Told
<1>4. /\ "TLDPublicSuffixList" \notin Range(Wrappers) /\ ArgsOf("TLDPublicSuffixList") = <<>>
      /\ "DNSRegistrar" \notin Range(Wrappers)
      /\ ArgsOf("DNSRegistrar") = <<"DNSRegistrar", "OffchainDNSResolver", "DNSSECImpl", "TLDPublicSuffixList", "ENSRegistry">>
  BY WrapperNames DEF ArgsOf
<1>5. \A j \in 1 .. 4 : SoundStep(st, j, Range(Wrappers))
  BY <1>1, <1>3, <1>4 DEF SoundStep
<1> QED BY <1>2, <1>5 DEF SoundScript, st

LEMMA SetTLDsScriptSound == SoundScript(SetTLDsScript, Range(Wrappers))
<1> DEFINE st == SetTLDsScript.steps
<1>1. /\ st = [i \in DOMAIN st |-> st[i]] /\ DOMAIN st = 1 .. 2
      /\ st[1].op = "get" /\ st[1].names = {"DNSRegistrar", "Root", "ENSRegistry"}
      /\ st[2].op = "require"
  BY DEF SetTLDsScript, Script, Get, Require
<1> HIDE DEF st
<1>2. Listed(st) /\ Len(st) = 2
  BY <1>1, ListedFunction
<1>5. \A j \in 1 .. 2 : SoundStep(st, j, Range(Wrappers))
  BY <1>1 DEF SoundStep
<1> QED BY <1>2, <1>5 DEF SoundScript, st

\* A script without steps.
LEMMA NoSteps ==
  ASSUME NEW s, s.steps = <<>>, NEW copied, NEW wrappers
  PROVE  SoundScript(s, wrappers) /\ WiredScript(s, copied)
<1>1. Listed(s.steps) /\ Len(s.steps) = 0
  BY ListedTuples
<1> QED BY <1>1 DEF SoundScript, WiredScript

-----------------------------------------------------------------------------
(* The scripts that are put together of several sequences.                 *)

\* Deployments without arguments.
PlainNames ==
    {"RSASHA1Algorithm", "RSASHA256Algorithm", "P256SHA256Algorithm", "DummyAlgorithm",
     "SHA1Digest", "SHA256Digest", "DummyDigest", "DNSSECImpl"}

PlainDeployments == {Deploy(name, <<>>) : name \in PlainNames}

LEMMA PlainArgs ==
  \A name \in PlainNames : ArgsOf(name) = <<>> /\ name \notin Range(Wrappers)
BY WrapperNames DEF PlainNames, ArgsOf

LEMMA PlainSound ==
  ASSUME NEW steps, NEW j, steps[j] \in PlainDeployments
  PROVE  SoundStep(steps, j, Range(Wrappers))
<1>1. PICK name \in PlainNames : steps[j] = Deploy(name, <<>>)  BY DEF PlainDeployments
<1>2. steps[j].op = "deploy" /\ steps[j].name = name /\ steps[j].args = <<>>
  BY <1>1 DEF Deploy
<1> QED BY <1>2, PlainArgs DEF SoundStep

LEMMA PlainScript ==
  ASSUME NEW s, s.steps \in Seq(PlainDeployments)
  PROVE  SoundScript(s, Range(Wrappers))
<1>1. Listed(s.steps)  BY ListedSeq
<1>2. \A j \in 1 .. Len(s.steps) : s.steps[j] \in PlainDeployments  OBVIOUS
<1> QED BY <1>1, <1>2, PlainSound DEF SoundScript

LEMMA AlgorithmsScriptSound ==
  ASSUME NEW test \in BOOLEAN
  PROVE  SoundScript(AlgorithmsScript(test), Range(Wrappers))
<1> DEFINE d1 == Deploy("RSASHA1Algorithm", <<>>)
           d2 == Deploy("RSASHA256Algorithm", <<>>)
           d3 == Deploy("P256SHA256Algorithm", <<>>)
           d4 == Deploy("DummyAlgorithm", <<>>)
           steps == AlgorithmsScript(test).steps
<1>1. {d1, d2, d3, d4} \subseteq PlainDeployments  BY DEF PlainDeployments, PlainNames
<1>2. steps = <<d1, d2, d3>> \o (IF test THEN <<d4>> ELSE <<>>)
  BY DEF AlgorithmsScript, Script
<1> HIDE DEF d1, d2, d3, d4, steps
<1>3. (IF test THEN <<d4>> ELSE <<>>) \in Seq(PlainDeployments)  BY <1>1
<1>4. <<d1, d2, d3>> \in Seq(PlainDeployments)  BY <1>1
<1>5. steps \in Seq(PlainDeployments)  BY <1>2, <1>3, <1>4
<1> QED BY <1>5, PlainScript DEF steps

LEMMA DigestsScriptSound ==
  ASSUME NEW test \in BOOLEAN
  PROVE  SoundScript(DigestsScript(test), Range(Wrappers))
<1> DEFINE d1 == Deploy("SHA1Digest", <<>>)
           d2 == Deploy("SHA256Digest", <<>>)
           d3 == Deploy("DummyDigest", <<>>)
           steps == DigestsScript(test).steps
<1>1. {d1, d2, d3} \subseteq PlainDeployments  BY DEF PlainDeployments, PlainNames
<1>2. steps = <<d1, d2>> \o (IF test THEN <<d3>> ELSE <<>>)
  BY DEF DigestsScript, Script
<1> HIDE DEF d1, d2, d3, steps
<1>3. (IF test THEN <<d3>> ELSE <<>>) \in Seq(PlainDeployments)  BY <1>1
<1>4. <<d1, d2>> \in Seq(PlainDeployments)  BY <1>1
<1>5. steps \in Seq(PlainDeployments)  BY <1>2, <1>3, <1>4
<1> QED BY <1>5, PlainScript DEF steps

LEMMA SettingsListed ==
  ASSUME NEW test \in BOOLEAN
  PROVE  Listed(OracleSettings(test))
<1> DEFINE s1 == <<<<"algorithm 5", "RSASHA1Algorithm">>,
                   <<"algorithm 7", "RSASHA1Algorithm">>,
                   <<"algorithm 8", "RSASHA256Algorithm">>,
                   <<"algorithm 13", "P256SHA256Algorithm">>>>
           t1 == <<<<"algorithm 253", "DummyAlgorithm">>,
                   <<"algorithm 254", "DummyAlgorithm">>>>
           s2 == <<<<"digest 1", "SHA1Digest">>, <<"digest 2", "SHA256Digest">>>>
           t2 == <<<<"digest 253", "DummyDigest">>>>
           e == <<>>
<1>1. Listed(s1) /\ Listed(t1) /\ Listed(s2) /\ Listed(t2) /\ Listed(e)  BY ListedTuples
<1>2. OracleSettings(test) =
        ((s1 \o (IF test THEN t1 ELSE e)) \o s2) \o (IF test THEN t2 ELSE e)
  BY DEF OracleSettings
<1> HIDE DEF s1, s2, t1, t2, e
<1>3. Listed(IF test THEN t1 ELSE e) /\ Listed(IF test THEN t2 ELSE e)  BY <1>1
<1>4. Listed(s1 \o (IF test THEN t1 ELSE e))  BY <1>1, <1>3, ListedConcat
<1>5. Listed((s1 \o (IF test THEN t1 ELSE e)) \o s2)  BY <1>1, <1>4, ListedConcat
<1> QED BY <1>2, <1>3, <1>5, ListedConcat

LEMMA OracleScriptSound ==
  ASSUME NEW test \in BOOLEAN
  PROVE  SoundScript(OracleScript(test), Range(Wrappers))
<1> DEFINE settings == OracleSettings(test)
           sends == [i \in DOMAIN settings |->
                       Send("DNSSECImpl", settings[i][1], settings[i][2])]
           d == Deploy("DNSSECImpl", <<>>)
           st == OracleScript(test).steps
           S == Range(sends) \union {d, Settle}
<1>1. Len(settings) \in Nat /\ DOMAIN settings = 1 .. Len(settings)
  BY SettingsListed, ListedLen
<1>2. sends \in Seq(S)
  <2>1. sends \in [1 .. Len(settings) -> S]  BY <1>1 DEF Range
  <2> HIDE DEF sends, S, settings
  <2> QED BY <1>1, <2>1
<1>3. \A s \in Range(sends) : s.op = "send" /\ s.to = "DNSSECImpl"  BY DEF Range, Send
<1>4. st = (<<d>> \o sends) \o <<Settle>>  BY DEF OracleScript, Script
<1>5. d \in S /\ Settle \in S  OBVIOUS
<1>6. d.op = "deploy" /\ d.name = "DNSSECImpl" /\ Settle.op = "settle"  BY DEF Deploy, Settle
<1>7. d \in PlainDeployments  BY DEF PlainDeployments, PlainNames
<1>8. \A s \in S : s \in Range(sends) \/ s = d \/ s = Settle  OBVIOUS
<1> HIDE DEF st, sends, settings, d, S
<1>9. st \in Seq(S)  BY <1>2, <1>4, <1>5
<1>10. st[1] = d  BY <1>2, <1>4, <1>5
<1>11. ASSUME NEW j \in 1 .. Len(st) PROVE SoundStep(st, j, Range(Wrappers))
  <2>1. CASE st[j] \in Range(sends)
    <3>1. j # 1 /\ j \in Nat  BY <1>3, <1>6, <1>10, <2>1
    <3>2. Told(st, j, "DNSSECImpl")  BY <1>6, <1>10, <3>1 DEF Told
    <3> QED BY <1>3, <2>1, <3>2 DEF SoundStep
  <2>2. CASE st[j] = d  BY <1>7, <2>2, PlainSound
  <2>3. CASE st[j] = Settle  BY <1>6, <2>3 DEF SoundStep
  <2> QED BY <1>8, <1>9, <2>1, <2>2, <2>3
<1>12. Listed(st)  BY <1>9, ListedSeq
<1> QED BY <1>11, <1>12 DEF SoundScript, st

LEMMA TestUnwrapScriptSound == SoundScript(TestUnwrapScript, Range(Wrappers))
<1> DEFINE f1 == LeaveOn({"mainnet"})
           f2 == Get({"ENSRegistry", "BaseRegistrarImplementation"})
           f3 == Deploy("TestUnwrap", <<"ENSRegistry", "BaseRegistrarImplementation">>)
           f4 == LeaveOn(DOMAIN EnsNetworks \ {"goerli"})
           calls == [i \in 1 .. 2 * Len(Wrappers) |->
                       LET wrapper == Wrappers[(i + 1) \div 2]
                       IN  IF i % 2 = 1
                           THEN CallUnless(wrapper, "upgradeContract", "TestUnwrap")
                           ELSE CallUnless("TestUnwrap", "approvedWrapper", wrapper)]
           st == TestUnwrapScript.steps
           S == Range(calls) \union {f1, f2, f3, f4}
<1>1. Len(Wrappers) = 3 /\ DOMAIN Wrappers = 1 .. 3  BY DEF Wrappers
<1>2. calls \in Seq(S)
  <2>1. calls \in [1 .. 6 -> S]  BY <1>1 DEF Range
  <2> HIDE DEF calls, S
  <2> QED BY <2>1, FunctionSeq
<1>3. ASSUME NEW s \in Range(calls)
      PROVE  s.op = "ensure" /\ s.to \in Range(Wrappers) \union {"TestUnwrap"}
  <2>1. PICK i \in 1 .. 6 : s = calls[i]  BY <1>1 DEF Range
  <2>2. (i + 1) \div 2 \in 1 .. 3  OBVIOUS
  <2>3. Wrappers[(i + 1) \div 2] \in Range(Wrappers)  BY <1>1, <2>2 DEF Range
  <2> QED BY <1>1, <2>1, <2>3 DEF CallUnless
<1>4. st = <<f1, f2, f3, f4>> \o calls  BY DEF TestUnwrapScript, Script
<1>5. /\ f1.op = "leave" /\ f2.op = "get" /\ f4.op = "leave"
      /\ f3.op = "deploy" /\ f3.name = "TestUnwrap"
      /\ f3.args = <<"ENSRegistry", "BaseRegistrarImplementation">>
  BY DEF LeaveOn, Get, Deploy
<1>6. {f1, f2, f3, f4} \subseteq S  OBVIOUS
<1>7. \A s \in S : s \in Range(calls) \/ s \in {f1, f2, f3, f4}  OBVIOUS
<1> HIDE DEF st, calls, f1, f2, f3, f4, S
<1>8. st \in Seq(S)  BY <1>2, <1>4, <1>6
<1>9. st[1] = f1 /\ st[2] = f2 /\ st[3] = f3 /\ st[4] = f4  BY <1>2, <1>4, <1>6
<1>10. /\ "TestUnwrap" \notin Range(Wrappers)
       /\ ArgsOf("TestUnwrap") = <<"ENSRegistry", "BaseRegistrarImplementation">>
  BY WrapperNames DEF ArgsOf
<1>11. ASSUME NEW j \in 1 .. Len(st) PROVE SoundStep(st, j, Range(Wrappers))
  <2>1. CASE st[j] \in Range(calls)
    <3>1. j \notin {1, 2, 3, 4} /\ j \in Nat  BY <1>3, <1>5, <1>9, <2>1
    <3>2. Told(st, j, "TestUnwrap")  BY <1>5, <1>9, <3>1 DEF Told
    <3> QED BY <1>3, <2>1, <3>2 DEF SoundStep
  <2>2. CASE st[j] \in {f1, f2, f3, f4}  BY <1>5, <1>10, <2>2 DEF SoundStep
  <2> QED BY <1>7, <1>8, <2>1, <2>2
<1>12. Listed(st)  BY <1>8, ListedSeq
<1> QED BY <1>11, <1>12 DEF SoundScript, st

LEMMA ArchiveScanScriptSound == SoundScript(ArchiveScanScript, {})
<1> DEFINE st == ArchiveScanScript.steps
<1>1. Len(ArchivedNames) = 3  BY DEF ArchivedNames
<1>2. st = [i \in 1 .. 6 |-> SaveSteps(ArchivedNames[(i + 1) \div 2], TRUE)[2 - (i % 2)]]
  BY <1>1 DEF ArchiveScanScript, Script
<1>3. \A name : /\ SaveSteps(name, TRUE)[1].op = "mkdir"
                /\ SaveSteps(name, TRUE)[2].op = "write"
  BY DEF SaveSteps, MakeDirectory, WriteArtifact
<1>4. ASSUME NEW i \in 1 .. 6
      PROVE  IF i \in {1, 3, 5} THEN st[i].op = "mkdir" ELSE st[i].op = "write"
  <2>1. 2 - (i % 2) = IF i \in {1, 3, 5} THEN 1 ELSE 2  OBVIOUS
  <2>2. st[i] = SaveSteps(ArchivedNames[(i + 1) \div 2], TRUE)[IF i \in {1, 3, 5} THEN 1 ELSE 2]
    BY <1>2, <2>1
  <2> HIDE DEF st
  <2> QED BY <1>3, <2>2
<1>5. DOMAIN st = 1 .. 6 /\ st = [i \in DOMAIN st |-> st[i]]  BY <1>2
<1> HIDE DEF st
<1>6. Listed(st) /\ Len(st) = 6  BY <1>5, ListedFunction
<1>7. \A j \in 1 .. 6 : SoundStep(st, j, {})  BY <1>4, <1>6 DEF SoundStep
<1> QED BY <1>6, <1>7 DEF SoundScript, st

LEMMA SaveScriptSound == ASSUME NEW name PROVE SoundScript(SaveScript(name), {})
<1> DEFINE st == SaveScript(name).steps
<1>1. /\ st = [i \in DOMAIN st |-> st[i]] /\ DOMAIN st = 1 .. 2
      /\ st[1].op = "mkdir" /\ st[2].op = "write"
  BY DEF SaveScript, Script, SaveSteps, MakeDirectory, WriteArtifact
<1> HIDE DEF st
<1>2. Listed(st) /\ Len(st) = 2
  BY <1>1, ListedFunction
<1>3. \A j \in 1 .. 2 : SoundStep(st, j, {})  BY <1>1, <1>2 DEF SoundStep
<1> QED BY <1>2, <1>3 DEF SoundScript, st

LEMMA SeedScriptSound == SoundScript(SeedScript, {})
<1> DEFINE st == SeedScript.steps
<1>1. /\ st = [i \in DOMAIN st |-> st[i]] /\ DOMAIN st = 1 .. 1
      /\ st[1].op = "environment"
  BY DEF SeedScript, Script, ReadEnvironment
<1> HIDE DEF st
<1>2. Listed(st) /\ Len(st) = 1
  BY <1>1, ListedFunction
<1>3. \A j \in 1 .. 1 : SoundStep(st, j, {})  BY <1>1, <1>2 DEF SoundStep
<1> QED BY <1>2, <1>3 DEF SoundScript, st

-----------------------------------------------------------------------------
(* All scripts.                                                            *)

LEMMA EnsScriptsWired ==
  DOMAIN EnsScripts = 1 .. 9 /\ \A i \in 1 .. 9 : WiredScript(EnsScripts[i], {})
<1>1. WiredScript(UniversalResolverScript, {})
  <2>1. UniversalResolverScript.steps = <<>>  BY DEF UniversalResolverScript, Script
  <2> QED BY <2>1, NoSteps
<1> QED BY <1>1, BaseRegistrarScriptWired, ControllerScriptWired, RegistryScriptWired,
           ReverseRegistrarScriptWired, ResolverScriptWired, RootScriptWired,
           MetadataScriptWired, NameWrapperScriptWired
        DEF EnsScripts

LEMMA DiamondScriptsWired ==
  /\ DOMAIN DiamondScripts = 1 .. 5
  /\ \A i \in 1 .. 5 : WiredScript(DiamondScripts[i], Range(CopiedRecords))
<1>1. WiredScript(TestScript, Range(CopiedRecords))
  <2>1. TestScript.steps = <<>>  BY DEF TestScript, Script
  <2> QED BY <2>1, NoSteps
<1> QED BY <1>1, DiamondResolverScriptWired, WhitelistAuthScriptWired,
           PublicResolverFacetScriptWired, FacetCutScriptWired
        DEF DiamondScripts

LEMMA DnsScriptsSound ==
  ASSUME NEW test \in BOOLEAN
  PROVE  /\ Listed(DnsScripts(test))
         /\ \A i \in DOMAIN DnsScripts(test) : SoundScript(DnsScripts(test)[i], Range(Wrappers))
<1> DEFINE S == {s \in {OffchainResolverScript, DNSRegistrarScript, SetTLDsScript,
                        AlgorithmsScript(test), DigestsScript(test), OracleScript(test),
                        SkippedScripts[1], SkippedScripts[2], SkippedScripts[3],
                        TestUnwrapScript} : SoundScript(s, Range(Wrappers))}
<1>1. /\ OffchainResolverScript \in S /\ DNSRegistrarScript \in S /\ SetTLDsScript \in S
      /\ AlgorithmsScript(test) \in S /\ DigestsScript(test) \in S
      /\ OracleScript(test) \in S /\ TestUnwrapScript \in S
  BY OffchainResolverScriptSound, DNSRegistrarScriptSound, SetTLDsScriptSound,
     AlgorithmsScriptSound, DigestsScriptSound, OracleScriptSound, TestUnwrapScriptSound
<1>2. /\ DOMAIN SkippedScripts = 1 .. 3
      /\ SkippedScripts = [i \in DOMAIN SkippedScripts |-> SkippedScripts[i]]
      /\ \A i \in 1 .. 3 : SkippedScripts[i].steps = <<>>
  BY DEF SkippedScripts, Script
<1>3. SkippedScripts \in [1 .. 3 -> S]
  <2>1. \A i \in 1 .. 3 : SoundScript(SkippedScripts[i], Range(Wrappers))  BY <1>2, NoSteps
  <2>2. SkippedScripts[1] \in S /\ SkippedScripts[2] \in S /\ SkippedScripts[3] \in S
    BY <2>1
  <2> HIDE DEF S
  <2>3. \A i \in 1 .. 3 : SkippedScripts[i] \in S  BY <2>2
  <2> QED BY <1>2, <2>3
<1>4. SkippedScripts \in Seq(S)
  <2> HIDE DEF S
  <2> QED BY <1>3, FunctionSeq
<1>5. \A s \in S : SoundScript(s, Range(Wrappers))  OBVIOUS
<1> HIDE DEF S
<1>6. DnsScripts(test) \in Seq(S)
  <2>1. <<OffchainResolverScript, DNSRegistrarScript, SetTLDsScript,
          AlgorithmsScript(test), DigestsScript(test), OracleScript(test)>> \in Seq(S)
    BY <1>1
  <2>2. <<TestUnwrapScript>> \in Seq(S)  BY <1>1
  <2> QED BY <1>4, <2>1, <2>2 DEF DnsScripts
<1>7. \A i \in DOMAIN DnsScripts(test) : DnsScripts(test)[i] \in S  BY <1>6
<1> QED BY <1>5, <1>6, <1>7, ListedSeq

LEMMA TaskScriptsSound ==
  DOMAIN TaskScripts = 1 .. 3 /\ \A i \in 1 .. 3 : SoundScript(TaskScripts[i], {})
BY ArchiveScanScriptSound, SaveScriptSound, SeedScriptSound DEF TaskScripts

\* The names that no record is needed for: wrappers are found by their addresses.
Findable(d) == IF d.project = "dns" THEN Range(Wrappers) ELSE {}

\* What the scripts of a project do not deploy.
Copied(d) == IF d.project = "diamond" THEN Range(CopiedRecords) ELSE {}

LEMMA ScriptsSound ==
  ASSUME NEW d \in Deployments, NEW i \in DOMAIN ScriptsOf[d]
  PROVE  /\ i \in Nat
         /\ SoundScript(ScriptsOf[d][i], Findable(d))
         /\ d.project \in {"ens", "diamond"} => WiredScript(ScriptsOf[d][i], Copied(d))
<1>1. d.project \in {"ens", "diamond", "dns", "tasks"}  BY DeploymentAssumption
<1>2. CASE d.project = "ens"
  <2>1. ScriptsOf[d] = EnsScripts  BY <1>2 DEF ScriptsOf
  <2>2. i \in 1 .. 9 /\ WiredScript(EnsScripts[i], {})  BY <2>1, EnsScriptsWired
  <2> QED BY <1>2, <2>1, <2>2 DEF WiredScript, Findable, Copied
<1>3. CASE d.project = "diamond"
  <2>1. ScriptsOf[d] = DiamondScripts  BY <1>3 DEF ScriptsOf
  <2>2. i \in 1 .. 5 /\ WiredScript(DiamondScripts[i], Range(CopiedRecords))
    BY <2>1, DiamondScriptsWired
  <2> QED BY <1>3, <2>1, <2>2 DEF WiredScript, Findable, Copied
<1>4. CASE d.project = "dns"
  <2> DEFINE test == "test" \in NetworkOf(d).tags
  <2>1. test \in BOOLEAN /\ ScriptsOf[d] = DnsScripts(test)  BY <1>4 DEF ScriptsOf
  <2> HIDE DEF test
  <2>2. SoundScript(DnsScripts(test)[i], Range(Wrappers)) /\ i \in Nat
    BY <2>1, DnsScriptsSound, ListedLen
  <2> QED BY <1>4, <2>1, <2>2 DEF Findable
<1>5. CASE d.project = "tasks"
  <2>1. ScriptsOf[d] = TaskScripts  BY <1>5 DEF ScriptsOf
  <2>2. i \in 1 .. 3 /\ SoundScript(TaskScripts[i], {})  BY <2>1, TaskScriptsSound
  <2> QED BY <1>5, <2>1, <2>2 DEF Findable
<1> QED BY <1>1, <1>2, <1>3, <1>4, <1>5

\* The projects that use "deploy copy" run on networks whose records are kept.
LEMMA DnsSaves ==
  ASSUME NEW d \in Deployments, d.project = "dns"
  PROVE  NetworkOf(d).saves = TRUE
<1>1. d.network \in {"mainnet", "ropsten", "goerli"}
  BY DeploymentAssumption DEF RecordedIds
<1>2. NetworkOf(d) = EnsNetworks[d.network]  BY DEF NetworkOf
<1> QED BY <1>1, <1>2 DEF EnsNetworks, Tags

-----------------------------------------------------------------------------
(* The invariant of the runs: where records and transactions point, what   *)
(* is under way, and what a process knows at a step of a script.           *)

IsContract(c) ==
    c = [name |-> c.name, source |-> c.source, args |-> c.args, owner |-> c.owner,
         nonce |-> c.nonce]

\* Two records of a creation: of the same contract from the same source, with the
\* same arguments.
SameCreation(c, e) == c.name = e.name /\ c.source = e.source /\ c.args = e.args

ChainSound ==
    /\ Listed(contracts)
    /\ \A a \in DOMAIN contracts : IsContract(contracts[a])
    /\ \A d \in DOMAIN storage : d[1] \in DOMAIN contracts
    /\ \A n \in DOMAIN records :
          /\ records[n].at \in DOMAIN contracts
          /\ contracts[records[n].at].name = n
          /\ contracts[records[n].at].source = records[n].source
          /\ contracts[records[n].at].args = records[n].args
    /\ \A n \in Findable(deployment) :
          \E a \in DOMAIN contracts : contracts[a].name = n

\* A creation is sent by a process that then waits: nothing is sent after it.
MempoolSound ==
    /\ Listed(mempool)
    /\ \A i \in DOMAIN mempool :
          \/ mempool[i].kind = "create" /\ i = Len(mempool)
          \/ /\ mempool[i].kind = "call"
             /\ mempool[i].to \in DOMAIN contracts
             /\ mempool[i].root \in DOMAIN contracts \union {Nowhere}

LastSent == mempool[Len(mempool)]

\* The creation that is under way, or its receipt, is the one that is not recorded.
UnsavedSound ==
    /\ unsaved = None \/ unsaved = <<unsaved[1]>>
    /\ ~Saves /\ ~Running => unsaved = None
    /\ mempool # <<>> /\ LastSent.kind = "create" /\ (Saves \/ Running) => unsaved # None
    /\ unsaved # None =>
          IF mempool = <<>>
          THEN receipt.ok => /\ receipt.at = Len(contracts) /\ receipt.at \in DOMAIN contracts
                             /\ SameCreation(contracts[receipt.at], unsaved[1])
          ELSE LastSent.kind = "create" /\ SameCreation(LastSent, unsaved[1])

ChainInv == ChainSound /\ MempoolSound /\ UnsavedSound

\* What a process that has passed a step knows to be recorded.
Knows(names, st) ==
    /\ st.op = "get" => st.names \subseteq names
    /\ st.op = "deploy" => st.name \in names

Passed ==
    queue # <<>> => /\ pc <= 1 + Len(Current.steps)
                    /\ \A j \in 1 .. pc - 1 : Knows(DOMAIN records, Current.steps[j])

Awaited ==
    waiting => /\ pc <= Len(Current.steps)
               /\ This.op \in {"deploy", "call", "execute", "ensure"}
               /\ IF This.op = "deploy"
                  THEN unsaved # None /\ unsaved[1].name = This.name
                  ELSE unsaved = None

ProcessInv ==
    /\ deployment \in Deployments
    /\ queue \in Seq(DOMAIN Scripts) /\ pc \in Nat \ {0}
    /\ ~Running => queue = <<>>
    /\ queue = <<>> => pc = 1 /\ ~waiting
    /\ Passed /\ Awaited

BoundsInv ==
    /\ goal \in deployment.commands
    /\ others \in 0 .. deployment.others /\ faults \in 0 .. deployment.faults
    /\ changed = {} \/ \E name \in deployment.edits : changed = {name}
    /\ \A n \in DOMAIN archive : archive[n] \in {"empty", "written"}
    /\ outcome \in {"idle", "running", "done", "failed", "crashed"}
    /\ command \in deployment.commands \union {{}}

DeployInv == BoundsInv /\ ProcessInv /\ ChainInv

-----------------------------------------------------------------------------
(* The process.                                                            *)

LEMMA CurrentScript ==
  ASSUME deployment \in Deployments, queue \in Seq(DOMAIN Scripts), queue # <<>>
  PROVE  /\ Listed(Current.steps) /\ Len(Current.steps) \in Nat
         /\ DOMAIN Current.steps = 1 .. Len(Current.steps)
         /\ \A j \in 1 .. Len(Current.steps) : SoundStep(Current.steps, j, Findable(deployment))
         /\ Project \in {"ens", "diamond"} =>
               \A j \in 1 .. Len(Current.steps) : WiredStep(Current.steps, j, Copied(deployment))
<1>1. Head(queue) \in DOMAIN ScriptsOf[deployment]  BY DEF Scripts
<1>2. /\ SoundScript(Current, Findable(deployment))
      /\ Project \in {"ens", "diamond"} => WiredScript(Current, Copied(deployment))
  BY <1>1, ScriptsSound DEF Current, Scripts, Project
<1> QED BY <1>2, ListedLen DEF SoundScript, WiredScript

\* The run is over.
LEMMA Resting ==
  ASSUME ProcessInv, deployment' = deployment,
         queue' = <<>>, pc' = 1, ~waiting'
  PROVE  ProcessInv'
<1>1. queue' \in Seq(DOMAIN Scripts')  OBVIOUS
<1>2. Passed' /\ Awaited'  BY DEF Passed, Awaited
<1> QED BY <1>1, <1>2 DEF ProcessInv

LEMMA HasSteps ==
  ASSUME deployment' \in Deployments, queue' \in Seq(DOMAIN Scripts'), queue' # <<>>
  PROVE  Len(Current.steps)' \in Nat
<1>1. Head(queue') \in DOMAIN ScriptsOf[deployment']  BY DEF Scripts
<1>2. SoundScript(ScriptsOf[deployment'][Head(queue')], Findable(deployment'))
  BY <1>1, ScriptsSound
<1> QED BY <1>2, ListedLen DEF SoundScript, Current, Scripts

\* The first step of a script.
LEMMA Starting ==
  ASSUME deployment' \in Deployments, queue' \in Seq(DOMAIN Scripts'),
         Running', pc' = 1, ~waiting'
  PROVE  ProcessInv'
<1>1. Passed'  BY HasSteps DEF Passed
<1>2. Awaited'  BY DEF Awaited
<1> QED BY <1>1, <1>2 DEF ProcessInv

LEMMA Leaving ==
  ASSUME ProcessInv, deployment' = deployment, Running, outcome' = outcome,
         queue # <<>>, queue' = Tail(queue), pc' = 1, ~waiting'
  PROVE  ProcessInv'
<1>1. deployment' \in Deployments /\ queue' \in Seq(DOMAIN Scripts')
  BY DEF ProcessInv, Scripts
<1> QED BY <1>1, Starting DEF Running

\* The next step.
LEMMA Advancing ==
  ASSUME ProcessInv, deployment' = deployment, Running, outcome' = outcome,
         queue' = queue, queue # <<>>, pc <= Len(Current.steps), pc' = pc + 1,
         ~waiting', DOMAIN records \subseteq DOMAIN records',
         Knows(DOMAIN records', This)
  PROVE  ProcessInv'
<1>1. Current' = Current /\ Scripts' = Scripts  BY DEF Current, Scripts
<1>2. Len(Current.steps) \in Nat /\ pc \in Nat \ {0}  BY CurrentScript DEF ProcessInv
<1>3. ASSUME NEW j \in 1 .. pc' - 1 PROVE Knows(DOMAIN records', Current.steps[j])
  <2>1. CASE j = pc  BY <2>1 DEF This
  <2>2. CASE j \in 1 .. pc - 1  BY <2>2 DEF ProcessInv, Passed, Knows
  <2> QED BY <1>2, <2>1, <2>2
<1>4. pc' <= 1 + Len(Current.steps)  BY <1>2
<1>5. Passed'  BY <1>1, <1>3, <1>4 DEF Passed
<1>6. Awaited'  BY DEF Awaited
<1> QED BY <1>1, <1>2, <1>5, <1>6 DEF ProcessInv, Running

\* The process has sent something and waits for it.
LEMMA Waiting ==
  ASSUME ProcessInv, deployment' = deployment, Running, outcome' = outcome,
         queue' = queue, pc' = pc, records' = records, waiting',
         queue # <<>>, pc <= Len(Current.steps),
         This.op \in {"deploy", "call", "execute", "ensure"},
         IF This.op = "deploy" THEN unsaved' # None /\ unsaved'[1].name = This.name
                               ELSE unsaved' = None
  PROVE  ProcessInv'
<1>1. Current' = Current /\ Scripts' = Scripts /\ This' = This
  BY DEF Current, Scripts, This
<1>2. Passed'  BY <1>1 DEF ProcessInv, Passed
<1>3. Awaited'  BY <1>1 DEF Awaited
<1> QED BY <1>1, <1>2, <1>3 DEF ProcessInv, Running

\* The process is where it was.
LEMMA Standing ==
  ASSUME ProcessInv, deployment' = deployment, UNCHANGED <<queue, pc, waiting>>,
         Running' = Running, DOMAIN records \subseteq DOMAIN records',
         waiting => unsaved' = unsaved
  PROVE  ProcessInv'
<1>1. Current' = Current /\ Scripts' = Scripts /\ This' = This
  BY DEF Current, Scripts, This
<1>2. Passed'  BY <1>1 DEF ProcessInv, Passed, Knows
<1>3. Awaited'  BY <1>1 DEF ProcessInv, Awaited
<1> QED BY <1>1, <1>2, <1>3 DEF ProcessInv

LEMMA StartedRun ==
  ASSUME ProcessInv, NEW tags, Run(tags)
  PROVE  ProcessInv'
<1>1. /\ tags \in deployment.commands /\ queue' = QueueOf[deployment][tags] /\ pc' = 1
      /\ deployment' = deployment /\ waiting' = waiting /\ outcome' = "running" /\ ~Running
  BY DEF Run, setup
<1>2. queue' \in Seq(DOMAIN Scripts') /\ deployment' \in Deployments
  BY <1>1, QueueAssumption DEF ProcessInv, Scripts
<1>3. ~waiting'  BY <1>1 DEF ProcessInv
<1> QED BY <1>1, <1>2, <1>3, Starting DEF Running

-----------------------------------------------------------------------------
(* The steps, by what they do to the records and the chain.                *)

Recorded == {records[n].at : n \in DOMAIN records}

Wires == Project \in {"ens", "diamond"}

Still == UNCHANGED <<deployment, contracts, storage, receipt>>

\* Nothing happens to either; a run of a project that saves may begin or end.
Keeps ==
    /\ Still /\ UNCHANGED <<changed, records, unsaved, mempool>>
    /\ Running' => Running \/ Saves
    /\ ~Saves /\ ~Running' => unsaved = None

\* What was under way is forgotten.
Forgets ==
    /\ Still /\ UNCHANGED <<changed, records, mempool>>
    /\ ~Saves /\ ~Running' /\ unsaved' = None

\* Everything starts anew.
Restarts ==
    /\ ~Saves /\ mempool = <<>> /\ unsaved = None
    /\ records' = NoRecords /\ contracts' = <<>> /\ storage' = NoRecords
    /\ UNCHANGED <<deployment, changed, unsaved, mempool, receipt>>

Edits(name) ==
    /\ changed = {} /\ changed' = {name}
    /\ Still /\ UNCHANGED <<records, unsaved, mempool>> /\ Running' = Running

Calls(tx) ==
    /\ Running /\ Running' /\ unsaved = None
    /\ tx.kind = "call" /\ tx.to \in DOMAIN contracts
    /\ tx.root \in DOMAIN contracts \union {Nowhere}
    /\ Wires => tx.to \in Recorded /\ tx.value \in Recorded
    /\ mempool' = Append(mempool, tx)
    /\ Still /\ UNCHANGED <<changed, records, unsaved>>

Deploys(name) ==
    /\ Running /\ Running' /\ unsaved = None
    /\ name \notin Range(Wrappers)
    /\ ~UpToDate(name, Arguments(ArgsOf(name)))
    /\ Wires => /\ name \notin Copied(deployment)
                /\ \A i \in DOMAIN ArgsOf(name) : ArgsOf(name)[i] \in DOMAIN records
    /\ unsaved' = <<[name |-> name, source |-> Source(name),
                     args |-> Arguments(ArgsOf(name))]>>
    /\ mempool' = Append(mempool, [kind |-> "create", name |-> name,
                                   source |-> Source(name),
                                   args |-> Arguments(ArgsOf(name))])
    /\ Still /\ UNCHANGED <<changed, records>>

Records ==
    /\ Running /\ unsaved # None /\ mempool = <<>>
    /\ unsaved' = None
    /\ records' = IF receipt.ok
                  THEN WithRecord(unsaved[1].name,
                                  [at |-> receipt.at, source |-> unsaved[1].source,
                                   args |-> unsaved[1].args])
                  ELSE records
    /\ Still /\ UNCHANGED <<changed, mempool>>

Steps ==
    \/ Keeps \/ Forgets \/ Restarts \/ Records \/ Mine
    \/ \E name : Edits(name)
    \/ \E tx : Calls(tx)
    \/ \E name : Deploys(name)

LEMMA IsWrapper == ASSUME NEW name PROVE Contains(Wrappers, name) <=> name \in Range(Wrappers)
BY DEF Contains, Wrappers, Range

\* What a process was told of is recorded.
LEMMA ToldRecorded ==
  ASSUME ProcessInv, queue # <<>>, pc <= Len(Current.steps),
         NEW name, Told(Current.steps, pc, name)
  PROVE  name \in DOMAIN records
<1>1. PICK i \in 1 .. pc - 1 :
        \/ Current.steps[i].op = "get" /\ name \in Current.steps[i].names
        \/ Current.steps[i].op = "deploy" /\ name = Current.steps[i].name
  BY DEF Told
<1>2. Knows(DOMAIN records, Current.steps[i])  BY DEF ProcessInv, Passed
<1> QED BY <1>1, <1>2 DEF Knows

LEMMA AddressRecorded ==
  ASSUME ChainSound, NEW name \in DOMAIN records
  PROVE  /\ Address(name) = records[name].at
         /\ Address(name) \in DOMAIN contracts /\ Address(name) \in Recorded
BY DEF ChainSound, Address, Recorded

LEMMA AddressFound ==
  ASSUME ChainSound, NEW name, name \in DOMAIN records \/ name \in Findable(deployment)
  PROVE  Address(name) \in DOMAIN contracts
<1>1. CASE name \in DOMAIN records  BY <1>1, AddressRecorded
<1>2. CASE name \notin DOMAIN records
  <2>1. name \in Findable(deployment) /\ Contains(Wrappers, name)
    BY <1>2, IsWrapper DEF Findable
  <2>2. \E a \in DOMAIN contracts : contracts[a].name = name
    BY <2>1 DEF ChainSound
  <2> QED BY <1>2, <2>1, <2>2 DEF Address
<1> QED BY <1>1, <1>2

\* What a process at a step can rely on.
LEMMA StepSound ==
  ASSUME ProcessInv, NEW op, AtStep(op)
  PROVE  /\ queue # <<>> /\ pc <= Len(Current.steps) /\ This.op = op
         /\ SoundStep(Current.steps, pc, Findable(deployment))
         /\ Wires => WiredStep(Current.steps, pc, Copied(deployment))
<1>1. queue # <<>> /\ pc <= Len(Current.steps) /\ This.op = op  BY DEF AtStep
<1>2. pc \in 1 .. Len(Current.steps)  BY <1>1, CurrentScript DEF ProcessInv
<1> QED BY <1>1, <1>2, CurrentScript DEF ProcessInv, Wires

LEMMA CallFound ==
  ASSUME ProcessInv, ChainSound, NEW op \in {"call", "execute", "send", "ensure"},
         AtStep(op)
  PROVE  /\ Address(This.to) \in DOMAIN contracts
         /\ op = "execute" => Address("Root") \in DOMAIN contracts
         /\ Wires => Address(This.to) \in Recorded /\ Address(This.value) \in Recorded
<1>1. /\ queue # <<>> /\ pc <= Len(Current.steps) /\ This.op = op
      /\ SoundStep(Current.steps, pc, Findable(deployment))
      /\ Wires => WiredStep(Current.steps, pc, Copied(deployment))
  BY StepSound
<1>2. Told(Current.steps, pc, This.to) \/ This.to \in Findable(deployment)
  BY <1>1 DEF SoundStep, This
<1>3. op = "execute" => Told(Current.steps, pc, "Root")
  BY <1>1 DEF SoundStep, This
<1>4. Wires => Told(Current.steps, pc, This.to) /\ Told(Current.steps, pc, This.value)
  BY <1>1 DEF WiredStep, This
<1> QED BY <1>1, <1>2, <1>3, <1>4, ToldRecorded, AddressRecorded, AddressFound

-----------------------------------------------------------------------------
(* Each action is one of these steps, and leaves the process in its place. *)

LEMMA QuietKeeps ==
  ASSUME UNCHANGED <<deployment, chain, changed, records, unsaved>>,
         Running' => Running, unsaved = None
  PROVE  Keeps
BY DEF Keeps, Still, chain

LEMMA EndRunStep == ASSUME ProcessInv, EndRun PROVE ProcessInv' /\ Keeps
<1>1. /\ Running
      /\ unsaved = None
      /\ UNCHANGED <<deployment, chain, changed, records, unsaved>>
      /\ queue' = <<>> /\ pc' = 1 /\ ~waiting' /\ ~Running'
  BY DEF EndRun, Ready, Rest, setup, directory, operator, Running
<1> QED BY <1>1, Resting, QuietKeeps

LEMMA SkipScriptStep == ASSUME ProcessInv, SkipScript PROVE ProcessInv' /\ Keeps
<1>1. /\ Running
      /\ unsaved = None
      /\ UNCHANGED <<deployment, chain, changed, records, unsaved>>
      /\ queue # <<>> /\ queue' = Tail(queue) /\ pc' = 1 /\ ~waiting' /\ outcome' = outcome
  BY DEF SkipScript, Ready, setup, directory, operator
<1> QED BY <1>1, Leaving, QuietKeeps DEF Running

LEMMA EndScriptStep == ASSUME ProcessInv, EndScript PROVE ProcessInv' /\ Keeps
<1>1. /\ Running
      /\ unsaved = None
      /\ UNCHANGED <<deployment, chain, changed, records, unsaved>>
      /\ queue # <<>> /\ queue' = Tail(queue) /\ pc' = 1 /\ ~waiting' /\ outcome' = outcome
  BY DEF EndScript, Ready, setup, operator
<1> QED BY <1>1, Leaving, QuietKeeps DEF Running

LEMMA GetRecordsStep == ASSUME ProcessInv, GetRecords PROVE ProcessInv' /\ Keeps
<1>1. /\ Running /\ ~waiting /\ AtStep("get") /\ unsaved = None
      /\ UNCHANGED <<deployment, chain, changed, records, unsaved>>
  BY DEF GetRecords, Before, AtStep, setup, directory, operator
<1>2. queue # <<>> /\ pc <= Len(Current.steps) /\ This.op = "get"  BY <1>1, StepSound
<1>3. CASE This.names \subseteq DOMAIN records
  <2>1. pc' = pc + 1 /\ ~waiting' /\ outcome' = outcome /\ queue' = queue
    BY <1>1, <1>3 DEF GetRecords, Advance
  <2>2. Knows(DOMAIN records', This)  BY <1>1, <1>2, <1>3 DEF Knows
  <2>3. ProcessInv'  BY <1>1, <1>2, <2>1, <2>2, Advancing
  <2> QED BY <1>1, <2>1, <2>3, QuietKeeps DEF Running
<1>4. CASE ~(This.names \subseteq DOMAIN records)
  <2>1. queue' = <<>> /\ pc' = 1 /\ ~waiting' /\ ~Running'
    BY <1>4 DEF GetRecords, Throws, Rest, Running
  <2> QED BY <1>1, <2>1, Resting, QuietKeeps
<1> QED BY <1>3, <1>4

\* Steps that go on to the next, or to the next script, whatever they find.
LEMMA PassingStep ==
  ASSUME ProcessInv, NEW op, Before(op), op \notin {"get", "deploy"},
         UNCHANGED <<deployment, chain, changed, records, unsaved>>,
         \/ Advance(1) /\ ~waiting'
         \/ Leave /\ ~waiting'
         \/ Throws
  PROVE  ProcessInv' /\ Keeps
<1>1. Running /\ ~waiting /\ AtStep(op) /\ unsaved = None  BY DEF Before, AtStep
<1>2. queue # <<>> /\ pc <= Len(Current.steps) /\ This.op = op  BY <1>1, StepSound
<1>3. Knows(DOMAIN records', This)  BY <1>2 DEF Knows
<1>4. CASE Advance(1) /\ ~waiting'
  <2>1. pc' = pc + 1 /\ outcome' = outcome /\ queue' = queue  BY <1>4 DEF Advance
  <2>2. ProcessInv'  BY <1>1, <1>2, <1>3, <1>4, <2>1, Advancing
  <2> QED BY <1>1, <2>1, <2>2, QuietKeeps DEF Running
<1>5. CASE Leave /\ ~waiting'
  <2>1. queue' = Tail(queue) /\ pc' = 1 /\ outcome' = outcome  BY <1>5 DEF Leave
  <2>2. ProcessInv'  BY <1>1, <1>2, <1>5, <2>1, Leaving
  <2> QED BY <1>1, <2>1, <2>2, QuietKeeps DEF Running
<1>6. CASE Throws
  <2>1. queue' = <<>> /\ pc' = 1 /\ ~waiting' /\ ~Running'
    BY <1>6 DEF Throws, Rest, Running
  <2> QED BY <1>1, <2>1, Resting, QuietKeeps
<1> QED BY <1>4, <1>5, <1>6

LEMMA LeaveNetworkStep == ASSUME ProcessInv, LeaveNetwork PROVE ProcessInv' /\ Keeps
<1>1. /\ Before("leave") /\ UNCHANGED <<deployment, chain, changed, records, unsaved>>
      /\ (Advance(1) /\ ~waiting') \/ (Leave /\ ~waiting')
  BY DEF LeaveNetwork, Before, setup, directory, operator
<1> QED BY <1>1, PassingStep

LEMMA SettleAllStep == ASSUME ProcessInv, SettleAll PROVE ProcessInv' /\ Keeps
<1>1. /\ Before("settle") /\ UNCHANGED <<deployment, chain, changed, records, unsaved>>
      /\ Advance(1) /\ ~waiting'
  BY DEF SettleAll, Before, setup, directory, operator
<1> QED BY <1>1, PassingStep

LEMMA RequireSetStep == ASSUME ProcessInv, RequireSet PROVE ProcessInv' /\ Keeps
<1>1. /\ Before("require") /\ UNCHANGED <<deployment, chain, changed, records, unsaved>>
      /\ (Advance(1) /\ ~waiting') \/ Throws
  BY DEF RequireSet, Before, setup, directory, operator
<1> QED BY <1>1, PassingStep

LEMMA WriteArchiveStep == ASSUME ProcessInv, WriteArchive PROVE ProcessInv' /\ Keeps
<1>1. /\ Before("write") /\ UNCHANGED <<deployment, chain, changed, records, unsaved>>
      /\ Advance(1) /\ ~waiting'
  BY DEF WriteArchive, Before, setup, operator
<1> QED BY <1>1, PassingStep

LEMMA ReadEnvironmentFileStep ==
  ASSUME ProcessInv, ReadEnvironmentFile PROVE ProcessInv' /\ Keeps
<1>1. /\ Before("environment") /\ UNCHANGED <<deployment, chain, changed, records, unsaved>>
      /\ (Leave /\ ~waiting') \/ Throws
  BY DEF ReadEnvironmentFile, Before, setup, directory, operator
<1> QED BY <1>1, PassingStep

\* A scan that finds a directory skips the writing of its file too.
LEMMA MakeArchiveStep == ASSUME ProcessInv, MakeArchive PROVE ProcessInv' /\ Keeps
<1>1. /\ Before("mkdir") /\ UNCHANGED <<deployment, chain, changed, records, unsaved>>
      /\ (Advance(2) /\ ~waiting') \/ (Advance(1) /\ ~waiting') \/ Throws
  BY DEF MakeArchive, Before, setup, operator
<1>2. CASE Advance(2) /\ ~waiting'
  <2>1. Running /\ AtStep("mkdir") /\ unsaved = None  BY <1>1 DEF Before, AtStep
  <2>2. /\ queue # <<>> /\ This.op = "mkdir"
        /\ SoundStep(Current.steps, pc, Findable(deployment))
    BY <2>1, StepSound
  <2>3. pc < Len(Current.steps) /\ Current.steps[pc + 1].op = "write"
    BY <2>2 DEF SoundStep, This
  <2>4. pc' = pc + 2 /\ outcome' = outcome /\ queue' = queue /\ ~waiting'
    BY <1>2 DEF Advance
  <2>5. Len(Current.steps) \in Nat /\ pc \in Nat \ {0}  BY <2>2, CurrentScript DEF ProcessInv
  <2>6. Current' = Current /\ Scripts' = Scripts  BY <1>1, <2>4 DEF Current, Scripts
  <2>7. ASSUME NEW j \in 1 .. pc' - 1 PROVE Knows(DOMAIN records, Current.steps[j])
    <3>1. CASE j \in {pc, pc + 1}  BY <2>2, <2>3, <3>1 DEF Knows, This
    <3>2. CASE j \in 1 .. pc - 1  BY <2>2, <3>2 DEF ProcessInv, Passed
    <3> QED BY <2>4, <2>5, <3>1, <3>2
  <2>8. pc' <= 1 + Len(Current.steps) /\ pc' \in Nat \ {0}  BY <2>3, <2>4, <2>5
  <2>9. Passed'  BY <1>1, <2>6, <2>7, <2>8 DEF Passed
  <2>10. Awaited'  BY <2>4 DEF Awaited
  <2>11. ProcessInv'  BY <1>1, <2>1, <2>2, <2>4, <2>6, <2>8, <2>9, <2>10 DEF ProcessInv, Running
  <2> QED BY <1>1, <2>1, <2>4, <2>11, QuietKeeps DEF Running
<1> QED BY <1>1, <1>2, PassingStep

LEMMA MinedStep == ASSUME ProcessInv, Mined PROVE ProcessInv' /\ Keeps
<1>1. PICK op \in {"call", "execute", "ensure"} : After(op)  BY DEF Mined
<1>2. /\ Running /\ AtStep(op) /\ unsaved = None
      /\ UNCHANGED <<deployment, chain, changed, records, unsaved>>
  BY <1>1 DEF Mined, After, AtStep, setup, directory, operator
<1>3. queue # <<>> /\ pc <= Len(Current.steps) /\ This.op = op  BY <1>2, StepSound
<1>4. Knows(DOMAIN records', This)  BY <1>3 DEF Knows
<1>5. CASE receipt.ok
  <2>1. pc' = pc + 1 /\ outcome' = outcome /\ queue' = queue /\ ~waiting'
    BY <1>5 DEF Mined, Advance
  <2>2. ProcessInv'  BY <1>2, <1>3, <1>4, <2>1, Advancing
  <2> QED BY <1>2, <2>1, <2>2, QuietKeeps DEF Running
<1>6. CASE ~receipt.ok
  <2>1. queue' = <<>> /\ pc' = 1 /\ ~waiting' /\ ~Running'
    BY <1>6 DEF Mined, Throws, Rest, Running
  <2> QED BY <1>2, <2>1, Resting, QuietKeeps
<1> QED BY <1>5, <1>6

LEMMA KeepDeployedStep == ASSUME ProcessInv, KeepDeployed PROVE ProcessInv' /\ Keeps
<1>1. /\ Running /\ ~waiting /\ AtStep("deploy") /\ unsaved = None
      /\ UNCHANGED <<deployment, chain, changed, records, unsaved>> /\ ~waiting'
  BY DEF KeepDeployed, Before, AtStep, setup, directory, operator
<1>2. queue # <<>> /\ pc <= Len(Current.steps) /\ This.op = "deploy"  BY <1>1, StepSound
<1>3. This.name \in DOMAIN records  BY DEF KeepDeployed, UpToDate
<1>4. Knows(DOMAIN records', This)  BY <1>1, <1>2, <1>3 DEF Knows
<1>5. CASE ~This.once
  <2>1. pc' = pc + 1 /\ outcome' = outcome /\ queue' = queue  BY <1>5 DEF KeepDeployed, Advance
  <2>2. ProcessInv'  BY <1>1, <1>2, <1>4, <2>1, Advancing
  <2> QED BY <1>1, <2>1, <2>2, QuietKeeps DEF Running
<1>6. CASE This.once
  <2>1. queue' = Tail(queue) /\ pc' = 1 /\ outcome' = outcome  BY <1>6 DEF KeepDeployed, Leave
  <2>2. ProcessInv'  BY <1>1, <1>2, <2>1, Leaving
  <2> QED BY <1>1, <2>1, <2>2, QuietKeeps DEF Running
<1> QED BY <1>5, <1>6

LEMMA CallStep ==
  ASSUME ProcessInv, ChainSound, NEW op \in {"call", "execute", "send", "ensure"},
         AtStep(op), NEW root \in {Nowhere, Address("Root")},
         root # Nowhere => op = "execute",
         NEW nonce, NEW fresh, Submit(CallOf(root, nonce, fresh)),
         UNCHANGED <<deployment, changed, records, unsaved>>, Running'
  PROVE  Calls(CallOf(root, nonce, fresh))
<1> DEFINE tx == CallOf(root, nonce, fresh)
<1>1. /\ Address(This.to) \in DOMAIN contracts
      /\ op = "execute" => Address("Root") \in DOMAIN contracts
      /\ Wires => Address(This.to) \in Recorded /\ Address(This.value) \in Recorded
  BY CallFound
<1>2. tx.kind = "call" /\ tx.to = Address(This.to) /\ tx.root = root
      /\ tx.value = Address(This.value)
  BY DEF CallOf
<1>3. Running /\ unsaved = None  BY DEF AtStep
<1>4. mempool' = Append(mempool, tx) /\ Still  BY DEF Submit, Still
<1>5. tx.root \in DOMAIN contracts \union {Nowhere}  BY <1>1, <1>2
<1> HIDE DEF tx
<1> QED BY <1>1, <1>2, <1>3, <1>4, <1>5 DEF Calls, tx

LEMMA SendCallStep ==
  ASSUME ProcessInv, ChainSound, SendCall PROVE ProcessInv' /\ \E tx : Calls(tx)
<1>1. /\ Running /\ AtStep("call") /\ unsaved = None
      /\ Submit(CallOf(Nowhere, 0, This.fresh))
      /\ UNCHANGED <<deployment, changed, records, unsaved, outcome, queue, pc>> /\ waiting'
  BY DEF SendCall, Before, AtStep, setup, directory, operator
<1>2. Running'  BY <1>1 DEF Running
<1>3. Calls(CallOf(Nowhere, 0, This.fresh))  BY <1>1, <1>2, CallStep
<1>4. queue # <<>> /\ pc <= Len(Current.steps) /\ This.op = "call"  BY <1>1, StepSound
<1>5. ProcessInv'  BY <1>1, <1>4, Waiting
<1> QED BY <1>3, <1>5

LEMMA ExecuteByRootStep ==
  ASSUME ProcessInv, ChainSound, ExecuteByRoot
  PROVE  ProcessInv' /\ IF deployment.upstream
                        THEN Keeps
                        ELSE Calls(CallOf(Address("Root"), This.nonce, FALSE))
<1>1. CASE deployment.upstream
  <2>1. /\ Before("execute") /\ UNCHANGED <<deployment, chain, changed, records, unsaved>>
        /\ Throws
    BY <1>1 DEF ExecuteByRoot, Before, setup, directory, operator
  <2> QED BY <1>1, <2>1, PassingStep
<1>2. CASE ~deployment.upstream
  <2>1. /\ Running /\ AtStep("execute") /\ unsaved = None
        /\ Submit(CallOf(Address("Root"), This.nonce, FALSE))
        /\ UNCHANGED <<deployment, changed, records, unsaved, outcome, queue, pc>> /\ waiting'
    BY <1>2 DEF ExecuteByRoot, Before, AtStep, setup, directory, operator
  <2>2. Running'  BY <2>1 DEF Running
  <2>3. Calls(CallOf(Address("Root"), This.nonce, FALSE))  BY <2>1, <2>2, CallStep
  <2>4. queue # <<>> /\ pc <= Len(Current.steps) /\ This.op = "execute"  BY <2>1, StepSound
  <2>5. ProcessInv'  BY <2>1, <2>4, Waiting
  <2> QED BY <1>2, <2>3, <2>5
<1> QED BY <1>1, <1>2

LEMMA SendUnlessSetStep ==
  ASSUME ProcessInv, ChainSound, SendUnlessSet
  PROVE  ProcessInv' /\ (Keeps \/ \E tx : Calls(tx))
<1>1. /\ Running /\ ~waiting /\ AtStep("send") /\ unsaved = None
      /\ UNCHANGED <<deployment, changed, records, unsaved>>
      /\ outcome' = outcome /\ queue' = queue /\ pc' = pc + 1 /\ ~waiting'
      /\ UNCHANGED chain \/ Submit(CallOf(Nowhere, 0, FALSE))
  BY DEF SendUnlessSet, Before, AtStep, Advance, setup, directory, operator
<1>2. Running'  BY <1>1 DEF Running
<1>3. queue # <<>> /\ pc <= Len(Current.steps) /\ This.op = "send"  BY <1>1, StepSound
<1>4. Knows(DOMAIN records', This)  BY <1>3 DEF Knows
<1>5. ProcessInv'  BY <1>1, <1>3, <1>4, Advancing
<1>6. CASE UNCHANGED chain  BY <1>1, <1>5, <1>6, QuietKeeps
<1>7. CASE Submit(CallOf(Nowhere, 0, FALSE))
  <2>1. Calls(CallOf(Nowhere, 0, FALSE))  BY <1>1, <1>2, <1>7, CallStep
  <2> QED BY <1>5, <2>1
<1> QED BY <1>1, <1>6, <1>7

LEMMA CallUnlessSetStep ==
  ASSUME ProcessInv, ChainSound, CallUnlessSet
  PROVE  ProcessInv' /\ (Keeps \/ \E tx : Calls(tx))
<1>1. /\ Before("ensure") /\ AtStep("ensure") /\ Running /\ ~waiting /\ unsaved = None
      /\ UNCHANGED <<deployment, changed, records, unsaved>>
      /\ \/ Advance(1) /\ ~waiting' /\ UNCHANGED chain
         \/ /\ Submit(CallOf(Nowhere, 0, FALSE)) /\ waiting'
            /\ UNCHANGED <<outcome, queue, pc>>
  BY DEF CallUnlessSet, Before, AtStep, setup, directory, operator
<1>2. CASE Advance(1) /\ ~waiting' /\ UNCHANGED chain  BY <1>1, <1>2, PassingStep
<1>3. CASE /\ Submit(CallOf(Nowhere, 0, FALSE)) /\ waiting'
           /\ UNCHANGED <<outcome, queue, pc>>
  <2>1. Running'  BY <1>1, <1>3 DEF Running
  <2>2. Calls(CallOf(Nowhere, 0, FALSE))  BY <1>1, <1>3, <2>1, CallStep
  <2>3. queue # <<>> /\ pc <= Len(Current.steps) /\ This.op = "ensure"  BY <1>1, StepSound
  <2>4. ProcessInv'  BY <1>1, <1>3, <2>3, Waiting
  <2> QED BY <2>2, <2>4
<1> QED BY <1>1, <1>2, <1>3

LEMMA SendDeploymentStep ==
  ASSUME ProcessInv, ChainSound, SendDeployment
  PROVE  ProcessInv' /\ Deploys(This.name)
<1>1. /\ Running /\ ~waiting /\ AtStep("deploy") /\ unsaved = None
      /\ ~UpToDate(This.name, Arguments(This.args))
      /\ unsaved' = <<[name |-> This.name, source |-> Source(This.name),
                       args |-> Arguments(This.args)]>>
      /\ Submit([kind |-> "create", name |-> This.name, source |-> Source(This.name),
                 args |-> Arguments(This.args)])
      /\ UNCHANGED <<deployment, changed, records, outcome, queue, pc>> /\ waiting'
  BY DEF SendDeployment, Before, AtStep, setup, operator
<1>2. /\ queue # <<>> /\ pc <= Len(Current.steps) /\ This.op = "deploy"
      /\ SoundStep(Current.steps, pc, Findable(deployment))
      /\ Wires => WiredStep(Current.steps, pc, Copied(deployment))
  BY <1>1, StepSound
<1>3. This.name \notin Range(Wrappers) /\ This.args = ArgsOf(This.name)
  BY <1>2 DEF SoundStep, This
<1>4. Wires => /\ This.name \notin Copied(deployment)
               /\ \A i \in DOMAIN This.args : Told(Current.steps, pc, This.args[i])
  BY <1>2 DEF WiredStep, This
<1>5. Wires => \A i \in DOMAIN This.args : This.args[i] \in DOMAIN records
  BY <1>2, <1>4, ToldRecorded
<1>6. unsaved' # None /\ unsaved'[1].name = This.name  BY <1>1 DEF None
<1>7. ProcessInv'  BY <1>1, <1>2, <1>6, Waiting
<1>8. Deploys(This.name)
  BY <1>1, <1>3, <1>4, <1>5 DEF Deploys, Submit, Still, Running
<1> QED BY <1>7, <1>8

LEMMA RecordsMore ==
  ASSUME NEW name, NEW record, records' = WithRecord(name, record)
  PROVE  DOMAIN records' = DOMAIN records \union {name}
BY DEF WithRecord, With

LEMMA SaveDeploymentStep ==
  ASSUME ProcessInv, SaveDeployment PROVE ProcessInv' /\ Records
<1> DEFINE r == [at |-> receipt.at, source |-> unsaved[1].source,
                 args |-> unsaved[1].args]
<1>1. /\ Running /\ waiting /\ unsaved # None /\ mempool = <<>> /\ unsaved' = None
      /\ UNCHANGED <<deployment, changed, chain>>
      /\ IF receipt.ok THEN records' = WithRecord(unsaved[1].name, r)
                       ELSE records' = records
  BY DEF SaveDeployment, setup, operator
<1>2. Records  BY <1>1 DEF Records, chain, Still
<1>3. /\ queue # <<>> /\ pc <= Len(Current.steps)
      /\ This.op = "deploy" /\ unsaved[1].name = This.name
  BY <1>1 DEF ProcessInv, Awaited
<1>4. CASE receipt.ok
  <2>1. outcome' = outcome /\ queue' = queue /\ pc' = pc + 1 /\ ~waiting'
    BY <1>4 DEF SaveDeployment, Advance
  <2>2. records' = WithRecord(This.name, r)  BY <1>1, <1>3, <1>4
  <2> HIDE DEF r
  <2>3. DOMAIN records' = DOMAIN records \union {This.name}  BY <2>2, RecordsMore
  <2>4. Knows(DOMAIN records', This)  BY <1>3, <2>3 DEF Knows
  <2>5. ProcessInv'  BY <1>1, <1>3, <2>1, <2>3, <2>4, Advancing
  <2> QED BY <1>2, <2>5
<1>5. CASE ~receipt.ok
  <2>1. queue' = <<>> /\ pc' = 1 /\ ~waiting'
    BY <1>5 DEF SaveDeployment, Throws, Rest
  <2> QED BY <1>1, <1>2, <2>1, Resting
<1> QED BY <1>4, <1>5

LEMMA AdoptStep == ASSUME ProcessInv, Adopt PROVE ProcessInv' /\ Records
<1> DEFINE r == [at |-> receipt.at, source |-> unsaved[1].source,
                 args |-> unsaved[1].args]
<1>1. /\ Running /\ ~waiting /\ unsaved # None /\ mempool = <<>> /\ unsaved' = None
      /\ UNCHANGED <<deployment, changed, chain, queue, pc, waiting, outcome>>
      /\ IF receipt.ok THEN records' = WithRecord(unsaved[1].name, r)
                       ELSE records' = records
  BY DEF Adopt, setup, operator, process
<1>2. Records  BY <1>1 DEF Records, chain, Still
<1> HIDE DEF r
<1>3. DOMAIN records \subseteq DOMAIN records'  BY <1>1, RecordsMore
<1>4. ProcessInv'  BY <1>1, <1>3, Standing DEF Running
<1> QED BY <1>2, <1>4

LEMMA MineStep == ASSUME ProcessInv, Mine PROVE ProcessInv'
<1>1. UNCHANGED <<deployment, records, unsaved, queue, pc, waiting, outcome>>
  BY DEF Mine, setup, directory, process
<1> QED BY <1>1, Standing DEF Running

LEMMA CrashStep == ASSUME ProcessInv, Crash PROVE ProcessInv' /\ (Keeps \/ Forgets)
<1>1. /\ Running /\ ~Running' /\ queue' = <<>> /\ pc' = 1 /\ ~waiting'
      /\ UNCHANGED <<deployment, chain, changed, records>>
      /\ unsaved' = IF Saves THEN unsaved ELSE None
  BY DEF Crash, Rest, Running, setup
<1>2. ProcessInv'  BY <1>1, Resting
<1>3. CASE Saves  BY <1>1, <1>2, <1>3 DEF Keeps, Still, chain
<1>4. CASE ~Saves  BY <1>1, <1>2, <1>4 DEF Forgets, Still, chain
<1> QED BY <1>3, <1>4

LEMMA EditStep == ASSUME ProcessInv, NEW name, Edit(name) PROVE ProcessInv' /\ Edits(name)
<1>1. /\ UNCHANGED <<deployment, records, unsaved, chain, queue, pc, waiting, outcome>>
      /\ changed = {} /\ changed' = {name}
  BY DEF Edit, setup, directory, process
<1>2. ProcessInv'  BY <1>1, Standing DEF Running
<1>3. Edits(name)  BY <1>1 DEF Edits, Still, chain, Running
<1> QED BY <1>2, <1>3

LEMMA RunStep ==
  ASSUME ProcessInv, UnsavedSound, NEW tags, Run(tags)
  PROVE  ProcessInv' /\ (Keeps \/ Restarts)
<1>1. /\ ~Running /\ UNCHANGED <<deployment, changed>>
      /\ Saves \/ mempool = <<>>
      /\ IF Saves THEN UNCHANGED <<directory, chain>>
         ELSE /\ records' = NoRecords
              /\ contracts' = <<>> /\ storage' = NoRecords
              /\ UNCHANGED <<unsaved, mempool, receipt>>
  BY DEF Run, setup
<1>2. ProcessInv'  BY StartedRun
<1>3. ~Saves => unsaved = None  BY <1>1 DEF UnsavedSound
<1>4. CASE Saves  BY <1>1, <1>2, <1>4 DEF Keeps, Still, directory, chain
<1>5. CASE ~Saves  BY <1>1, <1>2, <1>3, <1>5 DEF Restarts
<1> QED BY <1>4, <1>5

LEMMA StutterStep ==
  ASSUME ProcessInv, UnsavedSound, UNCHANGED vars PROVE ProcessInv' /\ Keeps
<1>1. UNCHANGED <<deployment, changed, records, unsaved, chain, queue, pc, waiting, outcome>>
  BY DEF vars, setup, directory, operator, process
<1>2. ProcessInv'  BY <1>1, Standing DEF Running
<1>3. Keeps  BY <1>1 DEF Keeps, Still, chain, Running, UnsavedSound
<1> QED BY <1>2, <1>3

LEMMA NextSteps ==
  ASSUME ProcessInv, ChainInv, [Next]_vars
  PROVE  ProcessInv' /\ Steps
<1>0. ChainSound /\ UnsavedSound  BY DEF ChainInv
<1>1. ASSUME NEW tags, Run(tags) PROVE ProcessInv' /\ Steps
  BY <1>0, <1>1, RunStep DEF Steps
<1>2. ASSUME Step PROVE ProcessInv' /\ (Keeps \/ Records \/ (\E tx : Calls(tx))
                                        \/ \E name : Deploys(name))
  <2>1. CASE Adopt  BY <2>1, AdoptStep
  <2>2. CASE SkipScript  BY <2>2, SkipScriptStep
  <2>3. CASE EndScript  BY <2>3, EndScriptStep
  <2>4. CASE EndRun  BY <2>4, EndRunStep
  <2>5. CASE GetRecords  BY <2>5, GetRecordsStep
  <2>6. CASE LeaveNetwork  BY <2>6, LeaveNetworkStep
  <2>7. CASE KeepDeployed  BY <2>7, KeepDeployedStep
  <2>8. CASE SendDeployment  BY <1>0, <2>8, SendDeploymentStep
  <2>9. CASE SaveDeployment  BY <2>9, SaveDeploymentStep
  <2>10. CASE SendCall  BY <1>0, <2>10, SendCallStep
  <2>11. CASE ExecuteByRoot  BY <1>0, <2>11, ExecuteByRootStep
  <2>12. CASE SendUnlessSet  BY <1>0, <2>12, SendUnlessSetStep
  <2>13. CASE CallUnlessSet  BY <1>0, <2>13, CallUnlessSetStep
  <2>14. CASE Mined  BY <2>14, MinedStep
  <2>15. CASE SettleAll  BY <2>15, SettleAllStep
  <2>16. CASE RequireSet  BY <2>16, RequireSetStep
  <2>17. CASE MakeArchive  BY <2>17, MakeArchiveStep
  <2>18. CASE WriteArchive  BY <2>18, WriteArchiveStep
  <2>19. CASE ReadEnvironmentFile  BY <2>19, ReadEnvironmentFileStep
  <2> QED BY <1>2, <2>1, <2>2, <2>3, <2>4, <2>5, <2>6, <2>7, <2>8, <2>9, <2>10, <2>11,
             <2>12, <2>13, <2>14, <2>15, <2>16, <2>17, <2>18, <2>19 DEF Step
<1>3. ASSUME Mine PROVE ProcessInv' /\ Steps  BY <1>3, MineStep DEF Steps
<1>4. ASSUME Crash PROVE ProcessInv' /\ Steps  BY <1>4, CrashStep DEF Steps
<1>5. ASSUME NEW name, Edit(name) PROVE ProcessInv' /\ Steps
  BY <1>5, EditStep DEF Steps
<1>6. ASSUME UNCHANGED vars PROVE ProcessInv' /\ Steps
  BY <1>0, <1>6, StutterStep DEF Steps
<1>7. ASSUME Step PROVE ProcessInv' /\ Steps  BY <1>2, <1>7 DEF Steps
<1> QED BY <1>1, <1>3, <1>4, <1>5, <1>6, <1>7 DEF Next

-----------------------------------------------------------------------------
(* The records and the chain.                                              *)

LEMMA SavesStays == ASSUME deployment' = deployment PROVE Saves' = Saves
BY DEF Saves, Network

\* What the chain mines: a creation that was the last transaction, or a call.
MinedCreation(tx) ==
    /\ tx.kind = "create" /\ mempool' = <<>> /\ mempool = <<tx>> /\ LastSent = tx
    /\ \/ /\ contracts' = Append(contracts, Contract(tx.name, tx.source, tx.args,
                                                     OwnerOf(tx.name)))
          /\ receipt' = Succeeded(Len(contracts) + 1)
       \/ receipt' = Failed /\ contracts' = contracts
    /\ storage' = storage

MinedCall(tx) ==
    /\ tx.kind = "call" /\ mempool # <<>> /\ tx = mempool[1] /\ mempool' = Tail(mempool)
    /\ tx.to \in DOMAIN contracts
    /\ DOMAIN contracts' = DOMAIN contracts /\ Listed(contracts')
    /\ \A a \in DOMAIN contracts : /\ SameCreation(contracts'[a], contracts[a])
                                   /\ IsContract(contracts'[a])
    /\ \/ storage' = storage
       \/ storage' = With(storage, <<tx.to, tx.slot>>,
                          IF tx.slot \in Mappings
                          THEN Slot(tx.to, tx.slot) \union {tx.value} ELSE {tx.value})

LEMMA SameSequence ==
  ASSUME NEW s, Listed(s), NEW a, NEW e
  PROVE  LET t == [s EXCEPT ![a] = e]
         IN  DOMAIN t = DOMAIN s /\ Listed(t)
<1> DEFINE t == [s EXCEPT ![a] = e]
<1>1. DOMAIN t = 1 .. Len(s) /\ Len(s) \in Nat /\ DOMAIN s = 1 .. Len(s)  BY ListedLen
<1>2. t = [i \in DOMAIN t |-> t[i]]  OBVIOUS
<1> HIDE DEF t
<1>3. Listed(t)  BY <1>1, <1>2, ListedFunction
<1> QED BY <1>1, <1>3 DEF t

LEMMA MineKinds ==
  ASSUME ChainInv, Mine
  PROVE  /\ UNCHANGED <<deployment, changed, records, unsaved, outcome>>
         /\ (\E tx : MinedCreation(tx)) \/ \E tx : MinedCall(tx)
<1> DEFINE tx == Head(mempool)
<1>1. /\ mempool # <<>> /\ mempool' = Tail(mempool)
      /\ MineCreation(tx) \/ MineCall(tx)
      /\ UNCHANGED <<deployment, changed, records, unsaved, outcome>>
  BY DEF Mine, setup, directory, process, operator
<1>2. Listed(mempool) /\ Listed(contracts)  BY DEF ChainInv, MempoolSound, ChainSound
<1>3. /\ Len(mempool) \in Nat \ {0} /\ DOMAIN mempool = 1 .. Len(mempool)
      /\ tx = mempool[1] /\ 1 \in DOMAIN mempool
      /\ Listed(Tail(mempool)) /\ Len(Tail(mempool)) = Len(mempool) - 1
  BY <1>1, <1>2, ListedLen, ListedTail
<1>4. CASE MineCreation(tx)
  <2>1. tx.kind = "create"  BY <1>4 DEF MineCreation
  <2>2. Len(mempool) = 1  BY <1>3, <2>1 DEF ChainInv, MempoolSound
  <2>3. Tail(mempool) = <<>>
    <3>1. Listed(Tail(mempool)) /\ Len(Tail(mempool)) = 0  BY <1>3, <2>2
    <3> QED BY <3>1, ListedLen
  <2>4. mempool = <<tx>>
    <3>1. mempool \in Seq(Range(mempool))  BY <1>2 DEF Listed
    <3> QED BY <1>3, <2>2, <3>1
  <2>5. LastSent = tx  BY <1>3, <2>2 DEF LastSent
  <2> HIDE DEF tx
  <2>6. MinedCreation(tx)  BY <1>1, <1>4, <2>1, <2>3, <2>4, <2>5 DEF MineCreation, MinedCreation
  <2> QED BY <1>1, <2>6
<1>5. CASE MineCall(tx)
  <2>1. tx.kind = "call"  BY <1>5 DEF MineCall
  <2>2. tx.to \in DOMAIN contracts /\ tx.root \in DOMAIN contracts \union {Nowhere}
    BY <1>3, <2>1 DEF ChainInv, MempoolSound
  <2>3. \A a \in DOMAIN contracts : IsContract(contracts[a])  BY DEF ChainInv, ChainSound
  <2> HIDE DEF tx
  <2>4. \/ storage' = storage
        \/ storage' = With(storage, <<tx.to, tx.slot>>,
                           IF tx.slot \in Mappings
                           THEN Slot(tx.to, tx.slot) \union {tx.value} ELSE {tx.value})
    BY <1>5 DEF MineCall
  <2>5. contracts' = contracts \/ contracts' = [contracts EXCEPT ![tx.root].nonce = @ + 1]
    BY <1>5 DEF MineCall
  <2>6. CASE contracts' = contracts
    <3>1. MinedCall(tx)  BY <1>1, <1>2, <1>3, <2>1, <2>2, <2>3, <2>4, <2>6 DEF MinedCall, SameCreation
    <3> QED BY <1>1, <3>1
  <2>7. CASE contracts' = [contracts EXCEPT ![tx.root].nonce = @ + 1]
    <3>1. DOMAIN contracts' = DOMAIN contracts /\ Listed(contracts')
      BY <1>2, <2>7, SameSequence
    <3>2. ASSUME NEW a \in DOMAIN contracts
          PROVE  SameCreation(contracts'[a], contracts[a]) /\ IsContract(contracts'[a])
      <4>1. IsContract(contracts[a])  BY <2>3
      <4>2. CASE a # tx.root  BY <2>7, <4>1, <4>2 DEF SameCreation
      <4>3. CASE a = tx.root
        <5> DEFINE c == contracts[a]
        <5>1. c = [name |-> c.name, source |-> c.source, args |-> c.args, owner |-> c.owner,
                   nonce |-> c.nonce]
          BY <4>1 DEF IsContract
        <5>2. contracts'[a] = [c EXCEPT !.nonce = @ + 1]  BY <2>7, <4>3
        <5> HIDE DEF c
        <5>3. contracts'[a] = [name |-> c.name, source |-> c.source, args |-> c.args,
                               owner |-> c.owner, nonce |-> c.nonce + 1]
          BY <5>1, <5>2
        <5>4. IsContract(contracts'[a]) /\ SameCreation(contracts'[a], c)
          BY <5>3 DEF IsContract, SameCreation
        <5> QED BY <5>4 DEF c
      <4> QED BY <4>2, <4>3
    <3>3. MinedCall(tx)  BY <1>1, <1>3, <2>1, <2>2, <2>4, <3>1, <3>2 DEF MinedCall
    <3> QED BY <1>1, <3>3
  <2> QED BY <2>5, <2>6, <2>7
<1> QED BY <1>1, <1>4, <1>5

\* Nothing of ChainSound is about how a process is getting on.
LEMMA ChainStays ==
  ASSUME ChainSound, Still, records' = records
  PROVE  ChainSound'
BY DEF ChainSound, Still

LEMMA MempoolStays ==
  ASSUME MempoolSound, mempool' = mempool, contracts' = contracts
  PROVE  MempoolSound'
BY DEF MempoolSound

\* The chain has grown, or a nonce has.
LEMMA ChainGrows ==
  ASSUME ChainSound, UNCHANGED <<deployment, records>>,
         Listed(contracts'), DOMAIN contracts \subseteq DOMAIN contracts',
         \A a \in DOMAIN contracts : SameCreation(contracts'[a], contracts[a]),
         \A a \in DOMAIN contracts' : IsContract(contracts'[a]),
         \A d \in DOMAIN storage' : d[1] \in DOMAIN contracts'
  PROVE  ChainSound'
<1>1. \A n \in DOMAIN records' :
          /\ records'[n].at \in DOMAIN contracts'
          /\ contracts'[records'[n].at].name = n
          /\ contracts'[records'[n].at].source = records'[n].source
          /\ contracts'[records'[n].at].args = records'[n].args
  BY DEF ChainSound, SameCreation
<1>2. \A n \in Findable(deployment') :
          \E a \in DOMAIN contracts' : contracts'[a].name = n
  BY DEF ChainSound, SameCreation
<1> QED BY <1>1, <1>2 DEF ChainSound

LEMMA CreationChain ==
  ASSUME ChainInv, NEW tx, MinedCreation(tx),
         UNCHANGED <<deployment, changed, records, unsaved, outcome>>
  PROVE  ChainInv'
<1>1. Listed(contracts) /\ (\A a \in DOMAIN contracts : IsContract(contracts[a]))
      /\ (\A d \in DOMAIN storage : d[1] \in DOMAIN contracts) /\ ChainSound /\ UnsavedSound
  BY DEF ChainInv, ChainSound
<1>2. DOMAIN contracts = 1 .. Len(contracts) /\ Len(contracts) \in Nat  BY <1>1, ListedLen
<1>3. MempoolSound'
  BY ListedTuples DEF MinedCreation, MempoolSound
<1>4. Saves' = Saves /\ Running' = Running  BY SavesStays DEF Running
<1>5. mempool # <<>> /\ LastSent = tx /\ mempool' = <<>>  BY DEF MinedCreation
<1>6. CASE receipt' = Failed /\ contracts' = contracts
  <2>1. ChainSound'  BY <1>1, <1>6, ChainGrows DEF MinedCreation, SameCreation
  <2>2. UnsavedSound'
    <3>1. ~receipt'.ok  BY <1>6 DEF Failed
    <3> QED BY <1>1, <1>4, <1>5, <3>1 DEF UnsavedSound
  <2> QED BY <1>3, <2>1, <2>2 DEF ChainInv
<1>7. CASE /\ contracts' = Append(contracts, Contract(tx.name, tx.source, tx.args,
                                                      OwnerOf(tx.name)))
           /\ receipt' = Succeeded(Len(contracts) + 1)
  <2> DEFINE c == Contract(tx.name, tx.source, tx.args, OwnerOf(tx.name))
             n == Len(contracts) + 1
  <2>1. IsContract(c) /\ SameCreation(c, tx)  BY DEF IsContract, Contract, SameCreation
  <2> HIDE DEF c
  <2>2. contracts' = Append(contracts, c)  BY <1>7 DEF c
  <2>3. /\ Listed(contracts') /\ Len(contracts') = n /\ DOMAIN contracts' = 1 .. n
        /\ \A a \in 1 .. Len(contracts) : contracts'[a] = contracts[a]
        /\ contracts'[n] = c
    BY <1>1, <2>2, ListedAppend, ListedLen
  <2>4. receipt'.at = n  BY <1>7 DEF Succeeded
  <2> HIDE DEF n
  <2>5. n = Len(contracts) + 1  BY DEF n
  <2>6. DOMAIN contracts \subseteq DOMAIN contracts'  BY <1>2, <2>3, <2>5
  <2>7. \A a \in DOMAIN contracts' : a \in DOMAIN contracts \/ a = n  BY <1>2, <2>3, <2>5
  <2>8. ChainSound'
    <3>1. \A a \in DOMAIN contracts' : IsContract(contracts'[a])
      BY <1>1, <1>2, <2>1, <2>3, <2>7
    <3>2. \A a \in DOMAIN contracts : SameCreation(contracts'[a], contracts[a])
      BY <1>2, <2>3 DEF SameCreation
    <3>3. \A d \in DOMAIN storage' : d[1] \in DOMAIN contracts'
      BY <1>1, <2>6 DEF MinedCreation
    <3> QED BY <1>1, <2>3, <2>6, <3>1, <3>2, <3>3, ChainGrows
  <2>9. n \in DOMAIN contracts'  BY <1>2, <2>3, <2>5
  <2>10. unsaved # None => SameCreation(contracts'[n], unsaved[1])
    BY <1>1, <1>5, <2>1, <2>3 DEF UnsavedSound, SameCreation
  <2>11. UnsavedSound'  BY <1>1, <1>4, <1>5, <2>3, <2>4, <2>9, <2>10 DEF UnsavedSound
  <2> QED BY <1>3, <2>8, <2>11 DEF ChainInv
<1> QED BY <1>6, <1>7 DEF MinedCreation

LEMMA CallChain ==
  ASSUME ChainInv, NEW tx, MinedCall(tx),
         UNCHANGED <<deployment, changed, records, unsaved, outcome>>
  PROVE  ChainInv'
<1>1. Listed(mempool) /\ ChainSound /\ UnsavedSound /\ mempool # <<>> /\ tx = mempool[1]
      /\ (\A d \in DOMAIN storage : d[1] \in DOMAIN contracts)
  BY DEF ChainInv, MempoolSound, ChainSound, MinedCall
<1>2. /\ Len(mempool) \in Nat \ {0} /\ DOMAIN mempool = 1 .. Len(mempool)
      /\ Listed(mempool') /\ Len(mempool') = Len(mempool) - 1
      /\ \A i \in 1 .. Len(mempool) - 1 : mempool'[i] = mempool[i + 1]
      /\ DOMAIN mempool' = 1 .. Len(mempool) - 1
      /\ mempool' = <<>> <=> Len(mempool) = 1
  <2>1. mempool' = Tail(mempool)  BY DEF MinedCall
  <2>2. /\ Listed(mempool') /\ Len(mempool') = Len(mempool) - 1
        /\ \A i \in 1 .. Len(mempool) - 1 : mempool'[i] = mempool[i + 1]
    BY <1>1, <2>1, ListedTail
  <2>3. Len(mempool) \in Nat \ {0} /\ DOMAIN mempool = 1 .. Len(mempool)  BY <1>1, ListedLen
  <2>4. DOMAIN mempool' = 1 .. Len(mempool') /\ (mempool' = <<>> <=> Len(mempool') = 0)
    BY <2>2, ListedLen
  <2> QED BY <2>2, <2>3, <2>4
<1>3. /\ DOMAIN contracts' = DOMAIN contracts /\ Listed(contracts') /\ tx.kind = "call"
      /\ \A a \in DOMAIN contracts : /\ SameCreation(contracts'[a], contracts[a])
                                     /\ IsContract(contracts'[a])
  BY DEF MinedCall
<1>4. \A d \in DOMAIN storage' : d[1] \in DOMAIN contracts
  <2>1. CASE storage' = storage  BY <1>1, <2>1
  <2>2. CASE storage' # storage
    <3>1. DOMAIN storage' = DOMAIN storage \union {<<tx.to, tx.slot>>}
      BY <2>2 DEF MinedCall, With
    <3>2. tx.to \in DOMAIN contracts  BY DEF MinedCall
    <3> QED BY <1>1, <3>1, <3>2
  <2> QED BY <2>1, <2>2
<1>5. ChainSound'  BY <1>1, <1>3, <1>4, ChainGrows
<1>6. MempoolSound'
  <2>1. ASSUME NEW i \in DOMAIN mempool'
        PROVE  \/ mempool'[i].kind = "create" /\ i = Len(mempool')
               \/ /\ mempool'[i].kind = "call"
                  /\ mempool'[i].to \in DOMAIN contracts'
                  /\ mempool'[i].root \in DOMAIN contracts' \union {Nowhere}
    <3>1. i + 1 \in DOMAIN mempool /\ mempool'[i] = mempool[i + 1]  BY <1>2
    <3>2. \/ mempool[i + 1].kind = "create" /\ i + 1 = Len(mempool)
          \/ /\ mempool[i + 1].kind = "call"
             /\ mempool[i + 1].to \in DOMAIN contracts
             /\ mempool[i + 1].root \in DOMAIN contracts \union {Nowhere}
      BY <3>1 DEF ChainInv, MempoolSound
    <3> QED BY <1>2, <1>3, <3>1, <3>2
  <2> QED BY <1>2, <2>1 DEF MempoolSound
<1>7. mempool' # <<>> => LastSent' = LastSent
  <2>1. ASSUME mempool' # <<>> PROVE mempool'[Len(mempool')] = mempool[Len(mempool)]
    <3>1. Len(mempool) - 1 \in 1 .. Len(mempool) - 1  BY <1>2, <2>1
    <3>2. mempool'[Len(mempool) - 1] = mempool[(Len(mempool) - 1) + 1]  BY <1>2, <3>1
    <3>3. (Len(mempool) - 1) + 1 = Len(mempool)  BY <1>2
    <3> QED BY <1>2, <3>2, <3>3
  <2> QED BY <2>1 DEF LastSent
<1>8. mempool' = <<>> => unsaved = None
  <2>1. ASSUME mempool' = <<>>, unsaved # None PROVE FALSE
    <3>1. LastSent = tx  BY <1>1, <1>2, <2>1 DEF LastSent
    <3>2. LastSent.kind = "create"  BY <1>1, <2>1 DEF UnsavedSound
    <3> QED BY <1>3, <3>1, <3>2
  <2> QED BY <2>1
<1>9. Saves' = Saves /\ Running' = Running  BY SavesStays DEF Running
<1>10. UnsavedSound'  BY <1>1, <1>7, <1>8, <1>9 DEF UnsavedSound
<1> QED BY <1>5, <1>6, <1>10 DEF ChainInv

LEMMA MineChain == ASSUME ChainInv, Mine PROVE ChainInv'
BY MineKinds, CreationChain, CallChain

LEMMA KeepsChain == ASSUME ChainInv, Keeps PROVE ChainInv'
<1>1. ChainSound' /\ MempoolSound'
  BY ChainStays, MempoolStays DEF ChainInv, Keeps, Still
<1>2. Saves' = Saves /\ UNCHANGED <<contracts, receipt, mempool, unsaved, LastSent>>
  BY SavesStays DEF Keeps, Still, LastSent
<1>3. UnsavedSound'
  <2>1. ~Saves' /\ ~Running' => unsaved' = None  BY <1>2 DEF Keeps
  <2>2. Running' => Running \/ Saves  BY DEF Keeps
  <2> QED BY <1>2, <2>1, <2>2 DEF ChainInv, UnsavedSound
<1> QED BY <1>1, <1>3 DEF ChainInv

LEMMA ForgetsChain == ASSUME ChainInv, Forgets PROVE ChainInv'
<1>1. ChainSound' /\ MempoolSound'
  BY ChainStays, MempoolStays DEF ChainInv, Forgets, Still
<1>2. ~Saves' /\ ~Running' /\ unsaved' = None  BY SavesStays DEF Forgets, Still
<1>3. UnsavedSound'  BY <1>2 DEF UnsavedSound
<1> QED BY <1>1, <1>3 DEF ChainInv

LEMMA EditsChain == ASSUME ChainInv, NEW name, Edits(name) PROVE ChainInv'
<1>1. ChainSound' /\ MempoolSound'
  BY ChainStays, MempoolStays DEF ChainInv, Edits, Still
<1>2. Saves' = Saves /\ UNCHANGED <<contracts, receipt, mempool, unsaved, LastSent>>
      /\ Running' = Running
  BY SavesStays DEF Edits, Still, LastSent
<1>3. UnsavedSound'  BY <1>2 DEF ChainInv, UnsavedSound
<1> QED BY <1>1, <1>3 DEF ChainInv

LEMMA NothingRecorded == DOMAIN NoRecords = {}
BY DEF NoRecords, RecordsOf

LEMMA RestartsChain ==
  ASSUME ProcessInv, ChainInv, Restarts PROVE ChainInv'
<1>1. Findable(deployment') = {}
  BY DnsSaves DEF Restarts, Findable, Saves, Network, ProcessInv
<1>2. ChainSound'  BY <1>1, NothingRecorded, ListedTuples DEF Restarts, ChainSound
<1>3. MempoolSound'  BY ListedTuples DEF Restarts, MempoolSound
<1>4. UnsavedSound'  BY DEF Restarts, UnsavedSound
<1> QED BY <1>2, <1>3, <1>4 DEF ChainInv

\* What was sent last, when there is something new.
LEMMA Sent ==
  ASSUME ChainInv, NEW tx, mempool' = Append(mempool, tx),
         mempool = <<>> \/ LastSent.kind # "create"
  PROVE  /\ mempool' # <<>> /\ LastSent' = tx /\ Listed(mempool')
         /\ DOMAIN mempool' = 1 .. Len(mempool')
         /\ \A i \in DOMAIN mempool' :
               \/ i \in DOMAIN mempool /\ mempool'[i] = mempool[i]
                  /\ mempool[i].kind = "call"
               \/ i = Len(mempool') /\ mempool'[i] = tx
<1>1. Listed(mempool)  BY DEF ChainInv, MempoolSound
<1>2. /\ DOMAIN mempool = 1 .. Len(mempool) /\ Len(mempool) \in Nat
      /\ (mempool = <<>> <=> Len(mempool) = 0)
  BY <1>1, ListedLen
<1>3. /\ Listed(mempool') /\ Len(mempool') = Len(mempool) + 1
      /\ \A i \in 1 .. Len(mempool) : mempool'[i] = mempool[i]
      /\ mempool'[Len(mempool) + 1] = tx
  BY <1>1, ListedAppend
<1>4. DOMAIN mempool' = 1 .. Len(mempool')  BY <1>3, ListedLen
<1>5. LastSent' = tx  BY <1>3 DEF LastSent
<1>6. mempool' # <<>>  BY <1>2, <1>3, ListedTuples
<1>7. \A i \in DOMAIN mempool : mempool[i].kind = "call"
  <2>1. ASSUME NEW i \in DOMAIN mempool, mempool[i].kind # "call" PROVE FALSE
    <3>1. mempool[i].kind = "create" /\ i = Len(mempool)
      BY <2>1 DEF ChainInv, MempoolSound
    <3> QED BY <1>2, <3>1 DEF LastSent
  <2> QED BY <2>1
<1> QED BY <1>2, <1>3, <1>4, <1>5, <1>6, <1>7

\* A process that sends something has nothing of its own under way.
LEMMA NothingUnderWay ==
  ASSUME ChainInv, Running, unsaved = None
  PROVE  mempool = <<>> \/ LastSent.kind # "create"
BY DEF ChainInv, UnsavedSound

LEMMA CallsChain == ASSUME ChainInv, NEW tx, Calls(tx) PROVE ChainInv'
<1>1. /\ Running
      /\ unsaved = None
      /\ unsaved' = None
      /\ Running'
      /\ mempool' = Append(mempool, tx)
      /\ tx.kind = "call" /\ tx.to \in DOMAIN contracts
      /\ tx.root \in DOMAIN contracts \union {Nowhere} /\ contracts' = contracts
  BY DEF Calls, Still
<1>2. ChainSound'  BY ChainStays DEF ChainInv, Calls, Still
<1>3. /\ mempool' # <<>> /\ LastSent' = tx /\ Listed(mempool')
      /\ DOMAIN mempool' = 1 .. Len(mempool')
      /\ \A i \in DOMAIN mempool' :
            \/ i \in DOMAIN mempool /\ mempool'[i] = mempool[i]
               /\ mempool[i].kind = "call"
            \/ i = Len(mempool') /\ mempool'[i] = tx
  BY <1>1, NothingUnderWay, Sent
<1>4. MempoolSound'
  <2>1. \A i \in DOMAIN mempool' : /\ mempool'[i].kind = "call"
                                   /\ mempool'[i].to \in DOMAIN contracts'
                                   /\ mempool'[i].root \in DOMAIN contracts' \union {Nowhere}
    BY <1>1, <1>3 DEF ChainInv, MempoolSound
  <2> QED BY <1>3, <2>1 DEF MempoolSound
<1>5. UnsavedSound'  BY <1>1, <1>3 DEF UnsavedSound
<1> QED BY <1>2, <1>4, <1>5 DEF ChainInv

LEMMA DeploysChain == ASSUME ChainInv, NEW name, Deploys(name) PROVE ChainInv'
<1> DEFINE creation == [name |-> name, source |-> Source(name),
                        args |-> Arguments(ArgsOf(name))]
           tx == [kind |-> "create", name |-> name, source |-> Source(name),
                  args |-> Arguments(ArgsOf(name))]
<1>1. /\ Running /\ unsaved = None /\ Running' /\ unsaved' = <<creation>>
      /\ mempool' = Append(mempool, tx) /\ contracts' = contracts
  BY DEF Deploys, Still
<1>2. ChainSound'  BY ChainStays DEF ChainInv, Deploys, Still
<1>3. tx.kind = "create" /\ SameCreation(tx, creation)  BY DEF SameCreation
<1> HIDE DEF tx, creation
<1>4. /\ mempool' # <<>> /\ LastSent' = tx /\ Listed(mempool')
      /\ DOMAIN mempool' = 1 .. Len(mempool')
      /\ \A i \in DOMAIN mempool' :
            \/ i \in DOMAIN mempool /\ mempool'[i] = mempool[i]
               /\ mempool[i].kind = "call"
            \/ i = Len(mempool') /\ mempool'[i] = tx
  BY <1>1, NothingUnderWay, Sent
<1>5. MempoolSound'
  <2>1. \A i \in DOMAIN mempool' :
          \/ mempool'[i].kind = "create" /\ i = Len(mempool')
          \/ /\ mempool'[i].kind = "call"
             /\ mempool'[i].to \in DOMAIN contracts'
             /\ mempool'[i].root \in DOMAIN contracts' \union {Nowhere}
    BY <1>1, <1>3, <1>4 DEF ChainInv, MempoolSound
  <2> QED BY <1>4, <2>1 DEF MempoolSound
<1>6. unsaved' # None /\ unsaved'[1] = creation /\ unsaved' = <<unsaved'[1]>>
  BY <1>1 DEF None
<1>7. UnsavedSound'  BY <1>1, <1>3, <1>4, <1>6 DEF UnsavedSound
<1> QED BY <1>2, <1>5, <1>7 DEF ChainInv

LEMMA RecordsChain == ASSUME ChainInv, Records PROVE ChainInv'
<1> DEFINE name == unsaved[1].name
           r == [at |-> receipt.at, source |-> unsaved[1].source,
                 args |-> unsaved[1].args]
<1>1. /\ unsaved # None /\ mempool = <<>> /\ mempool' = <<>> /\ unsaved' = None
      /\ Still
      /\ IF receipt.ok THEN records' = With(records, name, r) ELSE records' = records
  BY DEF Records, WithRecord
<1>2. MempoolSound'  BY <1>1, MempoolStays DEF ChainInv, Still
<1>3. UnsavedSound'  BY <1>1 DEF UnsavedSound
<1>4. ChainSound'
  <2>1. CASE ~receipt.ok  BY <1>1, <2>1, ChainStays DEF ChainInv
  <2>2. CASE receipt.ok
    <3>1. receipt.at \in DOMAIN contracts /\ SameCreation(contracts[receipt.at], unsaved[1])
      BY <1>1, <2>2 DEF ChainInv, UnsavedSound
    <3>2. /\ r.at \in DOMAIN contracts /\ contracts[r.at].name = name
          /\ contracts[r.at].source = r.source /\ contracts[r.at].args = r.args
      BY <3>1 DEF SameCreation
    <3> HIDE DEF r, name
    <3>3. DOMAIN records' = DOMAIN records \union {name}
          /\ \A n \in DOMAIN records' : records'[n] = IF n = name THEN r ELSE records[n]
      BY <1>1, <2>2 DEF With
    <3>4. \A n \in DOMAIN records' :
             /\ records'[n].at \in DOMAIN contracts
             /\ contracts[records'[n].at].name = n
             /\ contracts[records'[n].at].source = records'[n].source
             /\ contracts[records'[n].at].args = records'[n].args
      BY <3>2, <3>3 DEF ChainInv, ChainSound
    <3>5. UNCHANGED <<deployment, contracts, storage>>  BY <1>1 DEF Still
    <3> QED BY <3>4, <3>5 DEF ChainInv, ChainSound
  <2> QED BY <2>1, <2>2
<1> QED BY <1>2, <1>3, <1>4 DEF ChainInv

LEMMA ChainStep == ASSUME ProcessInv, ChainInv, Steps PROVE ChainInv'
BY KeepsChain, ForgetsChain, RestartsChain, RecordsChain, MineChain, EditsChain, CallsChain,
   DeploysChain DEF Steps

-----------------------------------------------------------------------------
(* The bounds of a run.                                                    *)

BoundedArchive == \A n \in DOMAIN archive' : archive'[n] \in {"empty", "written"}

\* What all steps of a process leave alone.
Within == /\ UNCHANGED <<deployment, goal, others, faults, changed, command>>
          /\ outcome' \in {outcome, "done", "failed"}

LEMMA StepWithin ==
  ASSUME BoundsInv, Step PROVE Within /\ BoundedArchive
<1> USE DEF Within, BoundedArchive, BoundsInv, setup, directory, operator, process, Rest,
        Throws, Advance, Leave, Submit
<1>1. CASE Adopt  BY <1>1 DEF Adopt
<1>2. CASE SkipScript  BY <1>2 DEF SkipScript
<1>3. CASE EndScript  BY <1>3 DEF EndScript
<1>4. CASE EndRun  BY <1>4 DEF EndRun
<1>5. CASE GetRecords  BY <1>5 DEF GetRecords
<1>6. CASE LeaveNetwork  BY <1>6 DEF LeaveNetwork
<1>7. CASE KeepDeployed  BY <1>7 DEF KeepDeployed
<1>8. CASE SendDeployment  BY <1>8 DEF SendDeployment
<1>9. CASE SaveDeployment  BY <1>9 DEF SaveDeployment
<1>10. CASE SendCall  BY <1>10 DEF SendCall
<1>11. CASE ExecuteByRoot  BY <1>11 DEF ExecuteByRoot
<1>12. CASE SendUnlessSet  BY <1>12 DEF SendUnlessSet
<1>13. CASE CallUnlessSet  BY <1>13 DEF CallUnlessSet
<1>14. CASE Mined  BY <1>14 DEF Mined
<1>15. CASE SettleAll  BY <1>15 DEF SettleAll
<1>16. CASE RequireSet  BY <1>16 DEF RequireSet
<1>17. CASE MakeArchive
  <2>1. archive' = archive \/ archive' = With(archive, This.name, "empty")
    BY <1>17 DEF MakeArchive
  <2>2. BoundedArchive  BY <2>1 DEF With
  <2> QED BY <1>17, <2>2 DEF MakeArchive
<1>18. CASE WriteArchive  BY <1>18 DEF WriteArchive
<1>19. CASE ReadEnvironmentFile  BY <1>19 DEF ReadEnvironmentFile
<1> QED BY <1>1, <1>2, <1>3, <1>4, <1>5, <1>6, <1>7, <1>8, <1>9, <1>10, <1>11,
           <1>12, <1>13, <1>14, <1>15, <1>16, <1>17, <1>18, <1>19 DEF Step

LEMMA BoundsStep ==
  ASSUME BoundsInv, deployment \in Deployments, [Next]_vars PROVE BoundsInv'
<1>1. deployment.others \in Nat /\ deployment.faults \in Nat  BY DeploymentAssumption
<1>2. CASE Step  BY <1>2, StepWithin DEF Within, BoundedArchive, BoundsInv
<1>3. ASSUME NEW tags, Run(tags) PROVE BoundsInv'
  <2>1. archive' = archive  BY <1>3 DEF Run, directory
  <2> QED BY <1>1, <1>3, <2>1 DEF Run, BoundsInv, setup
<1>4. CASE Mine  BY <1>4 DEF Mine, BoundsInv, setup, directory, process, operator
<1>5. CASE Crash  BY <1>1, <1>5 DEF Crash, Rest, BoundsInv, setup
<1>6. ASSUME NEW name, Edit(name) PROVE BoundsInv'
  BY <1>1, <1>6 DEF Edit, BoundsInv, setup, directory, process
<1>7. CASE UNCHANGED vars
  BY <1>7 DEF vars, BoundsInv, setup, directory, process, operator
<1> QED BY <1>2, <1>3, <1>4, <1>5, <1>6, <1>7 DEF Next

-----------------------------------------------------------------------------
(* The beginning.                                                          *)

\* What is on the chain before the first run was made from unedited sources, each
\* contract once, without arguments that matter but for those of TestUnwrap.
Original(cs) ==
    /\ Listed(cs)
    /\ \A a \in DOMAIN cs : /\ IsContract(cs[a]) /\ cs[a].source # "changed"
                            /\ cs[a].args = <<>> \/ cs[a].args = <<1, 3>>
    /\ \A a, b \in DOMAIN cs : cs[a].name = cs[b].name => a = b

TestUnwrapped(cs) ==
    \A a \in DOMAIN cs :
        cs[a].args # <<>> => /\ cs[a].name = "TestUnwrap"
                             /\ 1 \in DOMAIN cs /\ cs[1].name = "ENSRegistry"
                             /\ 3 \in DOMAIN cs /\ cs[3].name = "BaseRegistrarImplementation"

LEMMA NothingOriginal == Original(<<>>) /\ TestUnwrapped(<<>>)
BY ListedTuples DEF Original, TestUnwrapped

\* Contracts made without arguments, each name once.
LEMMA OriginalOf ==
  ASSUME NEW n \in Nat, NEW cs, DOMAIN cs = 1 .. n, cs = [i \in DOMAIN cs |-> cs[i]],
         \A i, j \in 1 .. n : cs[i].name = cs[j].name => i = j,
         \A i \in 1 .. n : /\ IsContract(cs[i])
                           /\ cs[i].source # "changed" /\ cs[i].args = <<>>
  PROVE  Original(cs) /\ TestUnwrapped(cs) /\ Len(cs) = n
<1>1. Listed(cs) /\ Len(cs) = n  BY ListedFunction
<1> QED BY <1>1 DEF Original, TestUnwrapped

LEMMA ContractIs ==
  ASSUME NEW name, NEW source, NEW args, NEW owner
  PROVE  LET c == Contract(name, source, args, owner)
         IN  IsContract(c) /\ c.name = name /\ c.source = source /\ c.args = args
BY DEF Contract, IsContract

LEMMA DiamondExisting ==
  ASSUME NEW ours, Project = "diamond"
  PROVE  /\ Original(Existing(ours)) /\ TestUnwrapped(Existing(ours))
         /\ \A a \in DOMAIN Existing(ours) : Existing(ours)[a].name \in Range(CopiedRecords)
<1> DEFINE cs == [i \in DOMAIN CopiedRecords |->
                    Contract(CopiedRecords[i], "first", <<>>, OwnerOf(CopiedRecords[i]))]
<1>1. Existing(ours) = cs  BY DEF Existing
<1>2. /\ DOMAIN CopiedRecords = 1 .. 5
      /\ CopiedRecords = [i \in DOMAIN CopiedRecords |-> CopiedRecords[i]]
      /\ \A i, j \in 1 .. 5 : CopiedRecords[i] = CopiedRecords[j] => i = j
  BY DEF CopiedRecords
<1>3. \A i \in 1 .. 5 : /\ IsContract(cs[i]) /\ cs[i].name = CopiedRecords[i]
                        /\ cs[i].source # "changed" /\ cs[i].args = <<>>
  BY <1>2, ContractIs
<1>4. DOMAIN cs = 1 .. 5 /\ cs = [i \in DOMAIN cs |-> cs[i]]  BY <1>2
<1> HIDE DEF cs
<1>5. Original(cs) /\ TestUnwrapped(cs) /\ Len(cs) = 5
    <2>1. \A i, j \in 1 .. 5 : cs[i].name = cs[j].name => i = j  BY <1>2, <1>3
    <2> QED BY <1>3, <1>4, <2>1, OriginalOf
<1>6. \A a \in DOMAIN cs : cs[a].name \in Range(CopiedRecords)  BY <1>2, <1>3, <1>4 DEF Range
<1> QED BY <1>1, <1>5, <1>6

LEMMA EnsExisting ==
  ASSUME NEW ours, Project = "ens"
  PROVE  /\ Original(Existing(ours)) /\ TestUnwrapped(Existing(ours))
         /\ ~deployment.upstream => Existing(ours) = <<>>
         /\ deployment.upstream => Len(Existing(ours)) = 5
<1>1. CASE ~deployment.upstream
  <2>1. Existing(ours) = <<>>  BY <1>1 DEF Existing
  <2> QED BY <1>1, <2>1, NothingOriginal
<1>2. CASE deployment.upstream
  <2> DEFINE cs == [i \in DOMAIN UpstreamRecords |->
                      Contract(UpstreamRecords[i], "upstream", <<>>, "other")]
  <2>1. Existing(ours) = cs  BY <1>2 DEF Existing
  <2>2. /\ DOMAIN UpstreamRecords = 1 .. 5
        /\ UpstreamRecords = [i \in DOMAIN UpstreamRecords |-> UpstreamRecords[i]]
        /\ \A i, j \in 1 .. 5 : UpstreamRecords[i] = UpstreamRecords[j] => i = j
    BY DEF UpstreamRecords
  <2>3. \A i \in 1 .. 5 : /\ IsContract(cs[i]) /\ cs[i].name = UpstreamRecords[i]
                          /\ cs[i].source # "changed" /\ cs[i].args = <<>>
    BY <2>2, ContractIs
  <2>4. DOMAIN cs = 1 .. 5 /\ cs = [i \in DOMAIN cs |-> cs[i]]  BY <2>2
  <2> HIDE DEF cs
  <2>5. Original(cs) /\ TestUnwrapped(cs) /\ Len(cs) = 5
    <3>1. \A i, j \in 1 .. 5 : cs[i].name = cs[j].name => i = j  BY <2>2, <2>3
    <3> QED BY <2>3, <2>4, <3>1, OriginalOf
  <2> QED BY <1>2, <2>1, <2>5
<1> QED BY <1>1, <1>2

LEMMA TasksExisting ==
  ASSUME NEW ours, Project = "tasks"
  PROVE  Original(Existing(ours)) /\ TestUnwrapped(Existing(ours))
<1> DEFINE cs == [i \in DOMAIN ArchivedNames |->
                    Contract(ArchivedNames[i], "first", <<>>, "root")]
<1>1. Existing(ours) = cs  BY DEF Existing
<1>2. /\ DOMAIN ArchivedNames = 1 .. 3
      /\ ArchivedNames = [i \in DOMAIN ArchivedNames |-> ArchivedNames[i]]
      /\ \A i, j \in 1 .. 3 : ArchivedNames[i] = ArchivedNames[j] => i = j
  BY DEF ArchivedNames
<1>3. \A i \in 1 .. 3 : /\ IsContract(cs[i]) /\ cs[i].name = ArchivedNames[i]
                        /\ cs[i].source # "changed" /\ cs[i].args = <<>>
  BY <1>2, ContractIs
<1>4. DOMAIN cs = 1 .. 3 /\ cs = [i \in DOMAIN cs |-> cs[i]]  BY <1>2
<1> HIDE DEF cs
<1>5. Original(cs) /\ TestUnwrapped(cs) /\ Len(cs) = 3
    <2>1. \A i, j \in 1 .. 3 : cs[i].name = cs[j].name => i = j  BY <1>2, <1>3
    <2> QED BY <1>3, <1>4, <2>1, OriginalOf
<1> QED BY <1>1, <1>5

LEMMA DnsExisting ==
  ASSUME NEW ours, Project = "dns"
  PROVE  /\ Original(Existing(ours)) /\ TestUnwrapped(Existing(ours))
         /\ 1 \in DOMAIN Existing(ours)
         /\ \A name \in Range(Wrappers) :
               \E a \in DOMAIN Existing(ours) : Existing(ours)[a].name = name
<1> DEFINE whose(name) == IF name \in ours THEN "account" ELSE "other"
           up == [i \in DOMAIN UpstreamDnsRecords |->
                    Contract(UpstreamDnsRecords[i], "upstream", <<>>, "other")]
           wr == [i \in DOMAIN Wrappers |->
                    Contract(Wrappers[i], "upstream", <<>>, whose(Wrappers[i]))]
           tu == Contract("TestUnwrap", "first", <<1, 3>>, "other")
           last == IF "TestUnwrap" \in ours THEN <<>> ELSE <<tu>>
           cs == up \o wr \o last
           names == [i \in 1 .. 8 |->
                       IF i <= 4 THEN UpstreamDnsRecords[i]
                       ELSE IF i <= 7 THEN Wrappers[i - 4] ELSE "TestUnwrap"]
<1>1. Existing(ours) = cs  BY DEF Existing
<1>2. DOMAIN UpstreamDnsRecords = 1 .. 4 /\ DOMAIN Wrappers = 1 .. 3
  BY DEF UpstreamDnsRecords, Wrappers
<1>3. Listed(up) /\ Len(up) = 4 /\ DOMAIN up = 1 .. 4
  <2>1. DOMAIN up = 1 .. 4 /\ up = [i \in DOMAIN up |-> up[i]]  BY <1>2
  <2> HIDE DEF up
  <2> QED BY <2>1, ListedFunction
<1>4. Listed(wr) /\ Len(wr) = 3 /\ DOMAIN wr = 1 .. 3
  <2>1. DOMAIN wr = 1 .. 3 /\ wr = [i \in DOMAIN wr |-> wr[i]]  BY <1>2
  <2> HIDE DEF wr
  <2> QED BY <2>1, ListedFunction
<1>5. /\ Listed(last) /\ Len(last) \in {0, 1} /\ DOMAIN last = 1 .. Len(last)
      /\ 1 \in DOMAIN last => last[1] = tu
  <2> HIDE DEF tu
  <2>1. CASE "TestUnwrap" \in ours  BY <2>1, ListedTuples, ListedLen
  <2>2. CASE "TestUnwrap" \notin ours  BY <2>2, ListedTuples, ListedLen
  <2> QED BY <2>1, <2>2
<1>6. \A i \in 1 .. 4 : /\ IsContract(up[i]) /\ up[i].name = names[i]
                        /\ up[i].source = "upstream" /\ up[i].args = <<>>
  BY <1>2, ContractIs
<1>7. \A i \in 1 .. 3 : /\ IsContract(wr[i]) /\ wr[i].name = names[i + 4]
                        /\ wr[i].source = "upstream" /\ wr[i].args = <<>>
  <2>1. \A i \in 1 .. 3 : names[i + 4] = Wrappers[i]  OBVIOUS
  <2> HIDE DEF names
  <2> QED BY <1>2, <2>1, ContractIs
<1>8. IsContract(tu) /\ tu.name = names[8] /\ tu.source = "first" /\ tu.args = <<1, 3>>
  BY ContractIs
<1>9. /\ \A i, j \in 1 .. 8 : names[i] = names[j] => i = j
      /\ names[1] = "ENSRegistry" /\ names[3] = "BaseRegistrarImplementation"
      /\ names[8] = "TestUnwrap"
      /\ \A name \in Range(Wrappers) : \E i \in 5 .. 7 : names[i] = name
  <2>1. /\ names[1] = "ENSRegistry" /\ names[2] = "Root"
        /\ names[3] = "BaseRegistrarImplementation" /\ names[4] = "DNSRegistrar"
        /\ names[5] = "0x5822" /\ names[6] = "0xEe1F" /\ names[7] = "0x060f"
        /\ names[8] = "TestUnwrap"
    <3>1. /\ UpstreamDnsRecords[1] = "ENSRegistry" /\ UpstreamDnsRecords[2] = "Root"
          /\ UpstreamDnsRecords[3] = "BaseRegistrarImplementation"
          /\ UpstreamDnsRecords[4] = "DNSRegistrar"
      BY DEF UpstreamDnsRecords
    <3>2. Wrappers[1] = "0x5822" /\ Wrappers[2] = "0xEe1F" /\ Wrappers[3] = "0x060f"
      BY DEF Wrappers
    <3> QED BY <3>1, <3>2
  <2>2. Range(Wrappers) = {"0x5822", "0xEe1F", "0x060f"}
    <3>1. Wrappers[1] = "0x5822" /\ Wrappers[2] = "0xEe1F" /\ Wrappers[3] = "0x060f"
      BY DEF Wrappers
    <3> HIDE DEF names
    <3>2. \A name : name \in Range(Wrappers) <=> \E i \in 1 .. 3 : name = Wrappers[i]
      BY <1>2 DEF Range
    <3>3. \A i \in 1 .. 3 : i \in {1, 2, 3}  OBVIOUS
    <3> QED BY <3>1, <3>2, <3>3
  <2> HIDE DEF names
  <2>3. \A i \in 1 .. 8 : i \in {1, 2, 3, 4, 5, 6, 7, 8}  OBVIOUS
  <2>4. \A i, j \in {1, 2, 3, 4, 5, 6, 7, 8} : names[i] = names[j] => i = j
    BY <2>1
  <2> QED BY <2>1, <2>2, <2>3, <2>4
<1> HIDE DEF up, wr, last, tu, names
<1> DEFINE front == up \o wr
<1>16. cs = front \o last  OBVIOUS
<1> HIDE DEF cs
<1>10. Listed(front) /\ Len(front) = 7
  <2>1. Listed(up \o wr) /\ Len(up \o wr) = Len(up) + Len(wr)
    BY <1>3, <1>4, ListedConcat
  <2> QED BY <1>3, <1>4, <2>1
<1>14. \A i \in 1 .. 7 : front[i] = IF i <= 4 THEN up[i] ELSE wr[i - 4]
  <2>1. ASSUME NEW i \in 1 .. 7 PROVE front[i] = IF i <= 4 THEN up[i] ELSE wr[i - 4]
    <3>1. i \in 1 .. Len(up) + Len(wr)  BY <1>3, <1>4
    <3>2. (up \o wr)[i] = IF i <= Len(up) THEN up[i] ELSE wr[i - Len(up)]
      BY <1>3, <1>4, <3>1, ConcatItem
    <3> HIDE DEF front
    <3>3. front[i] = IF i <= Len(up) THEN up[i] ELSE wr[i - Len(up)]
      BY <3>2 DEF front
    <3> QED BY <1>3, <3>3
  <2> QED BY <2>1
<1> HIDE DEF front
<1>11. Listed(cs) /\ Len(cs) = 7 + Len(last)  BY <1>5, <1>10, <1>16, ListedConcat
<1>12. DOMAIN cs = 1 .. 7 + Len(last)  BY <1>11, ListedLen
<1>13. \A i \in DOMAIN cs : cs[i] = IF i <= 7 THEN front[i] ELSE last[i - 7]
  <2>1. \A i \in 1 .. Len(front) + Len(last) :
           (front \o last)[i] = IF i <= Len(front) THEN front[i] ELSE last[i - Len(front)]
    BY <1>5, <1>10, ConcatItem
  <2> QED BY <1>10, <1>12, <1>16, <2>1
<1>15. ASSUME NEW i \in DOMAIN cs
       PROVE  /\ IsContract(cs[i]) /\ i \in 1 .. 8 /\ cs[i].name = names[i]
              /\ cs[i].source # "changed"
              /\ cs[i].args = IF i <= 7 THEN <<>> ELSE <<1, 3>>
  <2>1. i \in 1 .. 8 /\ (i > 7 => i = 8 /\ 1 \in DOMAIN last)
    <3>1. CASE Len(last) = 0  BY <1>12, <3>1
    <3>2. CASE Len(last) = 1
      <4>1. i \in 1 .. 8 /\ 1 \in DOMAIN last  BY <1>5, <1>12, <3>2
      <4> QED BY <4>1
    <3> QED BY <1>5, <3>1, <3>2
  <2>2. CASE i <= 4
    <3>1. i \in 1 .. 4 /\ cs[i] = up[i]  BY <1>13, <1>14, <2>1, <2>2
    <3> QED BY <1>6, <2>1, <2>2, <3>1
  <2>3. CASE i > 4 /\ i <= 7
    <3>1. i - 4 \in 1 .. 3 /\ cs[i] = wr[i - 4] /\ (i - 4) + 4 = i
      BY <1>13, <1>14, <2>1, <2>3
    <3> QED BY <1>7, <2>1, <2>3, <3>1
  <2>4. CASE i > 7
    <3>1. i = 8 /\ cs[i] = tu  BY <1>5, <1>13, <2>1, <2>4
    <3> QED BY <1>8, <3>1
  <2> QED BY <2>1, <2>2, <2>3, <2>4
<1>20. 1 \in DOMAIN cs /\ 3 \in DOMAIN cs /\ 5 .. 7 \subseteq DOMAIN cs
  BY <1>5, <1>12
<1>17. Original(cs)
  <2>1. \A a, b \in DOMAIN cs : cs[a].name = cs[b].name => a = b  BY <1>9, <1>15
  <2>2. \A a \in DOMAIN cs : cs[a].args = <<>> \/ cs[a].args = <<1, 3>>  BY <1>15
  <2>3. \A a \in DOMAIN cs : IsContract(cs[a]) /\ cs[a].source # "changed"  BY <1>15
  <2> QED BY <1>11, <2>1, <2>2, <2>3 DEF Original
<1>18. TestUnwrapped(cs)
  <2>1. ASSUME NEW i \in DOMAIN cs, cs[i].args # <<>> PROVE cs[i].name = "TestUnwrap"
    <3>1. i \in 1 .. 8 /\ ~(i <= 7)  BY <1>15, <2>1
    <3>2. i = 8  BY <3>1
    <3> QED BY <1>9, <1>15, <3>2
  <2> QED BY <1>9, <1>15, <1>20, <2>1 DEF TestUnwrapped
<1>19. \A name \in Range(Wrappers) : \E a \in DOMAIN cs : cs[a].name = name
  BY <1>9, <1>15, <1>20
<1> QED BY <1>1, <1>20, <1>17, <1>18, <1>19

LEMMA InitialContracts ==
  ASSUME NEW ours, deployment \in Deployments
  PROVE  LET cs == Existing(ours)
         IN  /\ Original(cs) /\ TestUnwrapped(cs)
             /\ Project = "ens" /\ ~deployment.upstream => cs = <<>>
             /\ Project = "ens" /\ deployment.upstream => Len(cs) = 5
             /\ Project = "diamond" =>
                   \A a \in DOMAIN cs : cs[a].name \in Range(CopiedRecords)
             /\ Project = "dns" =>
                   /\ 1 \in DOMAIN cs
                   /\ \A name \in Range(Wrappers) : \E a \in DOMAIN cs : cs[a].name = name
<1>1. Project \in {"ens", "diamond", "dns", "tasks"}  BY DeploymentAssumption DEF Project
<1> QED BY <1>1, EnsExisting, DiamondExisting, DnsExisting, TasksExisting

\* The records of contracts each of which is there once.
LEMMA RecordsOfOriginal ==
  ASSUME NEW cs, Original(cs)
  PROVE  \A n \in DOMAIN RecordsOf(cs) :
            LET r == RecordsOf(cs)[n]
            IN  /\ r.at \in DOMAIN cs /\ cs[r.at].name = n
                /\ cs[r.at].source = r.source /\ cs[r.at].args = r.args
BY DEF RecordsOf

LEMMA OneRecord ==
  ASSUME NEW cs, Original(cs), NEW a \in DOMAIN cs
  PROVE  cs[a].name \in DOMAIN RecordsOf(cs) /\ RecordsOf(cs)[cs[a].name].at = a
<1>1. cs[a].name \in DOMAIN RecordsOf(cs)  BY DEF RecordsOf
<1> QED BY <1>1, RecordsOfOriginal DEF Original

\* What Init says of the records and the chain.
LEMMA Beginning ==
  ASSUME Init
  PROVE  /\ deployment \in Deployments /\ unsaved = None /\ mempool = <<>> /\ ~Running
         /\ changed = {} /\ queue = <<>> /\ pc = 1 /\ ~waiting
         /\ Original(contracts) /\ TestUnwrapped(contracts)
         /\ Project = "ens" /\ ~deployment.upstream => contracts = <<>>
         /\ Project = "ens" /\ deployment.upstream => Len(contracts) = 5
         /\ Project = "diamond" =>
               \A a \in DOMAIN contracts : contracts[a].name \in Range(CopiedRecords)
         /\ Project = "dns" =>
               /\ 1 \in DOMAIN contracts
               /\ \A name \in Range(Wrappers) :
                     \E a \in DOMAIN contracts : contracts[a].name = name
         /\ \E domains : storage = Wired(domains)
         /\ DOMAIN records = DOMAIN RecordsOf(contracts) \ Range(Wrappers)
         /\ \A n \in DOMAIN records : records[n] = RecordsOf(contracts)[n]
<1>1. deployment \in Deployments /\ \E ours : contracts = Existing(ours)  BY DEF Init
<1>2. PICK ours : contracts = Existing(ours)  BY <1>1
<1>3. \E domains : storage = Wired(domains)  BY DEF Init
<1>4. ~Running /\ ~waiting  BY DEF Init, Running
<1>5. /\ unsaved = None /\ mempool = <<>> /\ changed = {} /\ queue = <<>> /\ pc = 1
      /\ records = [n \in DOMAIN RecordsOf(contracts) \ Range(Wrappers) |->
                      RecordsOf(contracts)[n]]
  BY DEF Init
<1> QED BY <1>1, <1>2, <1>3, <1>4, <1>5, InitialContracts

LEMMA InitProcess == ASSUME Init PROVE ProcessInv
<1>1. deployment \in Deployments /\ queue = <<>> /\ pc = 1 /\ ~waiting  BY Beginning
<1>2. queue \in Seq(DOMAIN Scripts)  BY <1>1
<1>3. Passed /\ Awaited  BY <1>1 DEF Passed, Awaited
<1> QED BY <1>1, <1>2, <1>3 DEF ProcessInv

LEMMA InitChain == ASSUME Init PROVE ChainInv
<1>1. /\ deployment \in Deployments /\ unsaved = None /\ mempool = <<>>
      /\ Original(contracts)
      /\ DOMAIN records = DOMAIN RecordsOf(contracts) \ Range(Wrappers)
      /\ \A n \in DOMAIN records : records[n] = RecordsOf(contracts)[n]
  BY Beginning
<1>2. \A n \in DOMAIN records :
          /\ records[n].at \in DOMAIN contracts
          /\ contracts[records[n].at].name = n
          /\ contracts[records[n].at].source = records[n].source
          /\ contracts[records[n].at].args = records[n].args
  BY <1>1, RecordsOfOriginal
<1>3. \A d \in DOMAIN storage : d[1] \in DOMAIN contracts
  <2>1. PICK domains : storage = Wired(domains)  BY Beginning
  <2>2. CASE Project = "ens" /\ deployment.upstream
    <3>1. DOMAIN storage = {<<2, "reverse">>, <<2, "addr.reverse">>}  BY <2>1, <2>2 DEF Wired
    <3>2. Len(contracts) = 5 /\ Listed(contracts)  BY <2>2, Beginning DEF Original
    <3>3. 2 \in DOMAIN contracts  BY <3>2, ListedLen
    <3> QED BY <3>1, <3>3
  <2>3. CASE Project = "dns"
    <3>1. DOMAIN storage = {<<1, "tlds">>}  BY <2>1, <2>3 DEF Wired
    <3>2. 1 \in DOMAIN contracts  BY <2>3, Beginning
    <3> QED BY <3>1, <3>2
  <2>4. CASE Project # "dns" /\ ~(Project = "ens" /\ deployment.upstream)
    <3>1. DOMAIN storage = {}  BY <2>1, <2>4 DEF Wired
    <3> QED BY <3>1
  <2> QED BY <2>2, <2>3, <2>4
<1>4. \A n \in Findable(deployment) : \E a \in DOMAIN contracts : contracts[a].name = n
  BY Beginning DEF Findable, Project
<1>5. ChainSound  BY <1>1, <1>2, <1>3, <1>4 DEF ChainSound, Original
<1>6. MempoolSound  BY <1>1, ListedTuples DEF MempoolSound
<1>7. UnsavedSound  BY <1>1 DEF UnsavedSound
<1> QED BY <1>5, <1>6, <1>7 DEF ChainInv

LEMMA InitBounds == ASSUME Init PROVE BoundsInv
<1>1. deployment.others \in Nat /\ deployment.faults \in Nat
  BY DeploymentAssumption DEF Init
<1> QED BY <1>1 DEF Init, BoundsInv

-----------------------------------------------------------------------------
(* Type correctness.                                                       *)

LEMMA DeployStep ==
  ASSUME DeployInv, [Next]_vars PROVE DeployInv' /\ Steps
BY NextSteps, ChainStep, BoundsStep DEF DeployInv, ProcessInv

LEMMA TypesFollow == ASSUME DeployInv PROVE TypeOK
<1>1. /\ deployment \in Deployments /\ goal \in deployment.commands
      /\ others \in 0 .. deployment.others /\ faults \in 0 .. deployment.faults
      /\ changed \subseteq deployment.edits
      /\ \A n \in DOMAIN archive : archive[n] \in {"empty", "written"}
      /\ outcome \in {"idle", "running", "done", "failed", "crashed"}
      /\ command \in deployment.commands \union {{}}
      /\ queue \in Seq(DOMAIN Scripts)
  BY DEF DeployInv, BoundsInv, ProcessInv
<1>2. /\ \A n \in DOMAIN records : /\ records[n].at \in DOMAIN contracts
                                   /\ contracts[records[n].at].name = n
      /\ \A d \in DOMAIN storage : d[1] \in DOMAIN contracts
  BY DEF DeployInv, ChainInv, ChainSound
<1>3. Len(unsaved) <= 1
  <2>1. unsaved = None \/ unsaved = <<unsaved[1]>>
    BY DEF DeployInv, ChainInv, UnsavedSound
  <2>2. CASE unsaved = <<>>  BY <2>2
  <2>3. CASE unsaved = <<unsaved[1]>>
    <3>1. Len(unsaved) = Len(<<unsaved[1]>>)  BY <2>3
    <3>2. Len(<<unsaved[1]>>) = 1  OBVIOUS
    <3> QED BY <3>1, <3>2
  <2> QED BY <2>1, <2>2, <2>3 DEF None
<1>4. pc \in 1 .. 1 + (IF queue = <<>> THEN 0 ELSE Len(Current.steps))
  <2>1. CASE queue = <<>>  BY <2>1 DEF DeployInv, ProcessInv
  <2>2. CASE queue # <<>>
    <3>1. Len(Current.steps) \in Nat  BY <1>1, <2>2, CurrentScript
    <3>2. pc \in Nat \ {0} /\ pc <= 1 + Len(Current.steps)
      BY <2>2 DEF DeployInv, ProcessInv, Passed
    <3> QED BY <2>2, <3>1, <3>2
  <2> QED BY <2>1, <2>2
<1>5. waiting => Running  BY DEF DeployInv, ProcessInv
<1> QED BY <1>1, <1>2, <1>3, <1>4, <1>5 DEF TypeOK

LEMMA DeployAlways == Spec => []DeployInv
<1>1. Init => DeployInv  BY InitProcess, InitChain, InitBounds DEF DeployInv
<1>2. DeployInv /\ [Next]_vars => DeployInv'  BY DeployStep
<1> QED BY <1>1, <1>2, PTL DEF Spec

\* Every variable keeps its type: a record points at a contract of its name, and the
\* process is within a script whenever there is one left.
THEOREM DeploymentTypes == Spec => []TypeOK
BY DeployAlways, TypesFollow, PTL

-----------------------------------------------------------------------------
(* No contract is deployed twice.  A contract that would be deployed again *)
(* was made from sources and arguments that are still those of its name;   *)
(* the records know it, or it is the one that is under way.  Recording     *)
(* another contract does not make an older one fit again, for the          *)
(* addresses that records hold only grow.                                  *)

ArgNames ==
    {"Root", "ENSRegistry", "BaseRegistrarImplementation", "OptiDomainsMetadataService",
     "ReverseRegistrar", "OptiDomains", "WhitelistRegistrarController",
     "NameWrapperRegistry", "DNSSECImpl", "DNSRegistrar", "OffchainDNSResolver",
     "TLDPublicSuffixList"}

LEMMA ArgsListed == ASSUME NEW name PROVE ArgsOf(name) \in Seq(ArgNames)
<1> DEFINE S == ArgNames
<1>1. /\ <<"Root">> \in Seq(S) /\ <<"ENSRegistry">> \in Seq(S)
      /\ <<"ENSRegistry", "BaseRegistrarImplementation",
           "OptiDomainsMetadataService">> \in Seq(S)
      /\ <<"BaseRegistrarImplementation", "ReverseRegistrar", "OptiDomains">> \in Seq(S)
      /\ <<"ENSRegistry", "OptiDomains", "WhitelistRegistrarController",
           "ReverseRegistrar">> \in Seq(S)
  BY DEF ArgNames
<1>2. /\ <<"NameWrapperRegistry">> \in Seq(S) /\ <<"ENSRegistry", "DNSSECImpl">> \in Seq(S)
      /\ <<"DNSRegistrar", "OffchainDNSResolver", "DNSSECImpl", "TLDPublicSuffixList",
           "ENSRegistry">> \in Seq(S)
      /\ <<"ENSRegistry", "BaseRegistrarImplementation">> \in Seq(S)
      /\ <<>> \in Seq(S)
  BY DEF ArgNames
<1> HIDE DEF S
<1>3. ArgsOf(name) \in Seq(S)  BY <1>1, <1>2 DEF ArgsOf
<1> QED BY <1>3 DEF S

\* The address a record holds, or none.
Found(name) == IF name \in DOMAIN records THEN records[name].at ELSE Nowhere

\* Wrappers are no arguments: an argument is found in the records or not at all.
LEMMA ArgFound ==
  ASSUME NEW name, NEW i \in DOMAIN ArgsOf(name)
  PROVE  /\ Address(ArgsOf(name)[i]) = Found(ArgsOf(name)[i])
         /\ Address(ArgsOf(name)[i])' = Found(ArgsOf(name)[i])'
<1>1. ArgsOf(name)[i] \in ArgNames  BY ArgsListed
<1>2. \A x \in ArgNames : x \notin Range(Wrappers)  BY WrapperNames DEF ArgNames
<1> QED BY <1>1, <1>2, IsWrapper DEF Address, Found

LEMMA ArgumentsFound ==
  ASSUME NEW name
  PROVE  /\ Arguments(ArgsOf(name)) = [i \in DOMAIN ArgsOf(name) |-> Found(ArgsOf(name)[i])]
         /\ Arguments(ArgsOf(name))' = [i \in DOMAIN ArgsOf(name) |-> Found(ArgsOf(name)[i])']
BY ArgFound DEF Arguments

\* Made when the sources, and the addresses of the arguments, were those of today.
Made(c) == c.source = Source(c.name) /\ c.args = Arguments(ArgsOf(c.name))

\* Made when the addresses of the arguments were those of today or older ones.
Dated(c) ==
    /\ c.source = "changed" => c.name \in changed
    /\ DOMAIN c.args = DOMAIN ArgsOf(c.name) =>
          \A i \in DOMAIN ArgsOf(c.name) :
              c.args[i] \in Nat /\ c.args[i] <= Found(ArgsOf(c.name)[i])

\* The deployment of this name is under way.
UnderWay(name) == unsaved # None /\ unsaved[1].name = name

Kept(a) ==
    LET c == contracts[a]
    IN  c.name \notin Range(Wrappers) =>
            /\ Dated(c)
            /\ Made(c) => IF UnderWay(c.name)
                          THEN mempool = <<>> /\ receipt.ok /\ a = receipt.at
                          ELSE c.name \in DOMAIN records /\ a = records[c.name].at

UnsavedFresh ==
    unsaved # None =>
        /\ unsaved[1].name \notin Range(Wrappers) /\ Dated(unsaved[1])
        /\ mempool # <<>> =>
              \A a \in DOMAIN contracts : ~SameCreation(contracts[a], unsaved[1])

Distinct ==
    \A a, b \in DOMAIN contracts : SameCreation(contracts[a], contracts[b]) => a = b

FreshInv == Saves => (\A a \in DOMAIN contracts : Kept(a)) /\ UnsavedFresh /\ Distinct

\* What these say of a contract depends on its name, its source and its arguments.
LEMMA SameMade ==
  ASSUME NEW c, NEW e, SameCreation(c, e)
  PROVE  (Made(c) <=> Made(e)) /\ (Dated(c) <=> Dated(e))
BY DEF SameCreation, Made, Dated

LEMMA SameAddresses ==
  ASSUME UNCHANGED <<records, changed>>
  PROVE  /\ \A c : Made(c)' <=> Made(c)
         /\ \A c : Dated(c)' <=> Dated(c)
<1>1. \A name : Found(name)' = Found(name)  BY DEF Found
<1>2. \A name : Arguments(ArgsOf(name))' = Arguments(ArgsOf(name))
  BY <1>1, ArgumentsFound
<1>3. \A name : Source(name)' = Source(name)  BY DEF Source
<1> QED BY <1>1, <1>2, <1>3 DEF Made, Dated

\* Nothing changes but what is sent.
LEMMA FreshKept ==
  ASSUME FreshInv, UNCHANGED <<deployment, contracts, records, changed, receipt, unsaved>>,
         mempool' = mempool \/ unsaved = None
  PROVE  FreshInv'
<1> SUFFICES ASSUME Saves PROVE FreshInv'
  BY SavesStays DEF FreshInv
<1>1. \A c : (Made(c)' <=> Made(c)) /\ (Dated(c)' <=> Dated(c))  BY SameAddresses
<1>2. ASSUME NEW a \in DOMAIN contracts PROVE Kept(a)'
  <2>1. Kept(a)  BY DEF FreshInv
  <2> QED BY <1>1, <2>1 DEF Kept, UnderWay
<1>3. UnsavedFresh'  BY <1>1 DEF FreshInv, UnsavedFresh
<1>4. Distinct'  BY DEF FreshInv, Distinct
<1> QED BY <1>2, <1>3, <1>4 DEF FreshInv

LEMMA FreshEdits == ASSUME FreshInv, NEW name, Edits(name) PROVE FreshInv'
<1> SUFFICES ASSUME Saves PROVE FreshInv'
  BY SavesStays DEF FreshInv, Edits, Still
<1>1. /\ changed = {} /\ changed' = {name}
      /\ UNCHANGED <<contracts, records, receipt, unsaved, mempool>>
  BY DEF Edits, Still
<1>2. \A n : Found(n)' = Found(n)  BY <1>1 DEF Found
<1>3. \A n : Arguments(ArgsOf(n))' = Arguments(ArgsOf(n))  BY <1>2, ArgumentsFound
<1>4. \A c : Dated(c) => Dated(c)' /\ c.source # "changed"  BY <1>1, <1>2 DEF Dated
<1>5. \A c : c.source # "changed" /\ Made(c)' => Made(c)
  BY <1>1, <1>3 DEF Made, Source
<1>6. ASSUME NEW a \in DOMAIN contracts PROVE Kept(a)'
  <2>1. Kept(a)  BY DEF FreshInv
  <2> QED BY <1>1, <1>4, <1>5, <2>1 DEF Kept, UnderWay
<1>7. UnsavedFresh'  BY <1>1, <1>4 DEF FreshInv, UnsavedFresh
<1>8. Distinct'  BY <1>1 DEF FreshInv, Distinct
<1> QED BY <1>1, <1>6, <1>7, <1>8 DEF FreshInv

LEMMA FoundNat == ASSUME ChainSound, NEW name PROVE Found(name) \in Nat
<1>1. \A a \in DOMAIN contracts : a \in Nat  BY ListedLen DEF ChainSound
<1> QED BY <1>1 DEF ChainSound, Found, Nowhere

LEMMA FreshDeploys ==
  ASSUME FreshInv, ChainInv, NEW name, Deploys(name) PROVE FreshInv'
<1> SUFFICES ASSUME Saves PROVE FreshInv'
  BY SavesStays DEF FreshInv, Deploys, Still
<1> DEFINE creation == [name |-> name, source |-> Source(name),
                        args |-> Arguments(ArgsOf(name))]
<1>1. /\ unsaved = None /\ unsaved' = <<creation>> /\ name \notin Range(Wrappers)
      /\ ~UpToDate(name, Arguments(ArgsOf(name)))
      /\ UNCHANGED <<contracts, records, receipt, changed>>
  BY DEF Deploys, Still
<1>2. \A c : (Made(c)' <=> Made(c)) /\ (Dated(c)' <=> Dated(c))  BY <1>1, SameAddresses
<1>3. \A e : SameCreation(e, creation) => e.name = name /\ Made(e)
  BY DEF SameCreation, Made
<1>4. creation.name = name /\ Dated(creation)
  <2>1. \A i \in DOMAIN ArgsOf(name) : Found(ArgsOf(name)[i]) \in Nat
    BY FoundNat DEF ChainInv
  <2>2. creation.args = [i \in DOMAIN ArgsOf(name) |-> Found(ArgsOf(name)[i])]
    BY ArgumentsFound
  <2>3. creation.source = "changed" => name \in changed  BY DEF Source
  <2>4. creation.name = name  OBVIOUS
  <2> HIDE DEF creation
  <2> QED BY <2>1, <2>2, <2>3, <2>4 DEF Dated
<1> HIDE DEF creation
<1>5. unsaved' # None /\ unsaved'[1] = creation  BY <1>1 DEF None
\* A contract that would be deployed again is recorded, and its record up to date.
<1>6. ASSUME NEW a \in DOMAIN contracts, contracts[a].name = name, Made(contracts[a])
      PROVE  FALSE
  <2>1. Kept(a)  BY DEF FreshInv
  <2>2. name \in DOMAIN records /\ a = records[name].at
    BY <1>1, <1>6, <2>1 DEF Kept, UnderWay
  <2>3. /\ contracts[a].source = records[name].source
        /\ contracts[a].args = records[name].args
    BY <2>2 DEF ChainInv, ChainSound
  <2>4. UpToDate(name, Arguments(ArgsOf(name)))
    BY <1>6, <2>2, <2>3 DEF UpToDate, Made
  <2> QED BY <1>1, <2>4
<1>7. ASSUME NEW a \in DOMAIN contracts PROVE Kept(a)'
  <2>1. Kept(a)  BY DEF FreshInv
  <2>2. CASE contracts[a].name = name
    BY <1>1, <1>2, <1>6, <2>1, <2>2 DEF Kept
  <2>3. CASE contracts[a].name # name
    BY <1>1, <1>2, <1>4, <1>5, <2>1, <2>3 DEF Kept, UnderWay
  <2> QED BY <2>2, <2>3
<1>8. UnsavedFresh'
  <2>1. \A a \in DOMAIN contracts : ~SameCreation(contracts[a], creation)
    BY <1>3, <1>6
  <2> QED BY <1>1, <1>2, <1>4, <1>5, <2>1 DEF UnsavedFresh
<1>9. Distinct'  BY <1>1 DEF FreshInv, Distinct
<1> QED BY <1>1, <1>7, <1>8, <1>9 DEF FreshInv

\* Addresses only grow, so that what fits afterwards fitted before.
LEMMA FreshRecords ==
  ASSUME FreshInv, ChainInv, Records PROVE FreshInv'
<1> SUFFICES ASSUME Saves PROVE FreshInv'
  BY SavesStays DEF FreshInv, Records, Still
<1>0. PICK name : name = unsaved[1].name  OBVIOUS
<1> DEFINE r == [at |-> receipt.at, source |-> unsaved[1].source,
                 args |-> unsaved[1].args]
<1>1. /\ unsaved # None /\ mempool = <<>> /\ mempool' = <<>> /\ unsaved' = None
      /\ UNCHANGED <<contracts, receipt, changed>>
      /\ IF receipt.ok THEN records' = With(records, name, r) ELSE records' = records
  BY <1>0 DEF Records, Still, WithRecord
<1>2. UnsavedFresh' /\ Distinct'  BY <1>1 DEF FreshInv, UnsavedFresh, Distinct
<1>3. CASE ~receipt.ok
  <2>1. \A c : (Made(c)' <=> Made(c)) /\ (Dated(c)' <=> Dated(c))
    BY <1>1, <1>3, SameAddresses
  <2>2. ASSUME NEW a \in DOMAIN contracts PROVE Kept(a)'
    <3>1. Kept(a)  BY DEF FreshInv
    <3> QED BY <1>1, <1>3, <2>1, <3>1 DEF Kept, UnderWay
  <2> QED BY <1>1, <1>2, <2>2 DEF FreshInv
<1>4. CASE receipt.ok
  <2>1. receipt.at = Len(contracts) /\ receipt.at \in DOMAIN contracts
    BY <1>1, <1>4 DEF ChainInv, UnsavedSound
  <2>2. r.at = receipt.at  OBVIOUS
  <2>3. \A n : UnderWay(n) <=> n = name  BY <1>0, <1>1 DEF UnderWay
  <2> HIDE DEF r
  <2>4. DOMAIN records' = DOMAIN records \union {name}
        /\ \A n \in DOMAIN records' : records'[n] = IF n = name THEN r ELSE records[n]
    BY <1>1, <1>4 DEF With
  <2>5. \A n : n # name => Found(n)' = Found(n)  BY <2>4 DEF Found
  <2>6. Found(name)' = Len(contracts)  BY <2>1, <2>2, <2>4 DEF Found
  <2>7. \A n : Found(n) \in Nat /\ Found(n) <= Len(contracts)
    <3>1. DOMAIN contracts = 1 .. Len(contracts) /\ Len(contracts) \in Nat
      BY ListedLen DEF ChainInv, ChainSound
    <3>2. \A n \in DOMAIN records : records[n].at \in DOMAIN contracts
      BY DEF ChainInv, ChainSound
    <3> QED BY <3>1, <3>2 DEF Found, Nowhere
  <2>8. \A n : Found(n) <= Found(n)' /\ Found(n)' \in Nat
    <3>1. ASSUME NEW n PROVE Found(n) <= Found(n)' /\ Found(n)' \in Nat
      <4>1. CASE n = name
        <5>1. Found(n)' = Len(contracts) /\ Len(contracts) \in Nat
          BY <2>6, <4>1, ListedLen DEF ChainInv, ChainSound
        <5> QED BY <2>7, <5>1
      <4>2. CASE n # name
        <5>1. Found(n)' = Found(n) /\ Found(n) \in Nat  BY <2>5, <2>7, <4>2
        <5> QED BY <5>1
      <4> QED BY <4>1, <4>2
    <3> QED BY <3>1
  <2>9. ASSUME NEW c, Dated(c) PROVE Dated(c)' /\ (Made(c)' => Made(c))
    <3> DEFINE names == ArgsOf(c.name)
    <3>1. c.source = "changed" => c.name \in changed'  BY <1>1, <2>9 DEF Dated
    <3>2. ASSUME DOMAIN c.args = DOMAIN names, NEW i \in DOMAIN names
          PROVE  /\ c.args[i] \in Nat /\ c.args[i] <= Found(names[i])'
                 /\ c.args[i] = Found(names[i])' => c.args[i] = Found(names[i])
      <4>1. c.args[i] \in Nat /\ c.args[i] <= Found(names[i])  BY <2>9, <3>2 DEF Dated
      <4> DEFINE old == Found(names[i])  new == Found(names[i])'
      <4>2. old \in Nat /\ new \in Nat /\ old <= new  BY <2>7, <2>8
      <4> HIDE DEF old, new
      <4>3. c.args[i] <= old  BY <4>1 DEF old
      <4>4. c.args[i] <= new /\ (c.args[i] = new => c.args[i] = old)  BY <4>1, <4>2, <4>3
      <4> QED BY <4>1, <4>4 DEF old, new
    <3>3. Dated(c)'  BY <3>1, <3>2 DEF Dated
    <3>4. ASSUME Made(c)' PROVE Made(c)
      <4>1. c.source = Source(c.name)  BY <1>1, <3>4 DEF Made, Source
      <4>2. c.args = [i \in DOMAIN names |-> Found(names[i])']
        BY <3>4, ArgumentsFound DEF Made
      <4>3. DOMAIN c.args = DOMAIN names /\ \A i \in DOMAIN names : c.args[i] = Found(names[i])'
        BY <4>2
      <4>4. \A i \in DOMAIN names : Found(names[i])' = Found(names[i])  BY <3>2, <4>3
      <4>5. c.args = [i \in DOMAIN names |-> Found(names[i])]  BY <4>2, <4>4
      <4> QED BY <4>1, <4>5, ArgumentsFound DEF Made
    <3> QED BY <3>3, <3>4
  <2>10. ASSUME NEW a \in DOMAIN contracts PROVE Kept(a)'
    <3>0. PICK c : c = contracts[a] /\ c = contracts'[a]  BY <1>1
    <3>1. c.name \notin Range(Wrappers) =>
            /\ Dated(c)
            /\ Made(c) => IF c.name = name
                          THEN a = receipt.at
                          ELSE c.name \in DOMAIN records /\ a = records[c.name].at
      <4>1. Kept(a)  BY DEF FreshInv
      <4> QED BY <2>3, <3>0, <4>1 DEF Kept
    <3>2. c.name \notin Range(Wrappers) => Dated(c)' /\ (Made(c)' => Made(c))
      BY <2>9, <3>1
    <3>3. ASSUME c.name \notin Range(Wrappers), Made(c)'
          PROVE  c.name \in DOMAIN records' /\ a = records'[c.name].at
      <4>1. CASE c.name = name  BY <2>2, <2>4, <3>1, <3>2, <3>3, <4>1
      <4>2. CASE c.name # name  BY <2>4, <3>1, <3>2, <3>3, <4>2
      <4> QED BY <4>1, <4>2
    <3>4. ~UnderWay(c.name)'  BY <1>1 DEF UnderWay
    <3>5. /\ Dated(contracts[a])' <=> Dated(c)'
          /\ Made(contracts[a])' <=> Made(c)'
      BY <3>0 DEF Dated, Made
    <3>6. UnderWay(contracts[a].name)' <=> UnderWay(c.name)'  BY <3>0 DEF UnderWay
    <3> QED BY <3>0, <3>2, <3>3, <3>4, <3>5, <3>6 DEF Kept
  <2> QED BY <1>1, <1>2, <2>10 DEF FreshInv
<1> QED BY <1>3, <1>4

\* While transactions are on their way, what is under way has not been made.
LEMMA FreshMinedCall ==
  ASSUME FreshInv, ChainInv, NEW tx, MinedCall(tx),
         UNCHANGED <<deployment, changed, records, unsaved, outcome>>
  PROVE  FreshInv'
<1> SUFFICES ASSUME Saves PROVE FreshInv'
  BY SavesStays DEF FreshInv
<1>1. /\ mempool # <<>> /\ DOMAIN contracts' = DOMAIN contracts
      /\ \A a \in DOMAIN contracts : SameCreation(contracts'[a], contracts[a])
  BY DEF MinedCall
<1>2. \A c : (Made(c)' <=> Made(c)) /\ (Dated(c)' <=> Dated(c))  BY SameAddresses
<1>3. ASSUME NEW a \in DOMAIN contracts PROVE Kept(a)'
  <2>0. PICK c, e : c = contracts[a] /\ e = contracts'[a]  OBVIOUS
  <2>1. Kept(a)  BY DEF FreshInv
  <2>2. SameCreation(e, c) /\ e.name = c.name  BY <1>1, <2>0 DEF SameCreation
  <2>3. (Made(e) <=> Made(c)) /\ (Dated(e) <=> Dated(c))  BY <2>2, SameMade
  <2>4. c.name \notin Range(Wrappers) =>
          /\ Dated(c)
          /\ Made(c) => /\ ~UnderWay(c.name)
                        /\ c.name \in DOMAIN records /\ a = records[c.name].at
    BY <1>1, <2>0, <2>1 DEF Kept
  <2>5. UnderWay(c.name)' <=> UnderWay(c.name)  BY DEF UnderWay
  <2>6. /\ Dated(contracts[a])' <=> Dated(e)'
        /\ Made(contracts[a])' <=> Made(e)'
    BY <2>0 DEF Dated, Made
  <2>7. UnderWay(contracts[a].name)' <=> UnderWay(c.name)'
    BY <2>0, <2>2 DEF UnderWay
  <2> QED BY <1>2, <2>0, <2>2, <2>3, <2>4, <2>5, <2>6, <2>7 DEF Kept
<1>4. UnsavedFresh'
  <2>1. Dated(unsaved[1])' <=> Dated(unsaved[1])
    <3>1. PICK c : c = unsaved[1] /\ c = unsaved'[1]  OBVIOUS
    <3>2. Dated(c)' <=> Dated(c)  BY <1>2
    <3>3. Dated(unsaved[1])' <=> Dated(c)'  BY <3>1 DEF Dated
    <3> QED BY <3>1, <3>2, <3>3
  <2>2. \A a \in DOMAIN contracts' :
           SameCreation(contracts'[a], unsaved[1]) => SameCreation(contracts[a], unsaved[1])
    BY <1>1 DEF SameCreation
  <2> QED BY <1>1, <2>1, <2>2 DEF FreshInv, UnsavedFresh
<1>5. Distinct'
  <2>1. \A a, b \in DOMAIN contracts :
           SameCreation(contracts'[a], contracts'[b]) => SameCreation(contracts[a], contracts[b])
    BY <1>1 DEF SameCreation
  <2> QED BY <1>1, <2>1 DEF FreshInv, Distinct
<1> QED BY <1>1, <1>3, <1>4, <1>5 DEF FreshInv

LEMMA FreshMinedCreation ==
  ASSUME FreshInv, ChainInv, NEW tx, MinedCreation(tx),
         UNCHANGED <<deployment, changed, records, unsaved, outcome>>
  PROVE  FreshInv'
<1> SUFFICES ASSUME Saves PROVE FreshInv'
  BY SavesStays DEF FreshInv
<1>1. /\ mempool # <<>> /\ mempool' = <<>> /\ LastSent = tx /\ tx.kind = "create"
      /\ unsaved # None /\ SameCreation(tx, unsaved[1])
  <2>1. mempool # <<>> /\ mempool' = <<>> /\ LastSent = tx /\ tx.kind = "create"
    BY DEF MinedCreation
  <2> QED BY <2>1 DEF ChainInv, UnsavedSound
<1>2. \A c : (Made(c)' <=> Made(c)) /\ (Dated(c)' <=> Dated(c))  BY SameAddresses
<1>3. PICK u : u = unsaved[1] /\ u = unsaved'[1]  OBVIOUS
<1>4. /\ u.name \notin Range(Wrappers) /\ Dated(u) /\ SameCreation(tx, u)
      /\ \A a \in DOMAIN contracts : ~SameCreation(contracts[a], u)
  BY <1>1, <1>3 DEF FreshInv, UnsavedFresh
<1>5. UnsavedFresh'
  <2>1. Dated(unsaved[1])' <=> Dated(u)'  BY <1>3 DEF Dated
  <2> QED BY <1>1, <1>2, <1>3, <1>4, <2>1 DEF UnsavedFresh
\* The contracts that were there before.
<1>6. ASSUME NEW a \in DOMAIN contracts, contracts'[a] = contracts[a] PROVE Kept(a)'
  <2>0. PICK c : c = contracts[a] /\ c = contracts'[a]  BY <1>6
  <2>1. Kept(a)  BY DEF FreshInv
  <2>2. c.name \notin Range(Wrappers) =>
          /\ Dated(c)
          /\ Made(c) => /\ ~UnderWay(c.name)
                        /\ c.name \in DOMAIN records /\ a = records[c.name].at
    BY <1>1, <2>0, <2>1 DEF Kept
  <2>3. UnderWay(c.name)' <=> UnderWay(c.name)  BY DEF UnderWay
  <2>4. /\ Dated(contracts[a])' <=> Dated(c)'
        /\ Made(contracts[a])' <=> Made(c)'
    BY <2>0 DEF Dated, Made
  <2>5. UnderWay(contracts[a].name)' <=> UnderWay(c.name)'
    BY <2>0 DEF UnderWay
  <2> QED BY <1>2, <2>0, <2>2, <2>3, <2>4, <2>5 DEF Kept
<1>7. CASE receipt' = Failed /\ contracts' = contracts
  <2>1. \A a \in DOMAIN contracts : Kept(a)'  BY <1>6, <1>7
  <2>2. Distinct'  BY <1>7 DEF FreshInv, Distinct
  <2> QED BY <1>5, <1>7, <2>1, <2>2 DEF FreshInv
<1>8. CASE /\ contracts' = Append(contracts, Contract(tx.name, tx.source, tx.args,
                                                      OwnerOf(tx.name)))
           /\ receipt' = Succeeded(Len(contracts) + 1)
  <2>0. PICK c, n : /\ c = Contract(tx.name, tx.source, tx.args, OwnerOf(tx.name))
                    /\ n = Len(contracts) + 1
    OBVIOUS
  <2>1. SameCreation(c, tx)  BY <2>0, ContractIs DEF SameCreation
  <2>2. SameCreation(c, u) /\ c.name = u.name  BY <1>4, <2>1 DEF SameCreation
  <2>3. Listed(contracts)  BY DEF ChainInv, ChainSound
  <2>4. contracts' = Append(contracts, c)  BY <1>8, <2>0
  <2>5. /\ \A a \in DOMAIN contracts : contracts'[a] = contracts[a] /\ a # n
        /\ contracts'[n] = c
        /\ \A a \in DOMAIN contracts' : a \in DOMAIN contracts \/ a = n
    <3>1. /\ Len(contracts') = Len(contracts) + 1 /\ Listed(contracts')
          /\ \A a \in 1 .. Len(contracts) : contracts'[a] = contracts[a]
          /\ contracts'[n] = c
      BY <2>0, <2>3, <2>4, ListedAppend
    <3>2. /\ DOMAIN contracts = 1 .. Len(contracts) /\ Len(contracts) \in Nat
          /\ DOMAIN contracts' = 1 .. Len(contracts')
      BY <2>3, <3>1, ListedLen
    <3> QED BY <2>0, <3>1, <3>2
  <2>6. Kept(n)'
    <3>1. Dated(c) /\ c.name \notin Range(Wrappers)  BY <1>4, <2>2, SameMade
    <3>2. /\ Dated(contracts[n])' <=> Dated(c)'
          /\ Made(contracts[n])' <=> Made(c)'
      BY <2>5 DEF Dated, Made
    <3>3. UnderWay(contracts[n].name)'  BY <1>1, <1>3, <2>2, <2>5 DEF UnderWay
    <3>4. receipt'.ok /\ receipt'.at = n  BY <1>8, <2>0 DEF Succeeded
    <3> QED BY <1>1, <1>2, <3>1, <3>2, <3>3, <3>4 DEF Kept
  <2>7. \A a \in DOMAIN contracts' : Kept(a)'  BY <1>6, <2>5, <2>6
  <2>8. Distinct'
    <3>1. \A a \in DOMAIN contracts : /\ ~SameCreation(contracts'[a], c)
                                      /\ ~SameCreation(c, contracts'[a])
      BY <1>4, <2>2, <2>5 DEF SameCreation
    <3>2. \A a, b \in DOMAIN contracts :
             SameCreation(contracts'[a], contracts'[b]) => a = b
      BY <2>5 DEF FreshInv, Distinct
    <3> QED BY <2>5, <3>1, <3>2 DEF Distinct
  <2> QED BY <1>5, <2>7, <2>8 DEF FreshInv
<1> QED BY <1>7, <1>8 DEF MinedCreation

LEMMA FreshStep ==
  ASSUME FreshInv, ChainInv, Steps PROVE FreshInv'
<1>1. CASE Keeps  BY <1>1, FreshKept DEF Keeps, Still
<1>2. CASE Forgets \/ Restarts  BY <1>2, SavesStays DEF Forgets, Restarts, Still, FreshInv
<1>3. CASE Records  BY <1>3, FreshRecords
<1>4. CASE Mine  BY <1>4, MineKinds, FreshMinedCall, FreshMinedCreation
<1>5. ASSUME NEW name, Edits(name) PROVE FreshInv'  BY <1>5, FreshEdits
<1>6. ASSUME NEW tx, Calls(tx) PROVE FreshInv'  BY <1>6, FreshKept DEF Calls, Still
<1>7. ASSUME NEW name, Deploys(name) PROVE FreshInv'  BY <1>7, FreshDeploys
<1> QED BY <1>1, <1>2, <1>3, <1>4, <1>5, <1>6, <1>7 DEF Steps

LEMMA InitFresh == ASSUME Init PROVE FreshInv
<1>1. /\ unsaved = None /\ changed = {} /\ Original(contracts) /\ TestUnwrapped(contracts)
      /\ DOMAIN records = DOMAIN RecordsOf(contracts) \ Range(Wrappers)
      /\ \A n \in DOMAIN records : records[n] = RecordsOf(contracts)[n]
  BY Beginning
<1>2. ASSUME NEW a \in DOMAIN contracts, contracts[a].name \notin Range(Wrappers)
      PROVE  contracts[a].name \in DOMAIN records /\ records[contracts[a].name].at = a
  BY <1>1, <1>2, OneRecord
<1>3. ASSUME NEW a \in DOMAIN contracts, contracts[a].name \notin Range(Wrappers)
      PROVE  Dated(contracts[a])
  <2>0. PICK c : c = contracts[a]  OBVIOUS
  <2>1. c.source # "changed"  BY <1>1, <2>0 DEF Original
  <2>2. CASE c.args = <<>>
    <3>1. DOMAIN c.args = {}  BY <2>2
    <3> QED BY <2>0, <2>1, <3>1 DEF Dated
  <2>3. CASE c.args # <<>>
    <3>1. /\ c.name = "TestUnwrap" /\ c.args = <<1, 3>>
          /\ 1 \in DOMAIN contracts /\ contracts[1].name = "ENSRegistry"
          /\ 3 \in DOMAIN contracts /\ contracts[3].name = "BaseRegistrarImplementation"
      BY <1>1, <2>0, <2>3 DEF Original, TestUnwrapped
    <3>2. contracts[1].name \notin Range(Wrappers) /\ contracts[3].name \notin Range(Wrappers)
      BY <3>1, WrapperNames
    <3>3. Found("ENSRegistry") = 1 /\ Found("BaseRegistrarImplementation") = 3
      BY <1>2, <3>1, <3>2 DEF Found
    <3>4. ArgsOf(c.name) = <<"ENSRegistry", "BaseRegistrarImplementation">>
      BY <3>1 DEF ArgsOf
    <3>5. /\ DOMAIN ArgsOf(c.name) = {1, 2} /\ ArgsOf(c.name)[1] = "ENSRegistry"
          /\ ArgsOf(c.name)[2] = "BaseRegistrarImplementation"
      BY <3>4
    <3>6. c.args[1] = 1 /\ c.args[2] = 3  BY <3>1
    <3>7. \A i \in {1, 2} :
             c.args[i] \in Nat /\ c.args[i] <= Found(ArgsOf(c.name)[i])
      BY <3>3, <3>5, <3>6
    <3> QED BY <2>0, <2>1, <3>5, <3>7 DEF Dated
  <2> QED BY <2>2, <2>3
<1>4. \A a \in DOMAIN contracts : Kept(a)  BY <1>1, <1>2, <1>3 DEF Kept, UnderWay
<1>5. UnsavedFresh  BY <1>1 DEF UnsavedFresh
<1>6. Distinct  BY <1>1 DEF Distinct, Original, SameCreation
<1> QED BY <1>4, <1>5, <1>6 DEF FreshInv

LEMMA FreshAlways == Spec => []FreshInv
<1>1. Init => DeployInv /\ FreshInv
  BY InitProcess, InitChain, InitBounds, InitFresh DEF DeployInv
<1>2. DeployInv /\ FreshInv /\ [Next]_vars => DeployInv' /\ FreshInv'
  BY DeployStep, FreshStep DEF DeployInv
<1> QED BY <1>1, <1>2, PTL DEF Spec

\* Where records are kept, however often a run is killed, no contract is deployed a
\* second time from the same sources with the same arguments.
THEOREM DeployedOnce == Spec => []NeverDeployedTwice
<1>1. FreshInv => NeverDeployedTwice
  BY DEF FreshInv, Distinct, SameCreation, NeverDeployedTwice
<1> QED BY <1>1, FreshAlways, PTL

-----------------------------------------------------------------------------
(* What is wired is recorded.  As long as no source is edited, ens/ and    *)
(* diamond-resolver/ record each contract once: its record stays up to     *)
(* date, since the addresses of its arguments are on record already.  So a *)
(* transaction that is on its way still finds what it was meant for.       *)

Argued(name) == \A i \in DOMAIN ArgsOf(name) : ArgsOf(name)[i] \in DOMAIN records

\* Made from the source and with the arguments a script would use now.
Lasting(name, r) ==
    r.source = "first" /\ r.args = Arguments(ArgsOf(name)) /\ Argued(name)

RecordsLast == \A n \in DOMAIN records \ Copied(deployment) : Lasting(n, records[n])

UnsavedNew ==
    unsaved # None => /\ unsaved[1].name \notin DOMAIN records
                      /\ unsaved[1].name \notin Copied(deployment)
                      /\ Lasting(unsaved[1].name, unsaved[1])

CallsRecorded ==
    \A i \in DOMAIN mempool :
        mempool[i].kind = "call" => mempool[i].to \in Recorded /\ mempool[i].value \in Recorded

StorageRecorded == \A d \in DOMAIN storage : {d[1]} \union storage[d] \subseteq Recorded

Wiring == RecordsLast /\ UnsavedNew /\ CallsRecorded /\ StorageRecorded

WiringInv == Wires /\ ~deployment.upstream /\ changed = {} => Wiring

LEMMA WiresStays == ASSUME deployment' = deployment PROVE Wires' = Wires
BY DEF Wires, Project

\* Nothing is recorded: what was on record is where it was.
LEMMA SameRecords ==
  ASSUME UNCHANGED records
  PROVE  /\ Recorded' = Recorded
         /\ \A n : Argued(n)' <=> Argued(n)
         /\ \A n : Arguments(ArgsOf(n))' = Arguments(ArgsOf(n))
<1>1. \A n : Found(n)' = Found(n)  BY DEF Found
<1> QED BY <1>1, ArgumentsFound DEF Recorded, Argued

LEMMA WiringStays ==
  ASSUME RecordsLast, UNCHANGED <<records, deployment>>,
         unsaved' = None \/ (UnsavedNew /\ unsaved' = unsaved)
  PROVE  RecordsLast' /\ UnsavedNew'
<1>1. \A n : (Argued(n)' <=> Argued(n)) /\ Arguments(ArgsOf(n))' = Arguments(ArgsOf(n))
  BY SameRecords
<1>2. Copied(deployment)' = Copied(deployment)  BY DEF Copied
<1>3. \A n, r : Lasting(n, r)' <=> Lasting(n, r)  BY <1>1 DEF Lasting
<1>4. RecordsLast'
  <2>1. ASSUME NEW n \in DOMAIN records' \ Copied(deployment)' PROVE Lasting(n, records[n])'
    <3>1. PICK r : r = records[n] /\ r = records'[n]  OBVIOUS
    <3>2. Lasting(n, r)  BY <1>2, <2>1, <3>1 DEF RecordsLast
    <3>3. Lasting(n, r)'  BY <1>3, <3>2
    <3> QED BY <3>1, <3>3 DEF Lasting
  <2> QED BY <2>1 DEF RecordsLast, Lasting
<1>5. UnsavedNew'
  <2>1. CASE unsaved' = None  BY <2>1 DEF UnsavedNew
  <2>2. CASE UnsavedNew /\ unsaved' = unsaved /\ unsaved # None
    <3>1. PICK u : u = unsaved[1] /\ u = unsaved'[1]  BY <2>2
    <3>2. u.name \notin DOMAIN records /\ u.name \notin Copied(deployment)
          /\ Lasting(u.name, u)
      BY <2>2, <3>1 DEF UnsavedNew
    <3>3. Lasting(u.name, u)'  BY <1>3, <3>2
    <3> QED BY <1>2, <3>1, <3>2, <3>3 DEF UnsavedNew, Lasting
  <2> QED BY <2>1, <2>2
<1> QED BY <1>4, <1>5

\* Nothing is sent, mined or recorded.
LEMMA WiringKept ==
  ASSUME WiringInv, UNCHANGED <<deployment, records, mempool, storage>>,
         changed' = changed, unsaved' = None \/ unsaved' = unsaved
  PROVE  WiringInv'
<1> SUFFICES ASSUME Wires, ~deployment.upstream, changed = {}, Wiring PROVE Wiring'
  BY WiresStays DEF WiringInv
<1>1. RecordsLast' /\ UnsavedNew'  BY WiringStays DEF Wiring
<1>2. Recorded' = Recorded  BY SameRecords
<1>3. CallsRecorded' /\ StorageRecorded'  BY <1>2 DEF Wiring, CallsRecorded, StorageRecorded
<1> QED BY <1>1, <1>3 DEF Wiring

LEMMA WiringRestarts == ASSUME WiringInv, Restarts PROVE WiringInv'
<1>1. DOMAIN records' = {} /\ DOMAIN storage' = {} /\ unsaved' = None /\ mempool' = <<>>
  BY NothingRecorded DEF Restarts
<1>2. RecordsLast' /\ UnsavedNew' /\ StorageRecorded'
  BY <1>1 DEF RecordsLast, UnsavedNew, StorageRecorded
<1>3. CallsRecorded'  BY <1>1 DEF CallsRecorded
<1> QED BY <1>2, <1>3 DEF WiringInv, Wiring

LEMMA WiringCalls ==
  ASSUME WiringInv, ChainInv, NEW tx, Calls(tx) PROVE WiringInv'
<1>1. /\ Running /\ unsaved = None /\ unsaved' = None /\ mempool' = Append(mempool, tx)
      /\ Wires => tx.to \in Recorded /\ tx.value \in Recorded
      /\ UNCHANGED <<deployment, changed, records, storage>>
  BY DEF Calls, Still
<1> SUFFICES ASSUME Wires, ~deployment.upstream, changed = {}, Wiring PROVE Wiring'
  BY <1>1, WiresStays DEF WiringInv
<1>2. RecordsLast' /\ UnsavedNew'  BY <1>1, WiringStays DEF Wiring
<1>3. Recorded' = Recorded  BY <1>1, SameRecords
<1>4. \A i \in DOMAIN mempool' :
         \/ i \in DOMAIN mempool /\ mempool'[i] = mempool[i]
         \/ mempool'[i] = tx
  BY <1>1, NothingUnderWay, Sent
<1>5. CallsRecorded'  BY <1>1, <1>3, <1>4 DEF Wiring, CallsRecorded
<1>6. StorageRecorded'  BY <1>1, <1>3 DEF Wiring, StorageRecorded
<1> QED BY <1>2, <1>5, <1>6 DEF Wiring

LEMMA WiringDeploys ==
  ASSUME WiringInv, ChainInv, NEW name, Deploys(name) PROVE WiringInv'
<1> DEFINE creation == [name |-> name, source |-> Source(name),
                        args |-> Arguments(ArgsOf(name))]
           tx == [kind |-> "create", name |-> name, source |-> Source(name),
                  args |-> Arguments(ArgsOf(name))]
<1>1. /\ Running /\ unsaved = None /\ unsaved' = <<creation>> /\ mempool' = Append(mempool, tx)
      /\ ~UpToDate(name, Arguments(ArgsOf(name)))
      /\ Wires => name \notin Copied(deployment) /\ Argued(name)
      /\ UNCHANGED <<deployment, changed, records, storage>>
  BY DEF Deploys, Still, Argued
<1> SUFFICES ASSUME Wires, ~deployment.upstream, changed = {}, Wiring PROVE Wiring'
  BY <1>1, WiresStays DEF WiringInv
<1>2. tx.kind = "create"  OBVIOUS
<1>3. creation.name = name /\ Lasting(name, creation)
  BY <1>1 DEF Lasting, Source
<1>4. name \notin DOMAIN records
  <2>1. ASSUME name \in DOMAIN records PROVE FALSE
    <3>1. Lasting(name, records[name])  BY <1>1, <2>1 DEF Wiring, RecordsLast
    <3>2. records[name].source = Source(name)
          /\ records[name].args = Arguments(ArgsOf(name))
      BY <3>1 DEF Lasting, Source
    <3> QED BY <1>1, <2>1, <3>2 DEF UpToDate
  <2> QED BY <2>1
<1> HIDE DEF tx, creation
<1>5. PICK c : c = creation /\ c.name = name /\ Lasting(name, c)  BY <1>3
<1>6. unsaved' # None /\ unsaved'[1] = c  BY <1>1, <1>5 DEF None
<1>7. /\ Recorded' = Recorded
      /\ \A n : Argued(n)' <=> Argued(n)
      /\ \A n : Arguments(ArgsOf(n))' = Arguments(ArgsOf(n))
  BY <1>1, SameRecords
<1>8. UnsavedNew'
  <2>1. Lasting(name, c)'  BY <1>5, <1>7 DEF Lasting
  <2>2. Copied(deployment)' = Copied(deployment)  BY <1>1 DEF Copied
  <2> QED BY <1>1, <1>4, <1>5, <1>6, <2>1, <2>2 DEF UnsavedNew, Lasting
<1>9. RecordsLast'
  <2>1. ASSUME NEW n \in DOMAIN records' \ Copied(deployment)' PROVE Lasting(n, records[n])'
    <3>1. PICK r : r = records[n] /\ r = records'[n]  BY <1>1
    <3>2. Lasting(n, r)  BY <1>1, <2>1, <3>1 DEF Wiring, RecordsLast, Copied
    <3>3. Lasting(n, r)'  BY <1>7, <3>2 DEF Lasting
    <3> QED BY <3>1, <3>3 DEF Lasting
  <2> QED BY <2>1 DEF RecordsLast, Lasting
<1>10. \A i \in DOMAIN mempool' :
          \/ i \in DOMAIN mempool /\ mempool'[i] = mempool[i]
          \/ mempool'[i] = tx
  BY <1>1, NothingUnderWay, Sent
<1>11. CallsRecorded'  BY <1>2, <1>7, <1>10 DEF Wiring, CallsRecorded, tx
<1>12. StorageRecorded'  BY <1>1, <1>7 DEF Wiring, StorageRecorded
<1> QED BY <1>8, <1>9, <1>11, <1>12 DEF Wiring

LEMMA WiringMines == ASSUME WiringInv, ChainInv, Mine PROVE WiringInv'
<1>1. UNCHANGED <<deployment, changed, records, unsaved, outcome>>  BY MineKinds
<1> SUFFICES ASSUME Wires, ~deployment.upstream, changed = {}, Wiring PROVE Wiring'
  BY <1>1, WiresStays DEF WiringInv
<1>2. RecordsLast' /\ UnsavedNew'  BY <1>1, WiringStays DEF Wiring
<1>3. Recorded' = Recorded  BY <1>1, SameRecords
<1>4. ASSUME NEW tx, MinedCreation(tx) PROVE CallsRecorded' /\ StorageRecorded'
  <2>1. mempool' = <<>> /\ storage' = storage  BY <1>4 DEF MinedCreation
  <2> QED BY <1>3, <2>1 DEF Wiring, CallsRecorded, StorageRecorded
<1>5. ASSUME NEW tx, MinedCall(tx) PROVE CallsRecorded' /\ StorageRecorded'
  <2>1. /\ Listed(mempool) /\ mempool # <<>> /\ mempool' = Tail(mempool)
        /\ tx = mempool[1] /\ tx.kind = "call"
    BY <1>5 DEF MinedCall, ChainInv, MempoolSound
  <2>2. /\ Listed(mempool') /\ Len(mempool') = Len(mempool) - 1
        /\ \A i \in 1 .. Len(mempool) - 1 : mempool'[i] = mempool[i + 1]
    BY <2>1, ListedTail
  <2>3. /\ DOMAIN mempool' = 1 .. Len(mempool') /\ DOMAIN mempool = 1 .. Len(mempool)
        /\ Len(mempool) \in Nat \ {0}
    BY <2>1, <2>2, ListedLen
  <2>4. ASSUME NEW i \in DOMAIN mempool', mempool'[i].kind = "call"
        PROVE  mempool'[i].to \in Recorded /\ mempool'[i].value \in Recorded
    <3>1. i + 1 \in DOMAIN mempool /\ mempool'[i] = mempool[i + 1]  BY <2>2, <2>3
    <3> QED BY <2>4, <3>1 DEF Wiring, CallsRecorded
  <2>5. CallsRecorded'  BY <1>3, <2>4 DEF CallsRecorded
  <2>6. tx.to \in Recorded /\ tx.value \in Recorded
    BY <2>1, <2>3 DEF Wiring, CallsRecorded
  <2>7. Slot(tx.to, tx.slot) \subseteq Recorded
    BY DEF Slot, Wiring, StorageRecorded
  <2>8. CASE storage' = storage
    BY <1>3, <2>5, <2>8 DEF Wiring, StorageRecorded
  <2>9. CASE storage' # storage
    <3>1. PICK v : /\ v \subseteq Recorded
                   /\ storage' = With(storage, <<tx.to, tx.slot>>, v)
      BY <1>5, <2>6, <2>7, <2>9 DEF MinedCall
    <3>2. \A d \in DOMAIN storage' : {d[1]} \union storage'[d] \subseteq Recorded
      <4>1. ASSUME NEW d \in DOMAIN storage'
            PROVE  {d[1]} \union storage'[d] \subseteq Recorded
        <5>1. CASE d = <<tx.to, tx.slot>>
          <6>1. d[1] = tx.to /\ storage'[d] = v  BY <3>1, <5>1 DEF With
          <6> QED BY <2>6, <3>1, <6>1
        <5>2. CASE d # <<tx.to, tx.slot>>
          <6>1. d \in DOMAIN storage /\ storage'[d] = storage[d]
            BY <3>1, <5>2 DEF With
          <6> QED BY <6>1 DEF Wiring, StorageRecorded
        <5> QED BY <5>1, <5>2
      <4> QED BY <4>1
    <3> QED BY <1>3, <2>5, <3>2 DEF StorageRecorded
  <2> QED BY <2>8, <2>9
<1>6. CallsRecorded' /\ StorageRecorded'  BY <1>4, <1>5, MineKinds
<1> QED BY <1>2, <1>6 DEF Wiring

\* What is recorded was not on record before: everything else stays where it was.
LEMMA WiringRecords ==
  ASSUME WiringInv, ChainInv, Records PROVE WiringInv'
<1>0. PICK u : u = unsaved[1]  OBVIOUS
<1> DEFINE r == [at |-> receipt.at, source |-> u.source, args |-> u.args]
<1>1. /\ unsaved # None /\ mempool = <<>> /\ mempool' = <<>> /\ unsaved' = None
      /\ UNCHANGED <<deployment, contracts, storage, receipt, changed>>
      /\ IF receipt.ok THEN records' = With(records, u.name, r) ELSE records' = records
  BY <1>0 DEF Records, Still, WithRecord
<1>2. CASE ~receipt.ok  BY <1>1, <1>2, WiringKept
<1>3. CASE receipt.ok
  <2> SUFFICES ASSUME Wires, ~deployment.upstream, changed = {}, Wiring PROVE Wiring'
    BY <1>1, WiresStays DEF WiringInv
  <2>1. u.name \notin DOMAIN records /\ Lasting(u.name, u)
    BY <1>0, <1>1 DEF Wiring, UnsavedNew
  <2>2. r.source = u.source /\ r.args = u.args  OBVIOUS
  <2> HIDE DEF r
  <2>3. DOMAIN records' = DOMAIN records \union {u.name} /\ records'[u.name] = r
        /\ \A n \in DOMAIN records : records'[n] = records[n]
    BY <1>1, <1>3, <2>1 DEF With
  <2>4. ASSUME NEW n, Argued(n)
        PROVE  Argued(n)' /\ Arguments(ArgsOf(n))' = Arguments(ArgsOf(n))
    <3>1. Argued(n)'  BY <2>3, <2>4 DEF Argued
    <3>2. \A i \in DOMAIN ArgsOf(n) : Found(ArgsOf(n)[i])' = Found(ArgsOf(n)[i])
      BY <2>3, <2>4 DEF Argued, Found
    <3> QED BY <3>1, <3>2, ArgumentsFound
  <2>5. RecordsLast'
    <3>1. ASSUME NEW n \in DOMAIN records' \ Copied(deployment)'
          PROVE  /\ records'[n].source = "first"
                 /\ records'[n].args = Arguments(ArgsOf(n)) /\ Argued(n)
      <4>1. CASE n = u.name  BY <2>1, <2>2, <2>3, <4>1 DEF Lasting
      <4>2. CASE n # u.name
        <5>1. n \in DOMAIN records \ Copied(deployment) /\ records'[n] = records[n]
          BY <1>1, <2>3, <3>1, <4>2 DEF Copied
        <5> QED BY <5>1 DEF Wiring, RecordsLast, Lasting
      <4> QED BY <4>1, <4>2
    <3> QED BY <2>4, <3>1 DEF RecordsLast, Lasting
  <2>6. UnsavedNew' /\ CallsRecorded'  BY <1>1 DEF UnsavedNew, CallsRecorded
  <2>7. Recorded \subseteq Recorded'  BY <2>3 DEF Recorded
  <2>8. StorageRecorded'  BY <1>1, <2>7 DEF Wiring, StorageRecorded
  <2> QED BY <2>5, <2>6, <2>8 DEF Wiring
<1> QED BY <1>2, <1>3

LEMMA WiringStep == ASSUME WiringInv, ChainInv, Steps PROVE WiringInv'
<1>1. CASE Keeps \/ Forgets  BY <1>1, WiringKept DEF Keeps, Forgets, Still
<1>2. ASSUME NEW name, Edits(name) PROVE WiringInv'  BY <1>2 DEF Edits, WiringInv
<1>3. ASSUME NEW tx, Calls(tx) PROVE WiringInv'  BY <1>3, WiringCalls
<1>4. ASSUME NEW name, Deploys(name) PROVE WiringInv'  BY <1>4, WiringDeploys
<1> QED BY <1>1, <1>2, <1>3, <1>4, WiringRestarts, WiringRecords, WiringMines DEF Steps

LEMMA InitWiring == ASSUME Init PROVE WiringInv
<1> SUFFICES ASSUME Wires, ~deployment.upstream PROVE Wiring
  BY DEF WiringInv
<1>1. /\ unsaved = None /\ mempool = <<>> /\ Original(contracts)
      /\ Project = "ens" => contracts = <<>>
      /\ Project = "diamond" =>
            \A a \in DOMAIN contracts : contracts[a].name \in Range(CopiedRecords)
      /\ DOMAIN records \subseteq DOMAIN RecordsOf(contracts)
  BY Beginning
<1>2. PICK domains : storage = Wired(domains)  BY Beginning
<1>3. DOMAIN storage = {}  BY <1>2 DEF Wired, Wires
<1>4. \A n \in DOMAIN records : \E a \in DOMAIN contracts : contracts[a].name = n
  BY <1>1 DEF RecordsOf
<1>5. DOMAIN records \subseteq Copied(deployment)
  <2>1. CASE Project = "ens"
    <3>1. DOMAIN contracts = {}  BY <1>1, <2>1
    <3> QED BY <1>4, <3>1
  <2>2. CASE Project = "diamond"
    <3>1. Copied(deployment) = Range(CopiedRecords)  BY <2>2 DEF Copied, Project
    <3> QED BY <1>1, <1>4, <2>2, <3>1
  <2> QED BY <2>1, <2>2 DEF Wires
<1>6. RecordsLast /\ UnsavedNew /\ StorageRecorded
  BY <1>1, <1>3, <1>5 DEF RecordsLast, UnsavedNew, StorageRecorded
<1>7. CallsRecorded  BY <1>1 DEF CallsRecorded
<1> QED BY <1>6, <1>7 DEF Wiring

\* Unless a source was edited, whatever the scripts of ens/ and diamond-resolver/ have
\* wired, and whatever they wired it into, is what the records know.
THEOREM WiringRecorded == Spec => []WiringMatchesRecords
<1>1. Init => DeployInv /\ WiringInv
  BY InitProcess, InitChain, InitBounds, InitWiring DEF DeployInv
<1>2. DeployInv /\ WiringInv /\ [Next]_vars => DeployInv' /\ WiringInv'
  BY DeployStep, WiringStep DEF DeployInv
<1>3. WiringInv => WiringMatchesRecords
  BY DEF WiringInv, Wiring, Wires, StorageRecorded, Recorded, WiringMatchesRecords
<1> QED BY <1>1, <1>2, <1>3, PTL DEF Spec

-----------------------------------------------------------------------------
(* A green run leaves a registry with its top level and its reverse names. *)
(* Every call that Root makes on the registry comes after the registry's   *)
(* script has come to its end, and that is remembered: there is no second  *)
(* registry after that.  The name wrapper is created only where            *)
(* addr.reverse is set, which needs that reverse is; and no call numbered  *)
(* above 0 succeeds before the one numbered 0, which sets the top level.   *)

Reverses == Project = "ens" /\ ~deployment.upstream

\* The scripts of the registry and of the name wrapper, by their places.
RegistryAt == 3
WrapperAt == 9

NeedsRegistry(i) ==
    EnsScripts[RegistryAt].tags \intersect Range(EnsScripts[i].dependencies) # {}

Registry == Found("ENSRegistry")

\* The registry is deployed for good.
RegistryStands == "ens" \in migrations /\ "ENSRegistry" \in DOMAIN records

OfRegistry(args) == RegistryStands /\ 1 \in DOMAIN args /\ args[1] = Registry

Set(slot) == <<Registry, slot>> \in DOMAIN storage

Remembered ==
    /\ migrations \subseteq {"root", "ens"}
    /\ "ens" \in migrations => "ENSRegistry" \in DOMAIN records

UnsavedOrdered ==
    unsaved # None =>
        /\ unsaved[1].name = "ENSRegistry" => ~RegistryStands
        /\ unsaved[1].name = "OptiDomains" => OfRegistry(unsaved[1].args)

Ordered(tx) ==
    /\ tx.kind = "create" => (tx.name = "OptiDomains" => OfRegistry(tx.args))
    /\ tx.kind = "call" =>
          /\ tx.root # Nowhere
          /\ tx.nonce = 0 => RegistryStands /\ tx.to = Registry /\ tx.slot = "tld"
          /\ tx.slot = "addr.reverse" => tx.nonce # 0

MempoolOrdered == \A i \in DOMAIN mempool : Ordered(mempool[i])

NoncesCount ==
    \A a \in DOMAIN contracts :
        /\ contracts[a].nonce \in Nat
        /\ contracts[a].nonce # 0 => RegistryStands /\ Set("tld")

ReverseFollows ==
    \A d \in DOMAIN storage :
        /\ storage[d] # {}
        /\ d[2] = "addr.reverse" =>
              /\ <<d[1], "reverse">> \in DOMAIN storage
              /\ \E a \in DOMAIN contracts : contracts[a].nonce # 0

WrapperClaimed ==
    \A a \in DOMAIN contracts :
        contracts[a].name = "OptiDomains" =>
            OfRegistry(contracts[a].args) /\ Set("addr.reverse")

OrderInv ==
    Reverses => /\ Remembered /\ UnsavedOrdered /\ MempoolOrdered
                /\ NoncesCount /\ ReverseFollows /\ WrapperClaimed

\* What is still to come in a run.
QueueInv ==
    Reverses =>
        /\ \A k \in DOMAIN queue :
              NeedsRegistry(queue[k]) =>
                  RegistryStands \/ \E j \in 1 .. k - 1 : queue[j] = RegistryAt
        /\ outcome \in {"running", "done"} /\ command = {} =>
              "OptiDomains" \in DOMAIN records \/ \E k \in DOMAIN queue : queue[k] = WrapperAt

-----------------------------------------------------------------------------
(* The scripts of ens/ again: the order of what they do to the registry.   *)

OrderedStep(i, steps, j) ==
    LET st == steps[j]
    IN  /\ st.op \in {"get", "deploy", "leave", "execute"}
        /\ st.op = "execute" =>
              /\ st.nonce = 0 => NeedsRegistry(i) /\ st.to = "ENSRegistry" /\ st.slot = "tld"
              /\ st.slot = "addr.reverse" => st.nonce # 0
        /\ st.op = "deploy" =>
              /\ st.name = "ENSRegistry" => i = RegistryAt /\ ~st.once
              /\ st.name = "OptiDomains" => NeedsRegistry(i)
              /\ i = RegistryAt => st.name = "ENSRegistry"
              /\ i = WrapperAt => st.name = "OptiDomains"
        /\ st.op = "leave" =>
              /\ i # RegistryAt
              /\ i = WrapperAt => Told(steps, j, "OptiDomains")

Makes(steps, name) ==
    \E j \in 1 .. Len(steps) : steps[j].op = "deploy" /\ steps[j].name = name

OrderedScript(i) ==
    LET s == EnsScripts[i]
    IN  /\ \A j \in 1 .. Len(s.steps) : OrderedStep(i, s.steps, j)
        /\ s.remembered => s.id \in {"root", "ens"}
        /\ s.id = "ens" => i = RegistryAt
        /\ i = RegistryAt => s.id = "ens" /\ s.remembered /\ Makes(s.steps, "ENSRegistry")
        /\ i = WrapperAt => s.id \notin {"root", "ens"} /\ Makes(s.steps, "OptiDomains")

LEMMA RegistryNeeded == NeedsRegistry(1) /\ NeedsRegistry(WrapperAt)
<1>1. /\ EnsScripts[RegistryAt] = RegistryScript /\ EnsScripts[1] = BaseRegistrarScript
      /\ EnsScripts[WrapperAt] = NameWrapperScript
  BY DEF EnsScripts, RegistryAt, WrapperAt
<1>2. "registry" \in RegistryScript.tags  BY DEF RegistryScript, Script
<1>3. 1 \in DOMAIN BaseRegistrarScript.dependencies
      /\ BaseRegistrarScript.dependencies[1] = "registry"
  BY DEF BaseRegistrarScript, Script
<1>4. 4 \in DOMAIN NameWrapperScript.dependencies
      /\ NameWrapperScript.dependencies[4] = "registry"
  BY DEF NameWrapperScript, Script
<1>5. /\ "registry" \in Range(BaseRegistrarScript.dependencies)
      /\ "registry" \in Range(NameWrapperScript.dependencies)
  BY <1>3, <1>4 DEF Range
<1> QED BY <1>1, <1>2, <1>5 DEF NeedsRegistry

LEMMA BaseRegistrarOrdered == OrderedScript(1)
<1> DEFINE s == EnsScripts[1]
<1>1. s = BaseRegistrarScript  BY DEF EnsScripts
<1>2. /\ s.id = "registrar" /\ ~s.remembered
      /\ s.steps = [j \in DOMAIN s.steps |-> s.steps[j]] /\ DOMAIN s.steps = 1 .. 3
      /\ s.steps[1].op = "get"
      /\ s.steps[2].op = "deploy" /\ s.steps[2].name = "BaseRegistrarImplementation"
      /\ s.steps[3].op = "execute" /\ s.steps[3].to = "ENSRegistry" /\ s.steps[3].slot = "tld"
  BY <1>1 DEF BaseRegistrarScript, Script, Get, DeployOnce, Execute
<1> HIDE DEF s
<1>3. Len(s.steps) = 3  BY <1>2, ListedFunction
<1>4. 1 # RegistryAt /\ 1 # WrapperAt  BY DEF RegistryAt, WrapperAt
<1>5. \A j \in 1 .. 3 : OrderedStep(1, s.steps, j)
  BY <1>2, <1>4, RegistryNeeded DEF OrderedStep
<1> QED BY <1>2, <1>3, <1>4, <1>5 DEF OrderedScript, s

LEMMA RegistryOrdered == OrderedScript(RegistryAt)
<1> DEFINE s == EnsScripts[RegistryAt]
<1>1. s = RegistryScript  BY DEF EnsScripts, RegistryAt
<1>2. /\ s.id = "ens" /\ s.remembered
      /\ s.steps = [j \in DOMAIN s.steps |-> s.steps[j]] /\ DOMAIN s.steps = 1 .. 2
      /\ s.steps[1].op = "get"
      /\ s.steps[2].op = "deploy" /\ s.steps[2].name = "ENSRegistry" /\ ~s.steps[2].once
  BY <1>1 DEF RegistryScript, Script, Get, Deploy
<1> HIDE DEF s
<1>3. Len(s.steps) = 2  BY <1>2, ListedFunction
<1>4. RegistryAt # WrapperAt  BY DEF RegistryAt, WrapperAt
<1>5. \A j \in 1 .. 2 : OrderedStep(RegistryAt, s.steps, j)
  BY <1>2, <1>4 DEF OrderedStep
<1>6. Makes(s.steps, "ENSRegistry")  BY <1>2, <1>3 DEF Makes
<1> QED BY <1>2, <1>3, <1>4, <1>5, <1>6 DEF OrderedScript, s

LEMMA NameWrapperOrdered == OrderedScript(WrapperAt)
<1> DEFINE s == EnsScripts[WrapperAt]
<1>1. s = NameWrapperScript  BY DEF EnsScripts, WrapperAt
<1>2. /\ s.id = "name-wrapper" /\ ~s.remembered
      /\ s.steps = [j \in DOMAIN s.steps |-> s.steps[j]] /\ DOMAIN s.steps = 1 .. 4
      /\ s.steps[1].op = "get"
      /\ s.steps[2].op = "deploy" /\ s.steps[2].name = "OptiDomains"
      /\ s.steps[3].op = "leave"
      /\ s.steps[4].op = "execute" /\ s.steps[4].nonce = 3 /\ s.steps[4].slot = "controllers"
  BY <1>1 DEF NameWrapperScript, Script, Get, DeployOnce, LeaveOn, Execute
<1> HIDE DEF s
<1>3. Len(s.steps) = 4  BY <1>2, ListedFunction
<1>4. RegistryAt # WrapperAt  BY DEF RegistryAt, WrapperAt
<1>5. Told(s.steps, 3, "OptiDomains")  BY <1>2 DEF Told
<1>6. \A j \in 1 .. 4 : OrderedStep(WrapperAt, s.steps, j)
  BY <1>2, <1>4, <1>5, RegistryNeeded DEF OrderedStep
<1>7. Makes(s.steps, "OptiDomains")  BY <1>2, <1>3 DEF Makes
<1> QED BY <1>2, <1>3, <1>4, <1>6, <1>7 DEF OrderedScript, s

\* The other scripts neither deploy nor make the first call.
Aside(st) ==
    /\ st.op \in {"get", "deploy", "leave", "execute"}
    /\ st.op = "deploy" => st.name \notin {"ENSRegistry", "OptiDomains"}
    /\ st.op = "execute" => st.nonce # 0

LEMMA AsideOrdered ==
  ASSUME NEW i \in 1 .. 9, i \notin {RegistryAt, WrapperAt},
         NEW s, s = EnsScripts[i], NEW n \in Nat, DOMAIN s.steps = 1 .. n,
         s.steps = [j \in DOMAIN s.steps |-> s.steps[j]],
         \A j \in 1 .. n : Aside(s.steps[j]),
         s.id # "ens", s.remembered => s.id = "root"
  PROVE  OrderedScript(i)
<1>1. Len(s.steps) = n  BY ListedFunction
<1>2. \A j \in 1 .. n : OrderedStep(i, s.steps, j)  BY DEF Aside, OrderedStep
<1> QED BY <1>1, <1>2 DEF OrderedScript

LEMMA OthersOrdered == \A i \in {2, 4, 5, 6, 7, 8} : OrderedScript(i)
<1>0. \A i \in {2, 4, 5, 6, 7, 8} : i \in 1 .. 9 /\ i \notin {RegistryAt, WrapperAt}
  BY DEF RegistryAt, WrapperAt
<1>1. OrderedScript(2)
  <2> DEFINE st == ControllerScript.steps
  <2>1. EnsScripts[2] = ControllerScript  BY DEF EnsScripts
  <2>2. ControllerScript.id # "ens" /\ ~ControllerScript.remembered
    BY DEF ControllerScript, Script
  <2>3. /\ st = [j \in DOMAIN st |-> st[j]] /\ DOMAIN st = 1 .. 4
        /\ st[1].op = "get"
        /\ st[2].op = "deploy" /\ st[2].name = "WhitelistRegistrarController"
        /\ st[3].op = "execute" /\ st[3].nonce = 4
        /\ st[4].op = "execute" /\ st[4].nonce = 5
    BY DEF ControllerScript, Script, Get, DeployOnce, Execute
  <2> HIDE DEF st
  <2>4. \A j \in 1 .. 4 : Aside(st[j])  BY <2>3 DEF Aside
  <2>5. PICK s : /\ s = EnsScripts[2] /\ s.steps = st
                 /\ s.id # "ens" /\ ~s.remembered
    BY <2>1, <2>2 DEF st
  <2>6. /\ DOMAIN s.steps = 1 .. 4 /\ s.steps = [j \in DOMAIN s.steps |-> s.steps[j]]
        /\ \A j \in 1 .. 4 : Aside(s.steps[j])
    BY <2>3, <2>4, <2>5
  <2>7. s = EnsScripts[2] /\ s.id # "ens" /\ (s.remembered => s.id = "root")  BY <2>5
  <2> QED BY <1>0, <2>6, <2>7, AsideOrdered
<1>2. OrderedScript(4)
  <2>1. PICK s : s = EnsScripts[4] /\ s = ReverseRegistrarScript  BY DEF EnsScripts
  <2>2. /\ s.id = "reverse-registrar" /\ ~s.remembered
        /\ s.steps = [j \in DOMAIN s.steps |-> s.steps[j]] /\ DOMAIN s.steps = 1 .. 6
        /\ s.steps[1].op = "get"
        /\ s.steps[2].op = "deploy" /\ s.steps[2].name = "ReverseRegistrar"
        /\ s.steps[3].op = "leave" /\ s.steps[4].op = "get"
        /\ s.steps[5].op = "execute" /\ s.steps[5].nonce = 1
        /\ s.steps[6].op = "execute" /\ s.steps[6].nonce = 2
    BY <2>1 DEF ReverseRegistrarScript, Script, Get, DeployOnce, LeaveOn, Execute
  <2>3. \A j \in 1 .. 6 : Aside(s.steps[j])  BY <2>2 DEF Aside
  <2> QED BY <1>0, <2>1, <2>2, <2>3, AsideOrdered
<1>3. OrderedScript(5)
  <2>1. PICK s : s = EnsScripts[5] /\ s = ResolverScript  BY DEF EnsScripts
  <2>2. /\ s.id = "resolver" /\ ~s.remembered
        /\ s.steps = [j \in DOMAIN s.steps |-> s.steps[j]] /\ DOMAIN s.steps = 1 .. 3
        /\ s.steps[1].op = "get"
        /\ s.steps[2].op = "deploy" /\ s.steps[2].name = "PublicResolver"
        /\ s.steps[3].op = "execute" /\ s.steps[3].nonce = 6
    BY <2>1 DEF ResolverScript, Script, Get, DeployOnce, Execute
  <2>3. \A j \in 1 .. 3 : Aside(s.steps[j])  BY <2>2 DEF Aside
  <2> QED BY <1>0, <2>1, <2>2, <2>3, AsideOrdered
<1>4. OrderedScript(6)
  <2>1. PICK s : s = EnsScripts[6] /\ s = RootScript  BY DEF EnsScripts
  <2>2. /\ s.id = "root"
        /\ s.steps = [j \in DOMAIN s.steps |-> s.steps[j]] /\ DOMAIN s.steps = 1 .. 1
        /\ s.steps[1].op = "deploy" /\ s.steps[1].name = "Root"
    BY <2>1 DEF RootScript, Script, Deploy
  <2>3. \A j \in 1 .. 1 : Aside(s.steps[j])  BY <2>2 DEF Aside
  <2> QED BY <1>0, <2>1, <2>2, <2>3, AsideOrdered
<1>5. OrderedScript(7)
  <2>1. PICK s : s = EnsScripts[7] /\ s = UniversalResolverScript  BY DEF EnsScripts
  <2>2. /\ s.id = "universal-resolver" /\ ~s.remembered
        /\ s.steps = [j \in DOMAIN s.steps |-> s.steps[j]] /\ DOMAIN s.steps = 1 .. 0
    BY <2>1 DEF UniversalResolverScript, Script
  <2>3. \A j \in 1 .. 0 : Aside(s.steps[j])  OBVIOUS
  <2> QED BY <1>0, <2>1, <2>2, <2>3, AsideOrdered
<1>6. OrderedScript(8)
  <2>1. PICK s : s = EnsScripts[8] /\ s = MetadataScript  BY DEF EnsScripts
  <2>2. /\ s.id = "metadata" /\ ~s.remembered
        /\ s.steps = [j \in DOMAIN s.steps |-> s.steps[j]] /\ DOMAIN s.steps = 1 .. 1
        /\ s.steps[1].op = "deploy" /\ s.steps[1].name = "OptiDomainsMetadataService"
    BY <2>1 DEF MetadataScript, Script, Deploy
  <2>3. \A j \in 1 .. 1 : Aside(s.steps[j])  BY <2>2 DEF Aside
  <2> QED BY <1>0, <2>1, <2>2, <2>3, AsideOrdered
<1> QED BY <1>1, <1>2, <1>3, <1>4, <1>5, <1>6

LEMMA EnsScriptsOrdered == \A i \in 1 .. 9 : OrderedScript(i)
<1>1. \A i \in 1 .. 9 : i \in {1, RegistryAt, WrapperAt} \/ i \in {2, 4, 5, 6, 7, 8}
  BY DEF RegistryAt, WrapperAt
<1> QED BY <1>1, BaseRegistrarOrdered, RegistryOrdered, NameWrapperOrdered, OthersOrdered

-----------------------------------------------------------------------------
(* What each step does to that order.                                      *)

LEMMA ReversesStays == ASSUME deployment' = deployment PROVE Reverses' = Reverses
BY DEF Reverses, Project

\* The registry stays where it is.
LEMMA RegistryLasts ==
  ASSUME migrations \subseteq migrations',
         RegistryStands => /\ "ENSRegistry" \in DOMAIN records'
                           /\ records'["ENSRegistry"] = records["ENSRegistry"]
  PROVE  /\ RegistryStands => RegistryStands' /\ Registry' = Registry
         /\ \A args : OfRegistry(args) => OfRegistry(args)'
         /\ \A tx : Ordered(tx) => Ordered(tx)'
<1>1. RegistryStands => RegistryStands' /\ Registry' = Registry
  BY DEF RegistryStands, Registry, Found
<1>2. \A args : OfRegistry(args) => OfRegistry(args)'  BY <1>1 DEF OfRegistry
<1>3. \A tx : Ordered(tx) => Ordered(tx)'  BY <1>1, <1>2 DEF Ordered
<1> QED BY <1>1, <1>2, <1>3

LEMMA OrderKept ==
  ASSUME OrderInv, UNCHANGED <<deployment, contracts, storage, mempool, records>>,
         unsaved' = None \/ (unsaved' = unsaved /\ migrations' = migrations),
         migrations \subseteq migrations',
         Reverses => /\ migrations' \subseteq {"root", "ens"}
                     /\ "ens" \in migrations' => "ENSRegistry" \in DOMAIN records
  PROVE  OrderInv' /\ (RegistryStands => RegistryStands')
<1>1. /\ RegistryStands => RegistryStands' /\ Registry' = Registry
      /\ \A args : OfRegistry(args) => OfRegistry(args)'
      /\ \A tx : Ordered(tx) => Ordered(tx)'
  BY RegistryLasts DEF RegistryStands
<1> SUFFICES ASSUME Reverses
             PROVE  /\ Remembered' /\ UnsavedOrdered' /\ MempoolOrdered'
                    /\ NoncesCount' /\ ReverseFollows' /\ WrapperClaimed'
  BY <1>1, ReversesStays DEF OrderInv
<1>2. Remembered'  BY DEF Remembered
<1>3. UnsavedOrdered'
  <2>1. CASE unsaved' = None  BY <2>1 DEF UnsavedOrdered
  <2>2. CASE unsaved' = unsaved /\ migrations' = migrations
    <3>1. RegistryStands' = RegistryStands  BY <2>2 DEF RegistryStands
    <3> QED BY <1>1, <2>2, <3>1 DEF OrderInv, UnsavedOrdered
  <2> QED BY <2>1, <2>2
<1>4. MempoolOrdered'
  <2>1. ASSUME NEW i \in DOMAIN mempool PROVE Ordered(mempool[i])'
    <3>1. PICK tx : tx = mempool[i] /\ tx = mempool'[i]  OBVIOUS
    <3>2. Ordered(tx)'  BY <1>1, <3>1 DEF OrderInv, MempoolOrdered
    <3> QED BY <3>1, <3>2 DEF Ordered
  <2> QED BY <2>1 DEF MempoolOrdered
<1>5. NoncesCount'  BY <1>1 DEF OrderInv, NoncesCount, Set
<1>6. ReverseFollows'  BY DEF OrderInv, ReverseFollows
<1>7. WrapperClaimed'
  <2>1. ASSUME NEW a \in DOMAIN contracts, contracts[a].name = "OptiDomains"
        PROVE  OfRegistry(contracts[a].args)' /\ Set("addr.reverse")'
    <3>1. PICK args : args = contracts[a].args /\ args = contracts'[a].args  OBVIOUS
    <3>2. OfRegistry(args) /\ Set("addr.reverse")
      BY <2>1, <3>1 DEF OrderInv, WrapperClaimed
    <3>3. OfRegistry(args)' /\ Registry' = Registry  BY <1>1, <3>2 DEF OfRegistry
    <3> QED BY <3>1, <3>2, <3>3 DEF OfRegistry, Set
  <2> QED BY <2>1 DEF WrapperClaimed
<1> QED BY <1>1, <1>2, <1>3, <1>4, <1>5, <1>6, <1>7

LEMMA OrderRestarts == ASSUME Restarts, migrations' = {} PROVE OrderInv'
<1>1. /\ DOMAIN records' = {} /\ DOMAIN storage' = {} /\ DOMAIN contracts' = {}
      /\ unsaved' = None /\ DOMAIN mempool' = {}
  BY NothingRecorded DEF Restarts
<1>2. Remembered' /\ UnsavedOrdered'  BY <1>1 DEF Remembered, UnsavedOrdered
<1>3. MempoolOrdered'  BY <1>1 DEF MempoolOrdered
<1>4. NoncesCount' /\ ReverseFollows'  BY <1>1 DEF NoncesCount, ReverseFollows
<1>5. WrapperClaimed'  BY <1>1 DEF WrapperClaimed
<1> QED BY <1>2, <1>3, <1>4, <1>5 DEF OrderInv

\* Where neither records nor chain change, only what is sent matters.
LEMMA OrderSends ==
  ASSUME OrderInv, Reverses, Listed(mempool), NEW tx, Ordered(tx),
         mempool' = Append(mempool, tx),
         UNCHANGED <<deployment, contracts, storage, records, migrations>>,
         UnsavedOrdered'
  PROVE  OrderInv'
<1>1. RegistryStands' = RegistryStands /\ Registry' = Registry
  BY DEF RegistryStands, Registry, Found
<1>2. \A e : Ordered(e)' <=> Ordered(e)  BY <1>1 DEF Ordered, OfRegistry
<1>3. MempoolOrdered'
  <2>1. /\ Listed(mempool') /\ Len(mempool') = Len(mempool) + 1
        /\ \A i \in 1 .. Len(mempool) : mempool'[i] = mempool[i]
        /\ mempool'[Len(mempool) + 1] = tx
    BY ListedAppend
  <2>2. DOMAIN mempool = 1 .. Len(mempool) /\ Len(mempool) \in Nat
        /\ DOMAIN mempool' = 1 .. Len(mempool) + 1
    BY <2>1, ListedLen
  <2>3. ASSUME NEW i \in DOMAIN mempool' PROVE Ordered(mempool[i])'
    <3>1. PICK e : e = mempool'[i]  OBVIOUS
    <3>2. Ordered(e)
      <4>1. CASE i = Len(mempool) + 1  BY <2>1, <3>1, <4>1
      <4>2. CASE i \in DOMAIN mempool
        <5>1. e = mempool[i]  BY <2>1, <2>2, <3>1, <4>2
        <5> QED BY <4>2, <5>1 DEF OrderInv, MempoolOrdered
      <4> QED BY <2>2, <4>1, <4>2
    <3>3. Ordered(e)'  BY <1>2, <3>2
    <3> QED BY <3>1, <3>3 DEF Ordered
  <2> QED BY <2>3 DEF MempoolOrdered
<1>4. Remembered' /\ ReverseFollows'
  BY DEF OrderInv, Remembered, ReverseFollows
<1>5. NoncesCount'  BY <1>1 DEF OrderInv, NoncesCount, Set
<1>6. WrapperClaimed'  BY <1>1 DEF OrderInv, WrapperClaimed, OfRegistry, Set
<1> QED BY <1>3, <1>4, <1>5, <1>6 DEF OrderInv

LEMMA OrderCalls ==
  ASSUME OrderInv, ChainInv, NEW tx, Calls(tx), Reverses => Ordered(tx),
         migrations' = migrations
  PROVE  OrderInv'
<1>1. /\ unsaved' = None /\ mempool' = Append(mempool, tx)
      /\ UNCHANGED <<deployment, contracts, storage, records>>
  BY DEF Calls, Still
<1>2. CASE ~Reverses  BY <1>1, <1>2, ReversesStays DEF OrderInv
<1>3. CASE Reverses
  <2>1. UnsavedOrdered'  BY <1>1 DEF UnsavedOrdered
  <2>2. Listed(mempool)  BY DEF ChainInv, MempoolSound
  <2> QED BY <1>1, <1>3, <2>1, <2>2, OrderSends
<1> QED BY <1>2, <1>3

LEMMA OrderDeploys ==
  ASSUME OrderInv, ChainInv, NEW name, Deploys(name), migrations' = migrations,
         Reverses => /\ name = "ENSRegistry" => ~RegistryStands
                     /\ name = "OptiDomains" => RegistryStands
  PROVE  OrderInv'
<1> DEFINE args == Arguments(ArgsOf(name))
           tx == [kind |-> "create", name |-> name, source |-> Source(name), args |-> args]
           creation == [name |-> name, source |-> Source(name), args |-> args]
<1>1. /\ unsaved' = <<creation>> /\ mempool' = Append(mempool, tx)
      /\ UNCHANGED <<deployment, contracts, storage, records>>
  BY DEF Deploys, Still
<1>2. CASE ~Reverses
  <2> HIDE DEF tx, creation
  <2> QED BY <1>1, <1>2, ReversesStays DEF OrderInv
<1>3. CASE Reverses
  <2>1. name = "OptiDomains" => OfRegistry(args)
    <3> SUFFICES ASSUME name = "OptiDomains" PROVE OfRegistry(args)  OBVIOUS
    <3>1. RegistryStands  BY <1>3
    <3>2. 1 \in DOMAIN ArgsOf(name) /\ ArgsOf(name)[1] = "ENSRegistry"  BY DEF ArgsOf
    <3>3. 1 \in DOMAIN args /\ args[1] = Address("ENSRegistry")  BY <3>2 DEF Arguments
    <3>4. Address("ENSRegistry") = Registry
      BY <3>1 DEF RegistryStands, Address, Registry, Found
    <3> QED BY <3>1, <3>3, <3>4 DEF OfRegistry
  <2>2. /\ tx.kind = "create" /\ tx.name = name /\ tx.args = args
        /\ creation.name = name /\ creation.args = args
    OBVIOUS
  <2> HIDE DEF args, tx, creation
  <2>3. Ordered(tx)  BY <2>1, <2>2 DEF Ordered
  <2>4. RegistryStands' = RegistryStands /\ Registry' = Registry
    BY <1>1 DEF RegistryStands, Registry, Found
  <2>5. PICK c, g : c = creation /\ g = args  OBVIOUS
  <2>6. OfRegistry(g)' <=> OfRegistry(g)  BY <2>4 DEF OfRegistry
  <2>7. unsaved'[1] = c /\ c.name = name /\ c.args = g  BY <1>1, <2>2, <2>5
  <2>8. UnsavedOrdered'
    <3>1. name = "ENSRegistry" => ~RegistryStands'  BY <1>3, <2>4
    <3>2. name = "OptiDomains" => OfRegistry(g)'  BY <2>1, <2>5, <2>6
    <3> QED BY <2>7, <3>1, <3>2 DEF UnsavedOrdered, OfRegistry
  <2>9. Listed(mempool)  BY DEF ChainInv, MempoolSound
  <2> QED BY <1>1, <1>3, <2>3, <2>8, <2>9, OrderSends
<1> QED BY <1>2, <1>3

\* A registry is recorded only before it stands.
LEMMA OrderRecords ==
  ASSUME OrderInv, Records, migrations' = migrations
  PROVE  /\ OrderInv' /\ DOMAIN records \subseteq DOMAIN records'
         /\ Reverses /\ RegistryStands => RegistryStands'
<1>0. PICK u : u = unsaved[1]  OBVIOUS
<1>1. PICK r : /\ unsaved # None /\ unsaved' = None /\ mempool' = mempool
               /\ UNCHANGED <<deployment, contracts, storage>>
               /\ records' = records \/ records' = With(records, u.name, r)
  BY <1>0 DEF Records, Still, WithRecord
<1>2. DOMAIN records \subseteq DOMAIN records'  BY <1>1 DEF With
<1>3. CASE ~Reverses  BY <1>1, <1>2, <1>3, ReversesStays DEF OrderInv
<1>4. CASE Reverses
  <2>1. RegistryStands => /\ "ENSRegistry" \in DOMAIN records'
                          /\ records'["ENSRegistry"] = records["ENSRegistry"]
    <3> SUFFICES ASSUME RegistryStands
                 PROVE  /\ "ENSRegistry" \in DOMAIN records'
                        /\ records'["ENSRegistry"] = records["ENSRegistry"]
      OBVIOUS
    <3>1. u.name # "ENSRegistry"
      BY <1>0, <1>1, <1>4 DEF OrderInv, UnsavedOrdered
    <3> QED BY <1>1, <3>1 DEF With, RegistryStands
  <2>2. /\ RegistryStands => RegistryStands' /\ Registry' = Registry
        /\ \A args : OfRegistry(args) => OfRegistry(args)'
        /\ \A tx : Ordered(tx) => Ordered(tx)'
    BY <2>1, RegistryLasts
  <2>3. Remembered'  BY <1>2, <1>4 DEF OrderInv, Remembered
  <2>4. UnsavedOrdered'  BY <1>1 DEF UnsavedOrdered
  <2>5. MempoolOrdered'
    <3>1. ASSUME NEW i \in DOMAIN mempool' PROVE Ordered(mempool[i])'
      <4>1. PICK tx : tx = mempool[i] /\ tx = mempool'[i]  BY <1>1
      <4>2. Ordered(tx)'  BY <1>1, <1>4, <2>2, <4>1 DEF OrderInv, MempoolOrdered
      <4> QED BY <4>1, <4>2 DEF Ordered
    <3> QED BY <3>1 DEF MempoolOrdered
  <2>6. NoncesCount'  BY <1>1, <1>4, <2>2 DEF OrderInv, NoncesCount, Set
  <2>7. ReverseFollows'  BY <1>1, <1>4 DEF OrderInv, ReverseFollows
  <2>8. WrapperClaimed'
    <3>1. ASSUME NEW a \in DOMAIN contracts', contracts'[a].name = "OptiDomains"
          PROVE  OfRegistry(contracts[a].args)' /\ Set("addr.reverse")'
      <4>1. PICK args : args = contracts[a].args /\ args = contracts'[a].args  BY <1>1
      <4>2. OfRegistry(args) /\ Set("addr.reverse")
        BY <1>1, <1>4, <3>1, <4>1 DEF OrderInv, WrapperClaimed
      <4>3. OfRegistry(args)' /\ Registry' = Registry  BY <2>2, <4>2 DEF OfRegistry
      <4> QED BY <1>1, <4>1, <4>2, <4>3 DEF OfRegistry, Set
    <3> QED BY <3>1 DEF WrapperClaimed
  <2> QED BY <1>2, <2>2, <2>3, <2>4, <2>5, <2>6, <2>7, <2>8 DEF OrderInv
<1> QED BY <1>3, <1>4

\* The transactions that are left after the first.
LEMMA MempoolLeft ==
  ASSUME Listed(mempool), mempool # <<>>, mempool' = Tail(mempool),
         MempoolOrdered, \A tx : Ordered(tx) => Ordered(tx)'
  PROVE  MempoolOrdered'
<1>1. /\ Listed(mempool') /\ Len(mempool') = Len(mempool) - 1
      /\ \A i \in 1 .. Len(mempool) - 1 : mempool'[i] = mempool[i + 1]
  BY ListedTail
<1>2. /\ DOMAIN mempool' = 1 .. Len(mempool') /\ DOMAIN mempool = 1 .. Len(mempool)
      /\ Len(mempool) \in Nat
  BY <1>1, ListedLen
<1>3. ASSUME NEW i \in DOMAIN mempool' PROVE Ordered(mempool[i])'
  <2>1. i + 1 \in DOMAIN mempool /\ mempool'[i] = mempool[i + 1]  BY <1>1, <1>2
  <2>2. PICK tx : tx = mempool'[i] /\ tx = mempool[i + 1]  BY <2>1
  <2>3. Ordered(tx)'  BY <2>1, <2>2 DEF MempoolOrdered
  <2> QED BY <2>2, <2>3 DEF Ordered
<1> QED BY <1>3 DEF MempoolOrdered

LEMMA OrderCreation ==
  ASSUME OrderInv, ChainInv, Reverses, NEW tx, Ordered(tx), MineCreation(tx),
         UNCHANGED <<deployment, migrations, records>>
  PROVE  NoncesCount' /\ ReverseFollows' /\ WrapperClaimed'
<1>1. tx.kind = "create" /\ storage' = storage  BY DEF MineCreation
<1>2. RegistryStands' = RegistryStands /\ Registry' = Registry
  BY DEF RegistryStands, Registry, Found
<1>3. CASE Creates(tx)
  <2> DEFINE c == Contract(tx.name, tx.source, tx.args, OwnerOf(tx.name))
  <2>1. contracts' = Append(contracts, c)  BY <1>3 DEF MineCreation
  <2>2. c.name = tx.name /\ c.args = tx.args /\ c.nonce = 0  BY DEF Contract
  <2> HIDE DEF c
  <2>3. Listed(contracts)  BY DEF ChainInv, ChainSound
  <2>4. /\ Listed(contracts') /\ Len(contracts') = Len(contracts) + 1
        /\ \A a \in 1 .. Len(contracts) : contracts'[a] = contracts[a]
        /\ contracts'[Len(contracts) + 1] = c
    BY <2>1, <2>3, ListedAppend
  <2>5. \A a \in DOMAIN contracts' :
           \/ a \in DOMAIN contracts /\ contracts'[a] = contracts[a]
           \/ contracts'[a] = c
    BY <2>3, <2>4, ListedLen
  <2>6. \A a \in DOMAIN contracts : a \in DOMAIN contracts' /\ contracts'[a] = contracts[a]
    BY <2>3, <2>4, ListedLen
  <2>7. NoncesCount'  BY <1>1, <1>2, <2>2, <2>5 DEF OrderInv, NoncesCount, Set
  <2>8. ReverseFollows'  BY <1>1, <2>6 DEF OrderInv, ReverseFollows
  <2>9. tx.name = "OptiDomains" => OfRegistry(tx.args) /\ Set("addr.reverse")
    <3> SUFFICES ASSUME tx.name = "OptiDomains"
                 PROVE  OfRegistry(tx.args) /\ Set("addr.reverse")
      OBVIOUS
    <3>1. OfRegistry(tx.args)  BY <1>1 DEF Ordered
    <3>2. Slot(tx.args[1], "addr.reverse") # {}  BY <1>3 DEF Creates, ClaimsReverse
    <3> QED BY <3>1, <3>2 DEF OfRegistry, Slot, Set
  <2>10. WrapperClaimed'
    BY <1>1, <1>2, <2>2, <2>5, <2>9 DEF OrderInv, WrapperClaimed, OfRegistry, Set
  <2> QED BY <2>7, <2>8, <2>10
<1>4. CASE ~Creates(tx)
  <2>1. contracts' = contracts  BY <1>4 DEF MineCreation
  <2> QED BY <1>1, <1>2, <2>1
          DEF OrderInv, NoncesCount, ReverseFollows, WrapperClaimed, OfRegistry, Set
<1> QED BY <1>3, <1>4

LEMMA OrderCall ==
  ASSUME OrderInv, ChainInv, Reverses, NEW tx, Ordered(tx), MineCall(tx),
         tx.root \in DOMAIN contracts \union {Nowhere},
         UNCHANGED <<deployment, migrations, records>>
  PROVE  NoncesCount' /\ ReverseFollows' /\ WrapperClaimed'
<1>1. tx.kind = "call" /\ tx.root # Nowhere /\ tx.root \in DOMAIN contracts
  BY DEF MineCall, Ordered
<1>2. RegistryStands' = RegistryStands /\ Registry' = Registry
  BY DEF RegistryStands, Registry, Found
<1>3. CASE Accepts(tx)
  <2>1. PICK v : v # {} /\ storage' = With(storage, <<tx.to, tx.slot>>, v)
    BY <1>3 DEF MineCall
  <2>2. contracts' = [contracts EXCEPT ![tx.root].nonce = @ + 1]
    BY <1>1, <1>3 DEF MineCall
  <2>3. /\ contracts[tx.root].nonce = tx.nonce
        /\ tx.slot = "addr.reverse" => Slot(tx.to, "reverse") = {tx.root}
    BY <1>1, <1>3 DEF Accepts
  <2>4. /\ DOMAIN contracts' = DOMAIN contracts
        /\ \A a \in DOMAIN contracts : a # tx.root => contracts'[a] = contracts[a]
        /\ contracts'[tx.root] = [contracts[tx.root] EXCEPT !.nonce = @ + 1]
    BY <1>1, <2>2
  <2>5. LET c == contracts[tx.root]
            e == contracts'[tx.root]
        IN  e.name = c.name /\ e.args = c.args /\ e.nonce = c.nonce + 1
    <3>1. PICK c : c = contracts[tx.root]  OBVIOUS
    <3>2. c = [name |-> c.name, source |-> c.source, args |-> c.args,
               owner |-> c.owner, nonce |-> c.nonce]
      BY <1>1, <3>1 DEF ChainInv, ChainSound, IsContract
    <3>3. contracts'[tx.root] = [name |-> c.name, source |-> c.source, args |-> c.args,
                                 owner |-> c.owner, nonce |-> c.nonce + 1]
      BY <2>4, <3>1, <3>2
    <3> QED BY <3>1, <3>3
  <2>6. /\ DOMAIN storage' = DOMAIN storage \union {<<tx.to, tx.slot>>}
        /\ \A d \in DOMAIN storage' :
              storage'[d] = IF d = <<tx.to, tx.slot>> THEN v ELSE storage[d]
    BY <2>1 DEF With
  <2>7. contracts[tx.root].nonce \in Nat  BY <1>1 DEF OrderInv, NoncesCount
  <2>8. \A slot : Set(slot) => <<Registry, slot>> \in DOMAIN storage'
    BY <2>6 DEF Set
  <2>9. RegistryStands /\ <<Registry, "tld">> \in DOMAIN storage'
    <3>1. CASE tx.nonce = 0
      <4>1. RegistryStands /\ tx.to = Registry /\ tx.slot = "tld"
        BY <1>1, <3>1 DEF Ordered
      <4> QED BY <2>6, <4>1
    <3>2. CASE tx.nonce # 0
      <4>1. RegistryStands /\ Set("tld")
        BY <1>1, <2>3, <3>2 DEF OrderInv, NoncesCount
      <4> QED BY <2>8, <4>1
    <3> QED BY <3>1, <3>2
  <2>10. NoncesCount'
    <3>1. ASSUME NEW a \in DOMAIN contracts PROVE contracts'[a].nonce \in Nat
      <4>1. CASE a = tx.root  BY <2>5, <2>7, <4>1
      <4>2. CASE a # tx.root  BY <2>4, <4>2 DEF OrderInv, NoncesCount
      <4> QED BY <4>1, <4>2
    <3> QED BY <1>2, <2>4, <2>9, <3>1 DEF NoncesCount, Set
  <2>11. ReverseFollows'
    <3>1. \E a \in DOMAIN contracts' : contracts'[a].nonce # 0
      <4>1. contracts'[tx.root].nonce = contracts[tx.root].nonce + 1  BY <2>5
      <4>2. contracts'[tx.root].nonce # 0  BY <2>7, <4>1
      <4> QED BY <1>1, <2>4, <4>2
    <3>2. ASSUME NEW d \in DOMAIN storage', d[2] = "addr.reverse"
          PROVE  <<d[1], "reverse">> \in DOMAIN storage'
      <4>1. CASE d = <<tx.to, tx.slot>>
        <5>1. tx.slot = "addr.reverse" /\ d[1] = tx.to  BY <3>2, <4>1
        <5>2. Slot(tx.to, "reverse") # {}  BY <2>3, <5>1
        <5> QED BY <2>6, <5>1, <5>2 DEF Slot
      <4>2. CASE d # <<tx.to, tx.slot>>
        BY <2>6, <3>2, <4>2 DEF OrderInv, ReverseFollows
      <4> QED BY <4>1, <4>2
    <3>3. \A d \in DOMAIN storage' : storage'[d] # {}
      BY <2>1, <2>6 DEF OrderInv, ReverseFollows
    <3> QED BY <3>1, <3>2, <3>3 DEF ReverseFollows
  <2>12. WrapperClaimed'
    <3>1. ASSUME NEW a \in DOMAIN contracts
          PROVE  contracts'[a].name = contracts[a].name /\ contracts'[a].args = contracts[a].args
      <4>1. CASE a = tx.root  BY <2>5, <4>1
      <4>2. CASE a # tx.root  BY <2>4, <4>2
      <4> QED BY <4>1, <4>2
    <3> QED BY <1>2, <2>4, <2>8, <3>1 DEF OrderInv, WrapperClaimed, OfRegistry, Set
  <2> QED BY <2>10, <2>11, <2>12
<1>4. CASE ~Accepts(tx)
  <2>1. contracts' = contracts /\ storage' = storage  BY <1>4 DEF MineCall
  <2> QED BY <1>2, <2>1
          DEF OrderInv, NoncesCount, ReverseFollows, WrapperClaimed, OfRegistry, Set
<1> QED BY <1>3, <1>4

LEMMA OrderMines ==
  ASSUME OrderInv, ChainInv, Mine
  PROVE  OrderInv' /\ (RegistryStands => RegistryStands')
<1> DEFINE tx == Head(mempool)
<1>1. /\ mempool # <<>> /\ mempool' = Tail(mempool)
      /\ MineCreation(tx) \/ MineCall(tx)
      /\ UNCHANGED <<deployment, records, migrations, unsaved>>
  BY DEF Mine, setup, directory
<1>2. RegistryStands' = RegistryStands /\ Registry' = Registry
  BY <1>1 DEF RegistryStands, Registry, Found
<1>3. CASE ~Reverses
  <2> HIDE DEF tx
  <2> QED BY <1>1, <1>2, <1>3, ReversesStays DEF OrderInv
<1>4. CASE Reverses
  <2>1. Listed(mempool)  BY DEF ChainInv, MempoolSound
  <2>2. tx = mempool[1] /\ 1 \in DOMAIN mempool  BY <1>1, <2>1, ListedLen, ListedTail
  <2>3. Ordered(tx)  BY <1>4, <2>2 DEF OrderInv, MempoolOrdered
  <2>4. MineCall(tx) => tx.root \in DOMAIN contracts \union {Nowhere}
    BY <2>2 DEF MineCall, ChainInv, MempoolSound
  <2> HIDE DEF tx
  <2>5. NoncesCount' /\ ReverseFollows' /\ WrapperClaimed'
    BY <1>1, <1>4, <2>3, <2>4, OrderCreation, OrderCall
  <2>6. \A e : Ordered(e) => Ordered(e)'  BY <1>2 DEF Ordered, OfRegistry
  <2>7. MempoolOrdered'  BY <1>1, <1>4, <2>1, <2>6, MempoolLeft DEF OrderInv
  <2>8. Remembered' /\ UnsavedOrdered'
    BY <1>1, <1>2, <1>4 DEF OrderInv, Remembered, UnsavedOrdered, OfRegistry
  <2> QED BY <1>2, <2>5, <2>7, <2>8 DEF OrderInv
<1> QED BY <1>3, <1>4

-----------------------------------------------------------------------------
(* What is still to come.                                                  *)

\* A queue of scripts of ens/, as it was made.
LEMMA MadeQueue ==
  ASSUME Reverses, deployment \in Deployments, NEW tags \in deployment.commands,
         NEW order, order = QueueOf[deployment][tags]
  PROVE  /\ \A k \in DOMAIN order :
               NeedsRegistry(order[k]) => \E j \in 1 .. k - 1 : order[j] = RegistryAt
         /\ tags = {} => \E k \in DOMAIN order : order[k] = WrapperAt
<1>1. ScriptsOf[deployment] = EnsScripts  BY DEF ScriptsOf, Reverses, Project
<1>2. DOMAIN EnsScripts = 1 .. 9  BY EnsScriptsWired
<1>3. RegistryAt \in 1 .. 9 /\ WrapperAt \in 1 .. 9  BY DEF RegistryAt, WrapperAt
<1>4. /\ \A k \in DOMAIN order : \A i \in DOMAIN EnsScripts :
            EnsScripts[i].tags \intersect Range(EnsScripts[order[k]].dependencies) # {}
               => \E j \in 1 .. k - 1 : order[j] = i
      /\ tags = {} => \A i \in DOMAIN EnsScripts :
            EnsScripts[i].tags \intersect ByName = {} => i \in Range(order)
  <2> DEFINE scripts == ScriptsOf[deployment]
             made == QueueOf[deployment][tags]
  <2>1. \A k \in DOMAIN made : \A i \in DOMAIN scripts :
              scripts[i].tags \intersect Range(scripts[made[k]].dependencies) # {}
                  => \E j \in 1 .. k - 1 : made[j] = i
    BY QueueAssumption, Zenon
  <2>2. tags = {} => \A i \in DOMAIN scripts :
              scripts[i].tags \intersect ByName = {} => i \in Range(made)
    BY QueueAssumption, Zenon
  <2>3. scripts = EnsScripts /\ made = order  BY <1>1
  <2> HIDE DEF scripts, made
  <2>4. ASSUME NEW k \in DOMAIN order, NEW i \in DOMAIN EnsScripts,
               EnsScripts[i].tags \intersect Range(EnsScripts[order[k]].dependencies) # {}
        PROVE  \E j \in 1 .. k - 1 : order[j] = i
    <3>1. scripts[i].tags \intersect Range(scripts[made[k]].dependencies) # {}
      BY <2>3, <2>4
    <3>2. k \in DOMAIN made /\ i \in DOMAIN scripts  BY <2>3
    <3>3. \E j \in 1 .. k - 1 : made[j] = i  BY <2>1, <3>1, <3>2
    <3> QED BY <2>3, <3>3
  <2>5. tags = {} => \A i \in DOMAIN EnsScripts :
            EnsScripts[i].tags \intersect ByName = {} => i \in Range(order)
    BY <2>2, <2>3, Zenon
  <2> QED BY <2>4, <2>5
<1>5. EnsScripts[WrapperAt].tags \intersect ByName = {}
  <2>1. EnsScripts[WrapperAt] = NameWrapperScript  BY DEF EnsScripts, WrapperAt
  <2>2. NameWrapperScript.tags = {"wrapper", "NameWrapper"}  BY DEF NameWrapperScript, Script
  <2> QED BY <2>1, <2>2 DEF ByName
<1>6. tags = {} => \E k \in DOMAIN order : order[k] = WrapperAt
  BY <1>2, <1>3, <1>4, <1>5 DEF Range
<1>7. \A k \in DOMAIN order :
         NeedsRegistry(order[k]) => \E j \in 1 .. k - 1 : order[j] = RegistryAt
  BY <1>2, <1>3, <1>4 DEF NeedsRegistry
<1> QED BY <1>6, <1>7

LEMMA QueueMade ==
  ASSUME ProcessInv, NEW tags, Run(tags) PROVE QueueInv'
<1>1. /\ tags \in deployment.commands /\ deployment' = deployment
      /\ queue' = QueueOf[deployment][tags] /\ command' = tags
  BY DEF Run, setup
<1> SUFFICES ASSUME Reverses PROVE QueueInv'
  BY <1>1, ReversesStays DEF QueueInv
<1>2. PICK order : order = QueueOf[deployment][tags]  OBVIOUS
<1>3. /\ \A k \in DOMAIN order :
            NeedsRegistry(order[k]) => \E j \in 1 .. k - 1 : order[j] = RegistryAt
      /\ tags = {} => \E k \in DOMAIN order : order[k] = WrapperAt
  BY <1>1, <1>2, MadeQueue DEF ProcessInv
<1> QED BY <1>1, <1>2, <1>3 DEF QueueInv

\* The process is where it was in its queue, or its run is over.
LEMMA QueueKept ==
  ASSUME QueueInv, deployment' = deployment, DOMAIN records \subseteq DOMAIN records',
         Reverses /\ RegistryStands => RegistryStands',
         \/ UNCHANGED <<queue, outcome, command>>
         \/ queue' = <<>> /\ outcome' \notin {"running", "done"}
  PROVE  QueueInv'
<1>1. Reverses' = Reverses  BY ReversesStays
<1>2. CASE UNCHANGED <<queue, outcome, command>>  BY <1>1, <1>2 DEF QueueInv
<1>3. CASE queue' = <<>> /\ outcome' \notin {"running", "done"}  BY <1>3 DEF QueueInv
<1> QED BY <1>2, <1>3

\* It goes on to the next script, the one it leaves having done its part.
Done(i) ==
    /\ i = RegistryAt => RegistryStands
    /\ i = WrapperAt => "OptiDomains" \in DOMAIN records

LEMMA QueueNext ==
  ASSUME QueueInv, deployment' = deployment, DOMAIN records \subseteq DOMAIN records',
         Reverses /\ RegistryStands => RegistryStands',
         UNCHANGED <<outcome, command>>, Listed(queue), queue # <<>>, queue' = Tail(queue),
         NEW i, i = Head(queue), Reverses => Done(i)'
  PROVE  QueueInv'
<1>1. Reverses' = Reverses  BY ReversesStays
<1> SUFFICES ASSUME Reverses PROVE QueueInv'  BY <1>1 DEF QueueInv
<1>2. /\ Listed(queue') /\ Len(queue') = Len(queue) - 1
      /\ \A k \in 1 .. Len(queue) - 1 : queue'[k] = queue[k + 1]
      /\ Head(queue) = queue[1]
  BY ListedTail
<1>3. /\ DOMAIN queue' = 1 .. Len(queue') /\ DOMAIN queue = 1 .. Len(queue)
      /\ Len(queue) \in Nat
  BY <1>2, ListedLen
<1>4. ASSUME NEW k \in DOMAIN queue', NeedsRegistry(queue'[k]), ~RegistryStands'
      PROVE  \E j \in 1 .. k - 1 : queue'[j] = RegistryAt
  <2>1. k + 1 \in DOMAIN queue /\ queue'[k] = queue[k + 1] /\ k \in Nat  BY <1>2, <1>3
  <2>2. PICK j \in 1 .. (k + 1) - 1 : queue[j] = RegistryAt
    BY <1>4, <2>1 DEF QueueInv
  <2>3. queue[1] # RegistryAt
    <3>1. i = RegistryAt => RegistryStands'  BY DEF Done
    <3> QED BY <1>2, <1>4, <3>1
  <2>4. j - 1 \in 1 .. k - 1 /\ queue'[j - 1] = queue[j]
    <3>1. j # 1  BY <2>2, <2>3
    <3>2. j - 1 \in 1 .. k - 1 /\ (j - 1) + 1 = j  BY <2>1, <3>1
    <3>3. j - 1 \in 1 .. Len(queue) - 1  BY <1>2, <1>3, <3>2
    <3> QED BY <1>2, <3>2, <3>3
  <2> QED BY <2>2, <2>4
<1>5. ASSUME outcome' \in {"running", "done"}, command' = {},
             "OptiDomains" \notin DOMAIN records'
      PROVE  \E k \in DOMAIN queue' : queue'[k] = WrapperAt
  <2>1. PICK k \in DOMAIN queue : queue[k] = WrapperAt  BY <1>5 DEF QueueInv
  <2>2. k # 1
    <3>1. i = WrapperAt => "OptiDomains" \in DOMAIN records'  BY DEF Done
    <3> QED BY <1>2, <1>5, <2>1, <3>1
  <2>3. k - 1 \in DOMAIN queue' /\ k - 1 \in 1 .. Len(queue) - 1 /\ (k - 1) + 1 = k
    BY <1>2, <1>3, <2>1, <2>2
  <2> QED BY <1>2, <2>1, <2>3
<1> QED BY <1>4, <1>5 DEF QueueInv

LEMMA QueueEnds ==
  ASSUME QueueInv, deployment' = deployment, records' = records,
         outcome = "running", queue = <<>>, queue' = <<>>, command' = command
  PROVE  QueueInv'
<1>1. Reverses' = Reverses /\ DOMAIN queue = {}  BY ReversesStays
<1> QED BY <1>1 DEF QueueInv

-----------------------------------------------------------------------------
(* Each action keeps the order.                                            *)

\* The script a process is at.
LEMMA AtScript ==
  ASSUME Reverses, ProcessInv, queue # <<>>, NEW i, i = Head(queue)
  PROVE  /\ Current = EnsScripts[i] /\ OrderedScript(i) /\ Listed(queue)
         /\ QueueInv /\ NeedsRegistry(i) => RegistryStands
<1>1. Scripts = EnsScripts  BY DEF Scripts, ScriptsOf, Reverses, Project, ProcessInv
<1>2. queue \in Seq(1 .. 9)  BY <1>1, EnsScriptsWired DEF ProcessInv
<1>3. i \in 1 .. 9 /\ i = queue[1] /\ 1 \in DOMAIN queue  BY <1>2
<1>4. Listed(queue)  BY <1>2, ListedSeq
<1>5. OrderedScript(i)  BY <1>3, EnsScriptsOrdered
<1>6. QueueInv /\ NeedsRegistry(i) => RegistryStands  BY <1>3 DEF QueueInv
<1> QED BY <1>1, <1>4, <1>5, <1>6 DEF Current

LEMMA AtOrderedStep ==
  ASSUME Reverses, ProcessInv, NEW op, AtStep(op), NEW i, i = Head(queue)
  PROVE  /\ queue # <<>> /\ pc <= Len(Current.steps) /\ This.op = op
         /\ Current = EnsScripts[i] /\ Listed(queue)
         /\ op \in {"get", "deploy", "leave", "execute"}
         /\ OrderedStep(i, Current.steps, pc)
         /\ QueueInv /\ NeedsRegistry(i) => RegistryStands
<1>1. queue # <<>> /\ pc <= Len(Current.steps) /\ This.op = op  BY DEF AtStep
<1>2. /\ Current = EnsScripts[i] /\ OrderedScript(i) /\ Listed(queue)
      /\ QueueInv /\ NeedsRegistry(i) => RegistryStands
  BY <1>1, AtScript
<1>3. pc \in 1 .. Len(Current.steps)  BY <1>1, CurrentScript DEF ProcessInv
<1>4. OrderedStep(i, Current.steps, pc)  BY <1>2, <1>3 DEF OrderedScript
<1>5. op \in {"get", "deploy", "leave", "execute"}  BY <1>1, <1>4 DEF OrderedStep, This
<1> QED BY <1>1, <1>2, <1>4, <1>5

\* Nothing is sent, mined or recorded, and the script goes on or the run is over.
LEMMA QuietOrder ==
  ASSUME OrderInv, QueueInv,
         UNCHANGED <<deployment, contracts, storage, mempool, records, migrations>>,
         unsaved' = None \/ unsaved' = unsaved,
         \/ UNCHANGED <<queue, outcome, command>>
         \/ queue' = <<>> /\ outcome' \notin {"running", "done"}
  PROVE  OrderInv' /\ QueueInv'
<1>1. Reverses => /\ migrations' \subseteq {"root", "ens"}
                  /\ "ens" \in migrations' => "ENSRegistry" \in DOMAIN records
  BY DEF OrderInv, Remembered
<1>2. OrderInv' /\ (RegistryStands => RegistryStands')  BY <1>1, OrderKept
<1> QED BY <1>2, QueueKept

\* A script comes to its end, or is left.
LEMMA LeftOrder ==
  ASSUME OrderInv, QueueInv,
         UNCHANGED <<deployment, contracts, storage, mempool, records, outcome, command>>,
         unsaved' = None, migrations \subseteq migrations',
         Reverses => /\ migrations' \subseteq {"root", "ens"}
                     /\ "ens" \in migrations' => "ENSRegistry" \in DOMAIN records,
         Listed(queue), queue # <<>>, queue' = Tail(queue),
         NEW i, i = Head(queue),
         i = RegistryAt => "ens" \in migrations' /\ "ENSRegistry" \in DOMAIN records,
         i = WrapperAt => "OptiDomains" \in DOMAIN records
  PROVE  OrderInv' /\ QueueInv'
<1>1. OrderInv' /\ (RegistryStands => RegistryStands')  BY OrderKept
<1>2. Done(i)'  BY DEF Done, RegistryStands
<1>3. QueueInv'  BY <1>1, <1>2, QueueNext
<1> QED BY <1>1, <1>3

LEMMA SkipScriptOrder ==
  ASSUME ProcessInv, OrderInv, QueueInv, Reverses, SkipScript PROVE OrderInv' /\ QueueInv'
<1>1. /\ queue # <<>> /\ queue' = Tail(queue) /\ Current.id \in migrations
      /\ unsaved' = None /\ migrations' = migrations
      /\ UNCHANGED <<deployment, contracts, storage, mempool, records, outcome, command>>
  BY DEF SkipScript, Ready, setup, directory, chain
<1>2. PICK i : i = Head(queue)  OBVIOUS
<1>3. Current = EnsScripts[i] /\ OrderedScript(i) /\ Listed(queue)  BY <1>1, <1>2, AtScript
<1>4. /\ migrations \subseteq {"root", "ens"}
      /\ "ens" \in migrations => "ENSRegistry" \in DOMAIN records
  BY DEF OrderInv, Remembered
<1>5. /\ i = RegistryAt => "ens" \in migrations /\ "ENSRegistry" \in DOMAIN records
      /\ i # WrapperAt
  BY <1>1, <1>3, <1>4 DEF OrderedScript
<1> QED BY <1>1, <1>2, <1>3, <1>4, <1>5, LeftOrder

\* A script at its end has made what it makes.
LEMMA MadeRecorded ==
  ASSUME ProcessInv, queue # <<>>, pc > Len(Current.steps),
         NEW name, Makes(Current.steps, name)
  PROVE  name \in DOMAIN records
<1>1. PICK j \in 1 .. Len(Current.steps) :
        Current.steps[j].op = "deploy" /\ Current.steps[j].name = name
  BY DEF Makes
<1>2. Len(Current.steps) \in Nat /\ pc \in Nat  BY CurrentScript DEF ProcessInv
<1>3. j \in 1 .. pc - 1  BY <1>2
<1>4. Knows(DOMAIN records, Current.steps[j])  BY <1>3 DEF ProcessInv, Passed
<1> QED BY <1>1, <1>4 DEF Knows

LEMMA EndScriptOrder ==
  ASSUME ProcessInv, OrderInv, QueueInv, Reverses, EndScript PROVE OrderInv' /\ QueueInv'
<1>1. /\ queue # <<>> /\ queue' = Tail(queue) /\ unsaved' = None
      /\ pc > Len(Current.steps)
      /\ migrations' = IF Current.remembered THEN migrations \union {Current.id}
                                             ELSE migrations
      /\ UNCHANGED <<deployment, contracts, storage, mempool, records, outcome, command>>
  BY DEF EndScript, Ready, setup, chain
<1>2. PICK i : i = Head(queue)  OBVIOUS
<1>3. Current = EnsScripts[i] /\ OrderedScript(i) /\ Listed(queue)  BY <1>1, <1>2, AtScript
<1>4. /\ Current.remembered => Current.id \in {"root", "ens"}
      /\ Current.id = "ens" => i = RegistryAt
      /\ i = RegistryAt => /\ Current.id = "ens" /\ Current.remembered
                           /\ Makes(Current.steps, "ENSRegistry")
      /\ i = WrapperAt => Makes(Current.steps, "OptiDomains")
  BY <1>3 DEF OrderedScript
<1>5. /\ i = RegistryAt => "ENSRegistry" \in DOMAIN records
      /\ i = WrapperAt => "OptiDomains" \in DOMAIN records
  BY <1>1, <1>4, MadeRecorded
<1>6. /\ migrations \subseteq {"root", "ens"}
      /\ "ens" \in migrations => "ENSRegistry" \in DOMAIN records
  BY DEF OrderInv, Remembered
<1>7. /\ migrations \subseteq migrations' /\ migrations' \subseteq {"root", "ens"}
      /\ "ens" \in migrations' => "ENSRegistry" \in DOMAIN records
      /\ i = RegistryAt => "ens" \in migrations'
  BY <1>1, <1>4, <1>5, <1>6
<1> QED BY <1>1, <1>2, <1>3, <1>5, <1>7, LeftOrder

LEMMA EndRunOrder ==
  ASSUME OrderInv, QueueInv, EndRun PROVE OrderInv' /\ QueueInv'
<1>1. /\ outcome = "running" /\ queue = <<>> /\ queue' = <<>> /\ command' = command
      /\ UNCHANGED <<deployment, contracts, storage, mempool, records, migrations, unsaved>>
  BY DEF EndRun, Ready, Running, Rest, setup, directory, chain
<1>2. Reverses => /\ migrations' \subseteq {"root", "ens"}
                  /\ "ens" \in migrations' => "ENSRegistry" \in DOMAIN records
  BY <1>1 DEF OrderInv, Remembered
<1> QED BY <1>1, <1>2, OrderKept, QueueEnds

LEMMA LeaveNetworkOrder ==
  ASSUME ProcessInv, OrderInv, QueueInv, Reverses, LeaveNetwork
  PROVE  OrderInv' /\ QueueInv'
<1>1. /\ AtStep("leave") /\ unsaved' = None /\ unsaved = None
      /\ UNCHANGED <<deployment, contracts, storage, mempool, records, migrations, outcome,
                     command>>
      /\ queue' = queue \/ queue' = Tail(queue)
  BY DEF LeaveNetwork, Before, AtStep, Leave, Advance, setup, directory, chain
<1>2. PICK i : i = Head(queue)  OBVIOUS
<1>3. /\ queue # <<>> /\ pc <= Len(Current.steps) /\ This.op = "leave"
      /\ OrderedStep(i, Current.steps, pc) /\ Listed(queue)
  BY <1>1, <1>2, AtOrderedStep
<1>4. i # RegistryAt /\ (i = WrapperAt => Told(Current.steps, pc, "OptiDomains"))
  BY <1>3 DEF OrderedStep, This
<1>5. i = WrapperAt => "OptiDomains" \in DOMAIN records  BY <1>3, <1>4, ToldRecorded
<1>6. CASE queue' = queue  BY <1>1, <1>6, QuietOrder
<1>7. CASE queue' = Tail(queue)
  <2>1. /\ migrations' \subseteq {"root", "ens"}
        /\ "ens" \in migrations' => "ENSRegistry" \in DOMAIN records
    BY <1>1 DEF OrderInv, Remembered
  <2> QED BY <1>1, <1>2, <1>3, <1>4, <1>5, <1>7, <2>1, LeftOrder
<1> QED BY <1>1, <1>6, <1>7

LEMMA KeepDeployedOrder ==
  ASSUME ProcessInv, OrderInv, QueueInv, Reverses, KeepDeployed
  PROVE  OrderInv' /\ QueueInv'
<1>1. /\ AtStep("deploy") /\ unsaved' = None /\ unsaved = None
      /\ This.name \in DOMAIN records
      /\ UNCHANGED <<deployment, contracts, storage, mempool, records, migrations, outcome,
                     command>>
      /\ queue' = queue \/ (This.once /\ queue' = Tail(queue))
  BY DEF KeepDeployed, UpToDate, Before, AtStep, Leave, Advance, setup, directory, chain
<1>2. PICK i : i = Head(queue)  OBVIOUS
<1>3. /\ queue # <<>> /\ This.op = "deploy"
      /\ OrderedStep(i, Current.steps, pc) /\ Listed(queue)
  BY <1>1, <1>2, AtOrderedStep
<1>4. CASE queue' = queue  BY <1>1, <1>4, QuietOrder
<1>5. CASE This.once /\ queue' = Tail(queue)
  <2>1. i # RegistryAt /\ (i = WrapperAt => "OptiDomains" \in DOMAIN records)
    BY <1>1, <1>3, <1>5 DEF OrderedStep, This
  <2>2. /\ migrations' \subseteq {"root", "ens"}
        /\ "ens" \in migrations' => "ENSRegistry" \in DOMAIN records
    BY <1>1 DEF OrderInv, Remembered
  <2> QED BY <1>1, <1>2, <1>3, <1>5, <2>1, <2>2, LeftOrder
<1> QED BY <1>1, <1>4, <1>5

LEMMA SendDeploymentOrder ==
  ASSUME ProcessInv, ChainInv, OrderInv, QueueInv, Reverses, SendDeployment
  PROVE  OrderInv' /\ QueueInv'
<1>1. Deploys(This.name)  BY SendDeploymentStep DEF ChainInv
<1>2. /\ AtStep("deploy") /\ Current.id \notin migrations
      /\ UNCHANGED <<deployment, records, migrations, queue, outcome, command>>
  BY DEF SendDeployment, Before, AtStep, setup
<1>3. PICK i, name : i = Head(queue) /\ name = This.name  OBVIOUS
<1>4. /\ queue # <<>> /\ This.op = "deploy" /\ Current = EnsScripts[i]
      /\ OrderedStep(i, Current.steps, pc)
      /\ NeedsRegistry(i) => RegistryStands
  BY <1>2, <1>3, AtOrderedStep
<1>5. name = "OptiDomains" => RegistryStands  BY <1>3, <1>4 DEF OrderedStep, This
<1>6. name = "ENSRegistry" => ~RegistryStands
  <2>1. name = "ENSRegistry" => i = RegistryAt  BY <1>3, <1>4 DEF OrderedStep, This
  <2>2. i = RegistryAt => Current.id = "ens"  BY <1>3, <1>4, AtScript DEF OrderedScript
  <2> QED BY <1>2, <2>1, <2>2 DEF RegistryStands
<1>7. Deploys(name)  BY <1>1, <1>3
<1>8. OrderInv'  BY <1>2, <1>5, <1>6, <1>7, OrderDeploys
<1>9. RegistryStands => RegistryStands'  BY <1>2 DEF RegistryStands
<1> QED BY <1>2, <1>8, <1>9, QueueKept

LEMMA ExecuteByRootOrder ==
  ASSUME ProcessInv, ChainInv, OrderInv, QueueInv, Reverses, ExecuteByRoot
  PROVE  OrderInv' /\ QueueInv'
<1> DEFINE tx == CallOf(Address("Root"), This.nonce, FALSE)
<1>1. Calls(tx)  BY ExecuteByRootStep DEF ChainInv, Reverses
<1>2. /\ AtStep("execute")
      /\ UNCHANGED <<deployment, records, migrations, queue, outcome, command>>
  BY DEF ExecuteByRoot, Before, AtStep, Reverses, setup, directory
<1>3. PICK i : i = Head(queue)  OBVIOUS
<1>4. /\ queue # <<>> /\ This.op = "execute"
      /\ OrderedStep(i, Current.steps, pc)
      /\ NeedsRegistry(i) => RegistryStands
  BY <1>2, <1>3, AtOrderedStep
<1>5. /\ This.nonce = 0 => RegistryStands /\ This.to = "ENSRegistry" /\ This.slot = "tld"
      /\ This.slot = "addr.reverse" => This.nonce # 0
  BY <1>4 DEF OrderedStep, This
<1>6. Address("Root") \in DOMAIN contracts  BY <1>2, CallFound DEF ChainInv
<1>7. Address("Root") # Nowhere
  <2>1. DOMAIN contracts = 1 .. Len(contracts)  BY ListedLen DEF ChainInv, ChainSound
  <2> QED BY <1>6, <2>1 DEF Nowhere
<1>8. /\ tx.kind = "call" /\ tx.root = Address("Root") /\ tx.nonce = This.nonce
      /\ tx.to = Address(This.to) /\ tx.slot = This.slot
  BY DEF CallOf
<1>9. RegistryStands => Address("ENSRegistry") = Registry
  BY DEF RegistryStands, Address, Registry, Found
<1> HIDE DEF tx
<1>10. Ordered(tx)  BY <1>5, <1>7, <1>8, <1>9 DEF Ordered
<1>11. PICK t : t = tx  OBVIOUS
<1>12. OrderInv'  BY <1>1, <1>2, <1>10, <1>11, OrderCalls
<1>13. RegistryStands => RegistryStands'  BY <1>2 DEF RegistryStands
<1> QED BY <1>2, <1>12, <1>13, QueueKept

LEMMA RecordsOrder ==
  ASSUME ProcessInv, OrderInv, QueueInv, Adopt \/ SaveDeployment
  PROVE  OrderInv' /\ QueueInv'
<1>1. Records  BY AdoptStep, SaveDeploymentStep
<1>2. /\ UNCHANGED <<deployment, migrations>>
      /\ \/ UNCHANGED <<queue, outcome, command>>
         \/ queue' = <<>> /\ outcome' = "failed"
  BY DEF Adopt, SaveDeployment, Advance, Throws, Rest, setup, process
<1>3. /\ OrderInv' /\ DOMAIN records \subseteq DOMAIN records'
      /\ Reverses /\ RegistryStands => RegistryStands'
  BY <1>1, <1>2, OrderRecords
<1> QED BY <1>2, <1>3, QueueKept

LEMMA StepOrder ==
  ASSUME ProcessInv, ChainInv, OrderInv, QueueInv, Reverses, Step
  PROVE  OrderInv' /\ QueueInv'
<1>1. CASE GetRecords
  <2>1. /\ UNCHANGED <<deployment, contracts, storage, mempool, records, migrations, unsaved>>
        /\ \/ UNCHANGED <<queue, outcome, command>>
           \/ queue' = <<>> /\ outcome' = "failed"
    BY <1>1 DEF GetRecords, Advance, Throws, Rest, setup, directory, chain
  <2> QED BY <2>1, QuietOrder
<1>2. CASE Mined
  <2>1. /\ UNCHANGED <<deployment, contracts, storage, mempool, records, migrations, unsaved>>
        /\ \/ UNCHANGED <<queue, outcome, command>>
           \/ queue' = <<>> /\ outcome' = "failed"
    BY <1>2 DEF Mined, Advance, Throws, Rest, setup, directory, chain
  <2> QED BY <2>1, QuietOrder
<1>3. /\ ~AtStep("call") /\ ~AtStep("send") /\ ~AtStep("ensure") /\ ~AtStep("settle")
      /\ ~AtStep("require") /\ ~AtStep("mkdir") /\ ~AtStep("write")
      /\ ~AtStep("environment")
  BY AtOrderedStep
<1>4. /\ ~SendCall /\ ~SendUnlessSet /\ ~CallUnlessSet /\ ~SettleAll /\ ~RequireSet
      /\ ~MakeArchive /\ ~WriteArchive /\ ~ReadEnvironmentFile
  BY <1>3 DEF SendCall, SendUnlessSet, CallUnlessSet, SettleAll, RequireSet, MakeArchive,
              WriteArchive, ReadEnvironmentFile, Before
<1> QED BY <1>1, <1>2, <1>4, RecordsOrder, SkipScriptOrder, EndScriptOrder, EndRunOrder,
           LeaveNetworkOrder, KeepDeployedOrder, SendDeploymentOrder, ExecuteByRootOrder
        DEF Step

LEMMA RunOrder ==
  ASSUME ProcessInv, ChainInv, OrderInv, NEW tags, Run(tags)
  PROVE  OrderInv' /\ QueueInv'
<1>1. QueueInv'  BY QueueMade
<1>2. CASE Saves
  <2>1. UNCHANGED <<deployment, contracts, storage, mempool, records, migrations, unsaved>>
    BY <1>2 DEF Run, setup, directory, chain
  <2>2. Reverses => /\ migrations' \subseteq {"root", "ens"}
                    /\ "ens" \in migrations' => "ENSRegistry" \in DOMAIN records
    BY <2>1 DEF OrderInv, Remembered
  <2> QED BY <1>1, <2>1, <2>2, OrderKept
<1>3. CASE ~Saves
  <2>1. ~Running /\ mempool = <<>> /\ unsaved = None
    BY <1>3 DEF Run, ChainInv, UnsavedSound
  <2>2. Restarts /\ migrations' = {}  BY <1>3, <2>1 DEF Run, Restarts, setup
  <2> QED BY <1>1, <2>2, OrderRestarts
<1> QED BY <1>2, <1>3

LEMMA OrderStep ==
  ASSUME DeployInv, OrderInv, QueueInv, [Next]_vars PROVE OrderInv' /\ QueueInv'
<1>1. ProcessInv /\ ChainInv /\ BoundsInv  BY DEF DeployInv
<1>2. CASE Step
  <2>1. deployment' = deployment  BY <1>1, <1>2, StepWithin DEF Within
  <2>2. CASE ~Reverses  BY <2>1, <2>2, ReversesStays DEF OrderInv, QueueInv
  <2>3. CASE Reverses  BY <1>1, <1>2, <2>3, StepOrder
  <2> QED BY <2>2, <2>3
<1>3. ASSUME NEW tags, Run(tags) PROVE OrderInv' /\ QueueInv'  BY <1>1, <1>3, RunOrder
<1>4. CASE Mine
  <2>1. UNCHANGED <<deployment, records, queue, outcome, command>>
    BY <1>4 DEF Mine, setup, directory, process
  <2>2. OrderInv' /\ (RegistryStands => RegistryStands')  BY <1>1, <1>4, OrderMines
  <2> QED BY <2>1, <2>2, QueueKept
<1>5. CASE Crash
  <2>1. /\ UNCHANGED <<deployment, contracts, storage, mempool, records, migrations>>
        /\ unsaved' = None \/ unsaved' = unsaved
        /\ queue' = <<>> /\ outcome' = "crashed"
    BY <1>5 DEF Crash, Rest, setup, chain
  <2> QED BY <2>1, QuietOrder
<1>6. ASSUME NEW name, Edit(name) PROVE OrderInv' /\ QueueInv'
  <2>1. /\ UNCHANGED <<deployment, contracts, storage, mempool, records, migrations, unsaved>>
        /\ UNCHANGED <<queue, outcome, command>>
    BY <1>6 DEF Edit, setup, directory, chain, process
  <2> QED BY <2>1, QuietOrder
<1>7. CASE UNCHANGED vars
  <2>1. /\ UNCHANGED <<deployment, contracts, storage, mempool, records, migrations, unsaved>>
        /\ UNCHANGED <<queue, outcome, command>>
    BY <1>7 DEF vars, setup, directory, chain, process
  <2> QED BY <2>1, QuietOrder
<1> QED BY <1>2, <1>3, <1>4, <1>5, <1>6, <1>7 DEF Next

LEMMA InitOrder == ASSUME Init PROVE OrderInv /\ QueueInv
<1> SUFFICES ASSUME Reverses PROVE OrderInv /\ QueueInv  BY DEF OrderInv, QueueInv
<1>1. /\ contracts = <<>> /\ unsaved = None /\ mempool = <<>> /\ queue = <<>> /\ ~Running
      /\ DOMAIN records \subseteq DOMAIN RecordsOf(contracts)
  BY Beginning DEF Reverses
<1>2. PICK domains : storage = Wired(domains)  BY Beginning
<1>3. DOMAIN storage = {}  BY <1>2 DEF Wired, Reverses
<1>4. migrations = {} /\ outcome = "idle"  BY DEF Init, Reverses, Project
<1>5. Remembered /\ UnsavedOrdered  BY <1>1, <1>4 DEF Remembered, UnsavedOrdered
<1>6. MempoolOrdered /\ NoncesCount /\ ReverseFollows /\ WrapperClaimed
  BY <1>1, <1>3 DEF MempoolOrdered, NoncesCount, ReverseFollows, WrapperClaimed
<1>7. QueueInv  BY <1>1, <1>4 DEF QueueInv
<1> QED BY <1>5, <1>6, <1>7 DEF OrderInv

LEMMA GreenFollows ==
  ASSUME DeployInv, OrderInv, QueueInv PROVE GreenRunsHaveReverseNames
<1> SUFFICES ASSUME Reverses, outcome = "done", command = {}
             PROVE  \A i \in 1 .. 3 : Slot(Address("ENSRegistry"), RootCalls[i][2]) # {}
  BY DEF GreenRunsHaveReverseNames, Reverses
<1>1. DOMAIN queue = {}  BY DEF DeployInv, ProcessInv, Running
<1>2. "OptiDomains" \in DOMAIN records  BY <1>1 DEF QueueInv
<1>3. PICK a \in DOMAIN contracts : contracts[a].name = "OptiDomains"
  BY <1>2 DEF DeployInv, ChainInv, ChainSound
<1>4. RegistryStands /\ Set("addr.reverse")
  BY <1>3 DEF OrderInv, WrapperClaimed, OfRegistry
<1>5. PICK d \in DOMAIN storage : d = <<Registry, "addr.reverse">>  BY <1>4 DEF Set
<1>6. Set("reverse") /\ \E c \in DOMAIN contracts : contracts[c].nonce # 0
  BY <1>5 DEF OrderInv, ReverseFollows, Set
<1>7. Set("tld")  BY <1>6 DEF OrderInv, NoncesCount
<1>8. \A slot : Set(slot) => Slot(Registry, slot) # {}
  BY DEF Set, Slot, OrderInv, ReverseFollows
<1>9. Address("ENSRegistry") = Registry
  BY <1>4 DEF RegistryStands, Address, Registry, Found
<1>10. RootCalls[1][2] = "tld" /\ RootCalls[2][2] = "reverse" /\ RootCalls[3][2] = "addr.reverse"
  BY DEF RootCalls
<1>11. \A i \in 1 .. 3 : i = 1 \/ i = 2 \/ i = 3  OBVIOUS
<1> QED BY <1>4, <1>6, <1>7, <1>8, <1>9, <1>10, <1>11

\* A run of all scripts of ens/ that ends without an error leaves a registry whose top
\* level and whose reverse names are assigned, whatever was killed or edited before.
THEOREM GreenRunsWired == Spec => []GreenRunsHaveReverseNames
<1>1. Init => DeployInv /\ OrderInv /\ QueueInv
  BY InitProcess, InitChain, InitBounds, InitOrder DEF DeployInv
<1>2. DeployInv /\ OrderInv /\ QueueInv /\ [Next]_vars => DeployInv' /\ OrderInv' /\ QueueInv'
  BY DeployStep, OrderStep
<1>3. DeployInv /\ OrderInv /\ QueueInv => GreenRunsHaveReverseNames
  BY GreenFollows
<1> QED BY <1>1, <1>2, <1>3, PTL DEF Spec
=============================================================================
