------------------------------- MODULE HardhatTasks -------------------------------
\* The tasks that ens/ and diamond-resolver/ add to hardhat, in files that are the same
\* in both: the archive of recorded deployments, one directory each, and the seeding of
\* a name. A command line names the task; here the name of a task is a tag of its own.
EXTENDS DeploymentScripts, Naturals

\* Makes the directory of a recorded deployment. When there is one, a scan passes
\* on to the next deployment, which is two steps away, and a save throws.
MakeDirectory(name, scanning) ==
    [op |-> "mkdir", name |-> name, scanning |-> scanning]
WriteArtifact(name) == [op |-> "write", name |-> name]

\* Reads an environment file that may be missing.
ReadEnvironment == [op |-> "environment"]

\* The deployments of a network, in the order the records are listed.
ArchivedNames == <<"OptiDomains", "PublicResolver", "ReverseRegistrar">>

SaveSteps(name, scanning) == <<MakeDirectory(name, scanning), WriteArtifact(name)>>

SaveScript(name) == Script("", {"save"}, <<>>, FALSE, SaveSteps(name, FALSE))

\* Mutant of ArchiveScanScript: it does not look whether there is a directory.
ScanOfNewArchives ==
    Script("", {"archive-scan"}, <<>>, FALSE,
           [i \in 1 .. 2 * Len(ArchivedNames) |->
               SaveSteps(ArchivedNames[(i + 1) \div 2], FALSE)[2 - (i % 2)]])

ArchiveScanScript ==
    Script("", {"archive-scan"}, <<>>, FALSE,
           [i \in 1 .. 2 * Len(ArchivedNames) |->
               SaveSteps(ArchivedNames[(i + 1) \div 2], TRUE)[2 - (i % 2)]])

\* The factory of the abstract contract NameWrapper cannot be made: nothing of what
\* the rest of the task sends is ever sent.
SeedScript == Script("", {"seed"}, <<>>, FALSE, <<ReadEnvironment>>)

TaskScripts == <<ArchiveScanScript, SaveScript(ArchivedNames[1]), SeedScript>>
=============================================================================
