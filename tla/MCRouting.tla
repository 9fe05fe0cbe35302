------------------------------ MODULE MCRouting ------------------------------
(* The instance of Routing for TLC: two threads with jobs that tell the     *)
(* providers, the machines and the price sources apart, while the list      *)
(* prices move between two markets.                                         *)
EXTENDS Routing

CONSTANTS c1, c2

MCCaller == {c1, c2}

\* Fargate and on-demand queues, one dedicated GPU queue, no Spot zone.
MCSetup == [queue |-> TRUE, spotQueue |-> TRUE, machine |-> None, spotMachine |-> <<"m5.large", 0>>,
            zone |-> FALSE, fargateQueue |-> TRUE, fargateSpotQueue |-> FALSE,
            executionRole |-> TRUE, jobRole |-> TRUE, fileSystem |-> TRUE, accessPoint |-> FALSE,
            targets |-> [g \in {"t4"} |->
                [machine |-> <<"g4dn.xlarge", 0>>, cpus |-> 4, memory |-> 16 * GiB, gpus |-> 1,
                 queue |-> TRUE, spotQueue |-> FALSE]],
            batchEndpoint |-> TRUE, storageSas |-> TRUE, linuxNode |-> TRUE]

Job(cpus, memory, gpu, spot, mounts, ceiling) ==
    [cpus |-> cpus, memory |-> memory, gpu |-> gpu, count |-> 1, spot |-> spot, mounts |-> mounts,
     ceiling |-> ceiling, retries |-> 0, minutes |-> 60, account |-> FALSE, workdir |-> FALSE,
     portable |-> TRUE, wellFormed |-> TRUE]

MCMounted == Job(1, 2 * GiB + 1, None, FALSE, "bucket", None)
MCOthers == {Job(1, 2 * GiB, None, FALSE, "bucket", 5), Job(3, 8 * GiB, None, TRUE, "none", 9), Job(2, 4 * GiB, "t4", FALSE, "none", None)}
MCJobs == [c \in MCCaller |-> IF c = c1 THEN MCOthers ELSE {MCMounted}]

Priced(fargate, azure, gcp) ==
    (<<<<"fargate", "vcpu">>, FALSE>> :> fargate) @@ (<<<<"fargate", "gb">>, FALSE>> :> 1)
    @@ (<<<<"Standard_D", "hour", 2>>, FALSE>> :> azure) @@ (<<<<"Standard_D", "hour", 4>>, TRUE>> :> azure)
    @@ (<<<<"e2-standard", "core">>, TRUE>> :> 1) @@ (<<<<"e2-standard", "ram">>, TRUE>> :> gcp)
    @@ (<<<<"n1-standard", "core">>, FALSE>> :> 1) @@ (<<<<"n1-standard", "ram">>, FALSE>> :> gcp)
    @@ (<<<<"t4", "gpu">>, FALSE>> :> 3)
MCCheap == Priced(2, 4, 1)
MCDear == Priced(4, 5, 0)
MCMarket == {[t \in 0..MaxTime |-> IF t \in dear THEN MCDear ELSE MCCheap] : dear \in {{1, 2}, {0, 2}}}

MCProgrammed == {Config(None, <<"oci", "azure", "gcp">>, "ordered", "lookup"),
                 Config(None, <<"aws", "gcp">>, "ordered", "estimator")}
MCEnvironment == {"aws", "azure"}
=============================================================================
