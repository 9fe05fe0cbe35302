------------------------------ MODULE Planning ------------------------------
(***************************************************************************)
(* The native shape a provider plans for a job, before any price:          *)
(* make_provider_plan, machine, fargate_memory_mib and the validations of  *)
(* include/cldmux/plan.hpp.  Memory is in MiB.  What the validations check *)
(* in the characters of a name, path or endpoint is one field of the job   *)
(* or of the set-up.                                                       *)
(***************************************************************************)
EXTENDS Naturals, SequencesExt

CONSTANTS
    Setup,   \* the queues, roles, GPU targets and accounts of cldmux::config
    None     \* no value, or an exception

Provider == {"gcp", "aws", "azure"}
GiB == 1024
Gpu == {"t4", "l4", "a10", "a100", "h100"}
-----------------------------------------------------------------------------
(* Machines                                                                *)

Shape(family, size, cpus, memory) == [machine |-> <<family, size>>, cpus |-> cpus, memory |-> memory]

\* Shapes of a family named after their CPUs, and after their GPUs.
PerCpu(family, sizes, memory) ==
    [i \in DOMAIN sizes |-> Shape(family, sizes[i], sizes[i], sizes[i] * memory)]
PerGpu(family, gpus, cpus, memory) == <<Shape(family, gpus, gpus * cpus, gpus * memory * GiB)>>

E2 == PerCpu("e2-standard", <<2, 4, 8, 16, 32>>, 4 * GiB)
D == PerCpu("Standard_D", <<2, 4, 8, 16, 32>>, 4 * GiB)
N1 == PerCpu("n1-standard", <<4, 8, 16, 32, 64, 96>>, 3840)
G2 == PerCpu("g2-standard", <<4, 8, 12, 16, 32>>, 4 * GiB)
NC == [t4 |-> Shape("Standard_NC4as_T4", 4, 4, 28 * GiB),
       a10 |-> Shape("Standard_NV36ads_A10", 36, 36, 440 * GiB),
       a100 |-> Shape("Standard_NC24ads_A100", 24, 24, 220 * GiB),
       h100 |-> Shape("Standard_NC40ads_H100", 40, 40, 320 * GiB)]

\* The built-in shapes with exactly the accelerator asked for, in the order
\* they are tried.
Shapes(p, gpu, n) ==
    CASE p = "gcp" /\ gpu = None -> E2
      [] p = "gcp" /\ gpu = "t4" /\ n \in {1, 2} -> SubSeq(N1, 1, 4)
      [] p = "gcp" /\ gpu = "t4" /\ n = 4 -> N1
      [] p = "gcp" /\ gpu = "l4" /\ n = 1 -> G2
      [] p = "gcp" /\ gpu = "l4" /\ n \in {2, 4, 8} -> <<Shape("g2-standard", 12 * n, 12 * n, 48 * n * GiB)>>
      [] p = "gcp" /\ gpu = "a100" /\ n \in {1, 2, 4, 8} -> PerGpu("a2-ultragpu", n, 12, 170)
      [] p = "gcp" /\ gpu = "h100" /\ n \in {1, 2, 4, 8} -> PerGpu("a3-highgpu", n, 26, 234)
      [] p = "azure" /\ gpu = None -> D
      [] p = "azure" /\ gpu \in DOMAIN NC /\ n = 1 -> <<NC[gpu]>>
      [] OTHER -> <<>>

Holds(shape, job) == job.cpus <= shape.cpus /\ job.memory <= shape.memory

\* smallest_shape(): the first that holds the job, None when it throws.
Smallest(job, shapes) ==
    LET i == SelectInSeq(shapes, LAMBDA s : Holds(s, job))
    IN  IF i = 0 THEN None ELSE shapes[i].machine

\* A queue of its own per GPU model, on-demand or Spot, with a declared size.
Target(job) ==
    LET t == Setup.targets[job.gpu]
    IN  IF /\ job.gpu \in DOMAIN Setup.targets
           /\ IF job.spot THEN t.spotQueue ELSE t.queue
           /\ Holds(t, job) /\ job.count <= t.gpus
        THEN t.machine ELSE None

\* The one type of a CPU queue, if the set-up declares it.
BatchManaged == <<"batch-managed", 0>>
QueueMachine(job) ==
    LET exact == IF job.spot THEN Setup.spotMachine ELSE Setup.machine
    IN  IF exact = None THEN BatchManaged ELSE exact

\* machine(): the shape of a job without mounts, None when there is none.
Machine(p, job) ==
    IF \/ job.cpus = 0 \/ job.memory = 0
       \/ job.gpu # None /\ (job.count = 0 \/ job.gpu \notin Gpu)
       \/ p = "gcp" /\ job.gpu = "h100" /\ job.count < 8 /\ ~job.spot
    THEN None
    ELSE IF p = "aws" THEN IF job.gpu = None THEN QueueMachine(job) ELSE Target(job)
    ELSE Smallest(job, Shapes(p, job.gpu, job.count))
-----------------------------------------------------------------------------
(* Fargate                                                                 *)

\* Per number of CPUs: the least and the most memory and the step, in GiB.
Span(first, last, step) == [first |-> first * GiB, last |-> last * GiB, step |-> step * GiB]
FargateCpus == {1, 2, 4, 8, 16}
FargateRange == [n \in FargateCpus |->
    CASE n = 1 -> Span(2, 8, 1) [] n = 2 -> Span(4, 16, 1) [] n = 4 -> Span(8, 30, 1)
      [] n = 8 -> Span(16, 60, 4) [] n = 16 -> Span(32, 120, 8)]

\* slip
FargateCut(job) ==
    LET r == FargateRange[job.cpus]
    IN  IF job.cpus \notin FargateCpus \/ job.memory > r.last THEN 0
        ELSE IF job.memory <= r.first THEN r.first
        ELSE r.first + ((job.memory - r.first) \div r.step) * r.step

\* fargate_memory_mib(): the memory billed, 0 when it throws.
FargateMemory(job) ==
    LET r == FargateRange[job.cpus]
        increments == (job.memory - r.first + r.step - 1) \div r.step
    IN  CASE job.cpus \notin FargateCpus -> 0
          [] job.cpus \in FargateCpus /\ job.memory > r.last -> 0
          [] job.cpus \in FargateCpus /\ job.memory <= r.first -> r.first
          [] OTHER -> r.first + increments * r.step
-----------------------------------------------------------------------------
(* Validation and the plan                                                 *)

Mounted(job) == job.mounts # "none"

\* validate_spec(): the limits every provider shares.
ValidSpec(job) == job.wellFormed /\ job.retries <= 10 /\ job.minutes \in 1..(14 * 24 * 60)

\* validate_provider_spec().  Mounts are buckets, prefixes that end in '/', or
\* single objects.
AcceptsGcp(job) == job.mounts # "object"
AcceptsAws(job) ==
    /\ ~job.workdir /\ job.retries <= 9 /\ job.memory >= 4
    /\ job.gpu \in Gpu \cup {None}
    /\ IF Mounted(job)
       THEN /\ job.gpu = None
            /\ IF job.spot THEN Setup.fargateSpotQueue ELSE Setup.fargateQueue
            /\ Setup.executionRole /\ (job.account \/ Setup.jobRole)
            /\ FargateMemory(job) # 0
            /\ job.mounts # "object" /\ Setup.fileSystem
            /\ Setup.accessPoint => job.mounts = "bucket"
       ELSE IF job.gpu = None
       THEN IF job.spot THEN Setup.spotQueue ELSE Setup.queue
       ELSE /\ job.gpu \in DOMAIN Setup.targets
            /\ IF job.spot THEN Setup.targets[job.gpu].spotQueue ELSE Setup.targets[job.gpu].queue
AcceptsAzure(job) ==
    /\ ~job.account /\ Setup.batchEndpoint
    /\ Mounted(job) => Setup.storageSas /\ Setup.linuxNode /\ job.mounts = "bucket"
    /\ job.portable
Accepts(p, job) == CASE p = "gcp" -> AcceptsGcp(job)
                     [] p = "aws" -> AcceptsAws(job)
                     [] p = "azure" -> AcceptsAzure(job)

\* What a plan says of the machine.  cpus and memory are what Fargate bills,
\* 0 for every other machine.
Native(p, machine, gpu, n, cpus, memory) ==
    [provider |-> p, machine |-> machine, accelerator |-> gpu, count |-> n,
     cpus |-> cpus, memory |-> memory]
Fargate == <<"FARGATE", 0>>

\* make_provider_plan(): None when it throws.
ProviderPlan(p, job) ==
    LET fargate == p = "aws" /\ Mounted(job)
        chosen == Machine(p, job)
        gpus == IF job.gpu = None THEN 0 ELSE job.count
    IN  CASE ~ValidSpec(job) \/ ~Accepts(p, job) -> None
          [] OTHER ->
               IF fargate THEN Native(p, Fargate, None, 0, job.cpus, FargateMemory(job))
               ELSE IF chosen = None THEN None
               ELSE Native(p, chosen, job.gpu, gpus, 0, 0)
=============================================================================
