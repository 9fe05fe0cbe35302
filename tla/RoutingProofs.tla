---------------------------- MODULE RoutingProofs ----------------------------
(***************************************************************************)
(* What Routing promises of prices, ceilings and choices, for any number   *)
(* of threads, jobs, courses of prices and configurations.  A caller is    *)
(* followed by where its quote came from, an entry of the cache by when    *)
(* its parts were listed.                                                  *)
(***************************************************************************)
EXTENDS Routing, SequenceTheorems, WellFoundedInduction, TLAPS

-----------------------------------------------------------------------------
(* The inductive invariant.                                                *)

\* The locals of a caller.
Name == STRING \cup Provider
Plans == {None} \cup {ProviderPlan(p, j) : p \in Provider, j \in UNION {Jobs[c] : c \in Caller}}
Founds == UNION {[ks -> Nat \cup {None}] : ks \in SUBSET (1..3)}
Locals ==
    [pc : {"idle", "next", "ask", "lookup", "read", "store", "priced", "bound", "failed"},
     op : {None, "route", "run"}, job : {None} \cup UNION {Jobs[c] : c \in Caller},
     bound : Provider \cup {None}, next : Nat,
     candidates : Seq([plan : Plans, price : Nat \cup {None}]), skipped : SUBSET Name,
     plan : Plans, asked : Nat, quote : Nat \cup {None},
     found : Founds,
     began : Nat, submitted : BOOLEAN]

\* While a plan is priced its provider is the one bound, or the one whose turn
\* it is.
Pricing == {"ask", "lookup", "read", "store", "priced"}
Whose(l) == IF l.op = "run" THEN l.bound ELSE Order[l.next]

\* Where a caller is, and what its locals hold there.
Placed(c, l) ==
    /\ l.job \in Jobs[c] \cup {None} /\ l.next \in 1..(Len(Order) + 1)
    /\ l.pc \notin {"idle", "failed"} => l.job \in Jobs[c]
    /\ l.pc = "idle" => l = Idle
    /\ l.pc = "next" => l.op = "route"
    /\ l.pc \in Pricing => l.op \in {"route", "run"} /\ l.plan # None /\ l.plan = ProviderPlan(Whose(l), l.job)
    /\ l.pc \in Pricing /\ l.op = "route" => l.next <= Len(Order) /\ Order[l.next] \in Provider
    /\ l.op = "run" \/ l.pc = "bound" => l.bound \in Provider
    /\ l.plan # None => l.job \in Jobs[c] /\ \E p \in Provider : l.plan = ProviderPlan(p, l.job)
    /\ l.submitted => l.pc = "bound" /\ l.op = "run" /\ l.plan # None

\* The price of a run is asked for after run() was called.
Timed(l, n) ==
    /\ l.asked \in 0..n /\ l.began \in 0..n
    /\ l.op = "run" /\ l.pc \in {"lookup", "read", "store", "priced", "bound"} => l.began <= l.asked

\* Where a quote comes from: parts listed since the price was asked for, or a
\* cached total whose time to live had not ended then.
Quoted(l, n) ==
    LET parts == Parts(l.plan, l.job.spot)
    IN  /\ l.pc \in {"ask", "lookup", "read"} => l.quote = None
        /\ l.pc = "read" =>
               DOMAIN l.found \subseteq DOMAIN parts
               /\ \A k \in DOMAIN l.found : \E t \in l.asked..n : l.found[k] = Unit(t, parts[k])
        /\ l.pc = "store" => l.quote \in Window(l.plan, l.job.spot, l.asked, n)
        /\ (l.pc = "priced" \/ l.submitted) /\ l.quote # None =>
               l.quote \in Window(l.plan, l.job.spot, Start(l.asked, l.job.spot), n)
        /\ l.submitted => UnderCeiling(l)

\* A route in order has tried those before the one whose turn it is, each of
\* them barred; a route by cost holds a price of each.  Only a catalogue is
\* looked up.
LookingUp == {"lookup", "read", "store"}
Passed(l, p) == p \in l.skipped /\ Barred(l.job, p)
BestRoute(l) ==
    LET quotes == [i \in DOMAIN l.candidates |-> l.candidates[i].price]
        first(i) == \A j \in DOMAIN quotes : quotes[j] > quotes[i] \/ (quotes[j] = quotes[i] /\ j >= i)
    IN  IF config.selection = "ordered"
        THEN \E i \in DOMAIN Order :
                Order[i] = l.bound /\ \A j \in 1..(i - 1) : Passed(l, Order[j])
        ELSE /\ \A p \in ToSet(Order) \cap Provider :
                    \E i \in DOMAIN quotes : l.candidates[i].plan.provider = p
             /\ \E i \in DOMAIN quotes : l.candidates[i].plan.provider = l.bound /\ first(i)
Tried(l) == l.op = "route" =>
    /\ l.pc \in Pricing \cup {"next"} => \A j \in 1..(l.next - 1) :
           IF config.selection = "ordered" THEN Passed(l, Order[j])
           ELSE Order[j] \in Provider =>
                    \E i \in DOMAIN l.candidates : l.candidates[i].plan.provider = Order[j]
    /\ l.pc \in LookingUp => config.prices = "catalogue"
    /\ config.selection = "ordered" => l.candidates = <<>>
    /\ config.selection # "ordered" => \A i \in DOMAIN l.candidates :
           l.candidates[i].price \in Nat /\ l.candidates[i].plan.provider \in Provider
    /\ l.pc = "bound" => BestRoute(l)

\* A cached total was listed between the time it carries and now.
CacheIsListed ==
    \A k \in DOMAIN cache :
        /\ cache[k].at \in 0..now /\ cache[k].price \in Nat
        /\ cache[k].price \in Window(k[1], k[2], cache[k].at, now)

Good(c, l) == Placed(c, l) /\ Timed(l, now) /\ Quoted(l, now) /\ Tried(l)
IInv == /\ config \in Programmed \cup FromEnvironment /\ listed \in Market /\ now \in 0..MaxTime
        /\ CacheIsListed
        /\ call \in [Caller -> Locals] /\ \A c \in Caller : Good(c, call[c])
-----------------------------------------------------------------------------
(* Numbers.                                                                *)

\* A set of natural numbers has a least member, which Min picks.
LEMMA Least ==
    ASSUME NEW T \in SUBSET Nat, T # {}
    PROVE  Min(T) \in T /\ \A y \in T : Min(T) <= y
<1>1. PICK x \in T : \A y \in T : ~(<<y, x>> \in OpToRel(<, Nat))
  BY NatLessThanWellFounded, WFMin
<1>2. ASSUME NEW y \in T PROVE x <= y
  <2>1. x \in Nat /\ y \in Nat /\ <<y, x>> \in Nat \X Nat
    OBVIOUS
  <2>2. y < x => <<y, x>> \in OpToRel(<, Nat)
    BY <2>1, Zenon DEF OpToRel
  <2>3. ~(y < x)
    BY <1>1, <2>2
  <2> QED
    BY <2>1, <2>3
<1>3. \E z \in T : \A y \in T : z <= y
  BY <1>2
<1> QED
  BY <1>3, Zenon DEF Min
-----------------------------------------------------------------------------
(* The native shapes.                                                      *)

\* The shapes a provider tries, in the order of their CPUs.
IsLadder(s) == /\ Len(s) \in Nat /\ DOMAIN s = 1..Len(s)
               /\ \A i \in 1..Len(s) : s[i].cpus \in Nat /\ s[i].machine[2] \in Nat
               /\ \A i, k \in 1..Len(s) : i <= k => s[i].cpus <= s[k].cpus

LEMMA OneShape ==
    ASSUME NEW family, NEW size \in Nat, NEW cpus \in Nat, NEW memory
    PROVE  IsLadder(<<Shape(family, size, cpus, memory)>>)
  BY DEF IsLadder, Shape

LEMMA PerCpuIs ==
    ASSUME NEW family, NEW sizes, NEW n \in Nat, NEW memory, Len(sizes) = n, DOMAIN sizes = 1..n,
           \A i \in 1..n : sizes[i] \in Nat,
           \A i, k \in 1..n : i <= k => sizes[i] <= sizes[k]
    PROVE  IsLadder(PerCpu(family, sizes, memory)) /\ Len(PerCpu(family, sizes, memory)) = Len(sizes)
<1> DEFINE S == {Shape(family, sizes[i], sizes[i], sizes[i] * memory) : i \in 1..n}
           s == [i \in 1..n |-> Shape(family, sizes[i], sizes[i], sizes[i] * memory)]
<1>1. PerCpu(family, sizes, memory) = s
  BY DEF PerCpu
<1>2. s \in [1..n -> S]
  OBVIOUS
<1>3. \A i \in 1..n : s[i].cpus = sizes[i] /\ s[i].machine[2] = sizes[i]
  BY DEF Shape
<1> HIDE DEF s, S
<1>4. s \in Seq(S)
  BY <1>2, SeqDef
<1>5. Len(s) = n /\ DOMAIN s = 1..n
  BY <1>2, <1>4, LenProperties
<1> QED
  BY <1>1, <1>3, <1>5 DEF IsLadder

\* The shapes of GCP and Azure are tried in the order of their CPUs, whatever
\* the accelerator.
LEMMA ShapesAre ==
    ASSUME NEW p \in {"gcp", "azure"}, NEW gpu, NEW n \in Nat
    PROVE  IsLadder(Shapes(p, gpu, n))
<1>0. None \notin Gpu
  BY RoutingAssumption
<1>1. IsLadder(E2) /\ IsLadder(D) /\ IsLadder(G2)
  <2> DEFINE a == <<2, 4, 8, 16, 32>>
             b == <<4, 8, 12, 16, 32>>
  <2>1. Len(a) = 5 /\ DOMAIN a = 1..5 /\ Len(b) = 5 /\ DOMAIN b = 1..5
    OBVIOUS
  <2>2. \A i \in 1..5 : a[i] \in Nat /\ b[i] \in Nat
    OBVIOUS
  <2>3. \A i, k \in 1..5 : i <= k => a[i] <= a[k] /\ b[i] <= b[k]
    OBVIOUS
  <2> HIDE DEF a, b
  <2>4. \A f, m : IsLadder(PerCpu(f, a, m)) /\ IsLadder(PerCpu(f, b, m))
    BY <2>1, <2>2, <2>3, PerCpuIs
  <2> QED
    BY <2>4 DEF E2, D, G2, a, b
<1>2. IsLadder(N1) /\ Len(N1) = 6
  <2> DEFINE a == <<4, 8, 16, 32, 64, 96>>
  <2>1. Len(a) = 6 /\ DOMAIN a = 1..6
    OBVIOUS
  <2>2. \A i \in 1..6 : a[i] \in Nat
    OBVIOUS
  <2>3. \A i, k \in 1..6 : i <= k => a[i] <= a[k]
    OBVIOUS
  <2> HIDE DEF a
  <2>4. 6 \in Nat
    OBVIOUS
  <2>5. ASSUME NEW f, NEW m
        PROVE  IsLadder(PerCpu(f, a, m)) /\ Len(PerCpu(f, a, m)) = 6
    <3>1. IsLadder(PerCpu(f, a, m))
      BY <2>1, <2>2, <2>3, <2>4, PerCpuIs
    <3>2. Len(PerCpu(f, a, m)) = Len(a)
      BY <2>1, <2>2, <2>3, <2>4, PerCpuIs
    <3> QED
      BY <2>1, <3>1, <3>2
  <2> QED
    BY <2>5 DEF N1, a
<1>3. IsLadder(SubSeq(N1, 1, 4))
  <2> DEFINE s == SubSeq(N1, 1, 4)
             S == {N1[i] : i \in 1..4}
  <2>1. \A i \in 1..4 : N1[i] \in S
    OBVIOUS
  <2> HIDE DEF S
  <2>2. s \in Seq(S) /\ Len(s) = 4 /\ \A i \in 1..4 : s[i] = N1[i]
    BY <2>1, SubSeqProperties
  <2>3. DOMAIN s = 1..4
    BY <2>2, LenProperties
  <2> HIDE DEF s
  <2>4. \A i \in 1..4 : i \in 1..6
    OBVIOUS
  <2>5. \A i \in 1..4 : s[i].cpus = N1[i].cpus /\ s[i].machine[2] = N1[i].machine[2]
    BY <2>2
  <2>6. \A i \in 1..6 : N1[i].cpus \in Nat /\ N1[i].machine[2] \in Nat
    BY <1>2 DEF IsLadder
  <2>7. \A i, k \in 1..6 : i <= k => N1[i].cpus <= N1[k].cpus
    BY <1>2 DEF IsLadder
  <2>8. \A i \in 1..4 : s[i].cpus \in Nat /\ s[i].machine[2] \in Nat
    BY <2>4, <2>5, <2>6
  <2>9. \A i, k \in 1..4 : i <= k => s[i].cpus <= s[k].cpus
    BY <2>4, <2>5, <2>7
  <2> QED
    BY <2>2, <2>3, <2>8, <2>9 DEF IsLadder, s
<1>4. \A g \in {"t4", "a10", "a100", "h100"} : IsLadder(<<NC[g]>>)
  BY OneShape DEF NC, GiB
<1>5. \A f, m : \A k \in Nat : IsLadder(<<Shape(f, 12 * k, 12 * k, m)>>)
  BY OneShape
<1>6. \A f, m : \A k, a \in Nat : IsLadder(PerGpu(f, k, a, m))
  BY OneShape DEF PerGpu
<1>7. IsLadder(<<>>)
  BY DEF IsLadder
<1>8. DOMAIN NC = {"t4", "a10", "a100", "h100"}
  BY DEF NC
<1> QED
  BY <1>0, <1>1, <1>2, <1>3, <1>4, <1>5, <1>6, <1>7, <1>8 DEF Shapes, Gpu

\* smallest_shape() finds the first shape that holds the job.
LEMMA SmallestIs ==
    ASSUME NEW s, Len(s) \in Nat, NEW j, Smallest(j, s) # None
    PROVE  \E i \in 1..Len(s) : /\ Smallest(j, s) = s[i].machine /\ Holds(s[i], j)
                                /\ \A k \in 1..(i - 1) : ~Holds(s[k], j)
<1> DEFINE held == {i \in 1..Len(s) : Holds(s[i], j)}
           i == IF held # {} THEN Min(held) ELSE 0
<1>1. Smallest(j, s) = IF i = 0 THEN None ELSE s[i].machine
  BY DEF Smallest, SelectInSeq
<1>2. held \in SUBSET Nat
  OBVIOUS
<1>3. held # {}
  BY <1>1
<1>4. Min(held) \in held /\ \A y \in held : Min(held) <= y
  BY <1>2, <1>3, Least
<1>5. i = Min(held) /\ i \in 1..Len(s) /\ i # 0
  BY <1>2, <1>3, <1>4
<1>6. ASSUME NEW k \in 1..(i - 1) PROVE ~Holds(s[k], j)
  <2>1. k \notin held
    BY <1>2, <1>4, <1>5
  <2> QED
    BY <1>2, <1>5, <2>1
<1> QED
  BY <1>1, <1>4, <1>5, <1>6
-----------------------------------------------------------------------------
(* Fargate and the plan.                                                   *)

\* The sizes that Fargate bills for a number of CPUs, as PlanFits has them.
Sizes(j) == LET span == FargateRange[j.cpus]
            IN  {m \in {k * GiB : k \in 2..120} : /\ m \in span.first..span.last /\ m >= j.memory
                                                 /\ (m - span.first) % span.step = 0}

\* fargate_memory_mib() rounds up to the next size, one row of its table at a
\* time.
LEMMA RowOfFargate ==
    ASSUME NEW j, j.cpus \in FargateCpus, j.memory \in Nat, FargateMemory(j) # 0
    PROVE  FargateMemory(j) \in Sizes(j) /\ \A m \in Sizes(j) : FargateMemory(j) <= m
<1> DEFINE r == FargateRange[j.cpus]
           f == FargateMemory(j)
           above(step) == ((j.memory - r.first + r.step - 1) \div step) * step
<1>3. \/ r.first = 2048 /\ r.last = 8192 /\ r.step = 1024
      \/ r.first = 4096 /\ r.last = 16384 /\ r.step = 1024
      \/ r.first = 8192 /\ r.last = 30720 /\ r.step = 1024
      \/ r.first = 16384 /\ r.last = 61440 /\ r.step = 4096
      \/ r.first = 32768 /\ r.last = 122880 /\ r.step = 8192
  BY DEF FargateRange, FargateCpus, Span, GiB
<1>1. j.memory <= r.last
  <2>1. j.memory > r.last => FargateMemory(j) = 0
    BY <1>3 DEF FargateMemory
  <2> QED
    BY <1>3, <2>1
<1>2. f = IF j.memory <= r.first THEN r.first
          ELSE r.first + ((j.memory - r.first + r.step - 1) \div r.step) * r.step
  <2>1. ~(j.memory > r.last)
    BY <1>1, <1>3
  <2> QED
    BY <2>1 DEF FargateMemory
<1> HIDE DEF r, f
<1>4. f \in Nat /\ f >= j.memory /\ r.first <= f /\ f <= r.last /\ (f - r.first) % r.step = 0
  BY <1>1, <1>2, <1>3
<1>5. \E k \in 2..120 : f = k * GiB
  <2>1. f = (f \div 1024) * 1024 /\ f \div 1024 \in 2..120
    BY <1>3, <1>4
  <2> QED
    BY <2>1 DEF GiB
<1>6. ASSUME NEW m \in Nat, m \in r.first..r.last, m >= j.memory, (m - r.first) % r.step = 0
      PROVE  f <= m
  BY <1>1, <1>2, <1>3, <1>6
<1>7. \A m \in {k * GiB : k \in 2..120} : m \in Nat
  BY DEF GiB
<1> QED
  BY <1>4, <1>5, <1>6, <1>7, <1>3 DEF Sizes, r, f

LEMMA FargateIs ==
    ASSUME NEW j, j.cpus \in Nat, j.memory \in Nat
    PROVE  /\ FargateMemory(j) \in Nat
           /\ FargateMemory(j) # 0 => FargateMemory(j) = Min(Sizes(j))
<1>1. CASE FargateMemory(j) = 0
  BY <1>1
<1>2. CASE FargateMemory(j) # 0
  <2>1. j.cpus \in FargateCpus
    BY <1>2 DEF FargateMemory
  <2>2. FargateMemory(j) \in Sizes(j) /\ \A m \in Sizes(j) : FargateMemory(j) <= m
    BY <1>2, <2>1, RowOfFargate
  <2>3. Sizes(j) \in SUBSET Nat
    BY DEF Sizes, GiB
  <2>4. Min(Sizes(j)) \in Sizes(j) /\ \A m \in Sizes(j) : Min(Sizes(j)) <= m
    BY <2>2, <2>3, Least
  <2> QED
    BY <2>2, <2>3, <2>4
<1> QED
  BY <1>1, <1>2

\* What a plan says, and that it fits the job as PlanFits has it.
FitsJob(j, p) ==
    LET list == ToSet(Shapes(p.provider, j.gpu, j.count))
    IN  CASE p.provider = "aws" /\ Mounted(j) -> p.memory = Min(Sizes(j))
          [] p.provider = "aws" /\ ~Mounted(j) ->
                /\ p.accelerator = j.gpu
                /\ j.gpu # None => /\ Holds(Setup.targets[j.gpu], j)
                                   /\ p.count = j.count /\ j.count <= Setup.targets[j.gpu].gpus
          [] OTHER -> \E s \in list : /\ s.machine = p.machine /\ Holds(s, j)
                                      /\ \A o \in list : Holds(o, j) => s.cpus <= o.cpus

LEMMA PlanIs ==
    ASSUME NEW p \in Provider, NEW j, j.cpus \in Nat, j.memory \in Nat, j.count \in Nat,
           ProviderPlan(p, j) # None
    PROVE  LET plan == ProviderPlan(p, j)
           IN  /\ plan.provider = p
               /\ plan.count \in Nat /\ plan.cpus \in Nat /\ plan.memory \in Nat
               /\ p = "gcp" => plan.machine[2] \in Nat
               /\ FitsJob(j, plan)
<1> DEFINE plan == ProviderPlan(p, j)
           chosen == Machine(p, j)
           fargate == p = "aws" /\ Mounted(j)
           gpus == IF j.gpu = None THEN 0 ELSE j.count
<1>1. ValidSpec(j) /\ Accepts(p, j)
  BY DEF ProviderPlan
<1>2. CASE fargate
  <2>1. plan = Native(p, Fargate, None, 0, j.cpus, FargateMemory(j))
    BY <1>1, <1>2 DEF ProviderPlan
  <2>2. FargateMemory(j) # 0
    BY <1>1, <1>2 DEF Accepts, AcceptsAws
  <2>3. /\ plan.provider = p /\ plan.count = 0 /\ plan.cpus = j.cpus
        /\ plan.memory = FargateMemory(j)
    BY <2>1 DEF Native
  <2>4. FargateMemory(j) \in Nat /\ FargateMemory(j) = Min(Sizes(j))
    BY <2>2, FargateIs
  <2>5. FitsJob(j, plan)
    BY <1>2, <2>3, <2>4 DEF FitsJob
  <2> QED
    BY <1>2, <2>3, <2>4, <2>5
<1>3. CASE ~fargate
  <2>1. chosen # None /\ plan = Native(p, chosen, j.gpu, gpus, 0, 0)
    BY <1>1, <1>3 DEF ProviderPlan
  <2>2. /\ plan.provider = p /\ plan.count = gpus /\ plan.cpus = 0 /\ plan.memory = 0
        /\ plan.machine = chosen /\ plan.accelerator = j.gpu
    BY <2>1 DEF Native
  <2>3. CASE p = "aws"
    <3>1. CASE j.gpu = None
      BY <1>3, <2>2, <2>3, <3>1 DEF FitsJob
    <3>2. CASE j.gpu # None
      <4>1. chosen = Target(j)
        BY <2>1, <2>3, <3>2 DEF Machine
      <4>2. Holds(Setup.targets[j.gpu], j) /\ j.count <= Setup.targets[j.gpu].gpus
        BY <2>1, <4>1 DEF Target
      <4> QED
        BY <1>3, <2>2, <2>3, <3>2, <4>2 DEF FitsJob
    <3> QED
      BY <3>1, <3>2
  <2>4. CASE p \in {"gcp", "azure"}
    <3> DEFINE s == Shapes(p, j.gpu, j.count)
    <3>1. chosen = Smallest(j, s)
      BY <2>1, <2>4 DEF Machine
    <3>2. IsLadder(s)
      BY <2>4, ShapesAre
    <3> HIDE DEF s
    <3>3. PICK i \in 1..Len(s) : /\ chosen = s[i].machine /\ Holds(s[i], j)
                                 /\ \A k \in 1..(i - 1) : ~Holds(s[k], j)
      BY <2>1, <3>1, <3>2, SmallestIs DEF IsLadder
    <3>4. ASSUME NEW k \in 1..Len(s), Holds(s[k], j) PROVE s[i].cpus <= s[k].cpus
      BY <3>2, <3>3, <3>4 DEF IsLadder
    <3>5. DOMAIN s = 1..Len(s) /\ chosen[2] \in Nat
      BY <3>2, <3>3 DEF IsLadder
    <3>6. ToSet(s) = {s[k] : k \in 1..Len(s)}
      BY <3>5 DEF ToSet
    <3>7. \A o \in ToSet(s) : Holds(o, j) => s[i].cpus <= o.cpus
      BY <3>4, <3>6
    <3>8. s[i] \in ToSet(s) /\ s[i].machine = plan.machine /\ Holds(s[i], j)
      BY <2>2, <3>3, <3>6
    <3>9. FitsJob(j, plan)
      BY <2>2, <2>4, <3>7, <3>8 DEF FitsJob, s
    <3> QED
      BY <2>2, <3>5, <3>9
  <2> QED
    BY <2>3, <2>4 DEF Provider
<1> QED
  BY <1>2, <1>3
-----------------------------------------------------------------------------
(* The price of a plan.                                                    *)

\* What Parts lists are at most three quantities.
LEMMA PartsAre ==
    ASSUME NEW p \in Provider, NEW j, j.cpus \in Nat, j.memory \in Nat, j.count \in Nat,
           ProviderPlan(p, j) # None, NEW spot
    PROVE  LET parts == Parts(ProviderPlan(p, j), spot)
           IN  /\ DOMAIN parts \subseteq 1..3 /\ (parts = <<>> <=> DOMAIN parts = {})
               /\ \A k \in DOMAIN parts : parts[k].quantity \in Nat
<1> DEFINE plan == ProviderPlan(p, j)
           core == [row |-> <<<<plan.machine[1], "core">>, spot>>, quantity |-> plan.machine[2]]
           ram == [row |-> <<<<plan.machine[1], "ram">>, spot>>,
                   quantity |-> (plan.machine[2] * GcpMemory[plan.machine[1]]) \div 4]
           gpu == [row |-> <<<<plan.accelerator, "gpu">>, spot>>, quantity |-> plan.count]
           vcpu == [row |-> <<<<"fargate", "vcpu">>, spot>>, quantity |-> plan.cpus]
           gb == [row |-> <<<<"fargate", "gb">>, spot>>, quantity |-> plan.memory \div GiB]
           hour == [row |-> <<<<plan.machine[1], "hour", plan.machine[2]>>, spot>>, quantity |-> 1]
           gcp == p = "gcp" /\ plan.machine[1] \in DOMAIN GcpMemory
           parts == Parts(plan, spot)
<1>1. /\ plan.provider = p
      /\ plan.count \in Nat /\ plan.cpus \in Nat /\ plan.memory \in Nat
      /\ p = "gcp" => plan.machine[2] \in Nat
  BY PlanIs
<1>2. /\ plan.memory \div GiB \in Nat
      /\ gcp => (plan.machine[2] * GcpMemory[plan.machine[1]]) \div 4 \in Nat
  <2>1. plan.memory \div GiB \in Nat
    BY <1>1 DEF GiB
  <2>2. gcp => GcpMemory[plan.machine[1]] \in {15, 16}
    BY DEF GcpMemory
  <2>3. gcp => (plan.machine[2] * GcpMemory[plan.machine[1]]) \div 4 \in Nat
    BY <1>1, <2>2
  <2> QED
    BY <2>1, <2>3
<1> HIDE DEF plan
<1>3. \/ parts = <<>>
      \/ gcp /\ parts = <<core, ram>>
      \/ gcp /\ parts = <<core, ram, gpu>>
      \/ parts = <<vcpu, gb>>
      \/ parts = <<hour>>
  BY <1>1 DEF Parts
<1>4. /\ gcp => core.quantity \in Nat /\ ram.quantity \in Nat
      /\ gpu.quantity \in Nat /\ vcpu.quantity \in Nat /\ gb.quantity \in Nat
      /\ hour.quantity \in Nat
  BY <1>1, <1>2
<1> HIDE DEF core, ram, gpu, vcpu, gb, hour, parts, gcp
<1>5. DOMAIN parts \subseteq 1..3 /\ (parts = <<>> <=> DOMAIN parts = {})
  BY <1>3
<1>6. \A k \in DOMAIN parts : parts[k].quantity \in Nat
  BY <1>3, <1>4
<1> QED
  BY <1>5, <1>6 DEF parts, plan

\* Parts that were found make a total.
LEMMA TotalIs ==
    ASSUME NEW parts, DOMAIN parts \subseteq 1..3, \A k \in DOMAIN parts : parts[k].quantity \in Nat,
           NEW found, \A k \in DOMAIN parts : found[k] \in Nat \cup {None}
    PROVE  Total(parts, found) \in Nat \cup {None}
<1>1. CASE parts = <<>> \/ \E k \in DOMAIN parts : found[k] = None
  BY <1>1 DEF Total
<1>2. CASE ~(parts = <<>> \/ \E k \in DOMAIN parts : found[k] = None)
  <2>1. \A k \in {1, 2, 3} : Cost(parts, found, k) \in Nat
    BY <1>2 DEF Cost
  <2> QED
    BY <1>2, <2>1 DEF Total
<1> QED
  BY <1>1, <1>2

LEMMA UnitIs ==
    ASSUME listed \in Market, NEW t \in 0..MaxTime, NEW part
    PROVE  Unit(t, part) \in Nat \cup {None}
  BY RoutingAssumption DEF Unit

\* A longer interval has every total a shorter one has.
LEMMA WindowGrows ==
    ASSUME NEW p, NEW spot, NEW from \in Nat, NEW to \in Nat, NEW first \in Nat, NEW last \in Nat,
           first <= from, to <= last
    PROVE  Window(p, spot, from, to) \subseteq Window(p, spot, first, last)
<1>1. from..to \subseteq first..last
  OBVIOUS
<1>2. \A ks : [ks -> from..to] \subseteq [ks -> first..last]
  BY <1>1
<1> QED
  BY <1>2 DEF Window

\* The time to live of a price that was read at a tick began at that tick or
\* before.
LEMMA StartIs ==
    ASSUME NEW at \in Nat, NEW spot
    PROVE  Start(at, spot) \in Nat /\ Start(at, spot) <= at
  BY RoutingAssumption DEF Start, TtlOf

LEMMA StartGrows ==
    ASSUME NEW at \in Nat, NEW later \in Nat, at <= later, NEW spot
    PROVE  Start(at, spot) <= Start(later, spot)
  BY RoutingAssumption DEF Start, TtlOf

\* The list prices do not change their past.
LEMMA SameWindow ==
    ASSUME listed' = listed, NEW p, NEW spot, NEW from, NEW to
    PROVE  Window(p, spot, from, to)' = Window(p, spot, from, to)
<1>1. \A t, part : Unit(t, part)' = Unit(t, part)
  BY DEF Unit
<1> QED
  BY <1>1 DEF Window

\* Prices read within an interval make a total of the interval.
LEMMA TotalInWindow ==
    ASSUME NEW p, NEW spot, NEW from, NEW to, NEW found,
           found = [k \in DOMAIN Parts(p, spot) |-> found[k]],
           \A k \in DOMAIN Parts(p, spot) :
               \E t \in from..to : found[k] = Unit(t, Parts(p, spot)[k])
    PROVE  Total(Parts(p, spot), found) \in Window(p, spot, from, to)
<1> DEFINE parts == Parts(p, spot)
           when == [k \in DOMAIN parts |-> CHOOSE t \in from..to : found[k] = Unit(t, parts[k])]
<1>1. \A k \in DOMAIN parts : when[k] \in from..to /\ found[k] = Unit(when[k], parts[k])
  OBVIOUS
<1>2. when \in [DOMAIN parts -> from..to]
  BY <1>1
<1> HIDE DEF when
<1>3. found = [k \in DOMAIN parts |-> Unit(when[k], parts[k])]
  BY <1>1
<1> QED
  BY <1>2, <1>3 DEF Window
-----------------------------------------------------------------------------
(* What holds between the steps.                                           *)

\* The providers of a configuration are a sequence of names.
LEMMA OrderIs ==
    ASSUME config \in Programmed \cup FromEnvironment
    PROVE  /\ Order \in Seq(Name) /\ Len(Order) \in Nat /\ DOMAIN Order = 1..Len(Order)
           /\ \A i \in 1..Len(Order) : Order[i] \in Name
           /\ config.selection \in {"ordered", "lowest_cost"}
<1>1. \A p \in Provider : <<p>> \in Seq(Name)
  <2>1. ASSUME NEW p \in Provider PROVE <<p>> \in Seq(Name)
    <3>1. p \in Name
      BY DEF Name
    <3> QED
      BY <3>1
  <2> QED
    BY <2>1
<1>2. /\ config.selection \in {"ordered", "lowest_cost"}
      /\ config.pinned # None => config.pinned \in Provider
      /\ config.pinned = None => config.providers \in Seq(Name)
  <2>1. CASE config \in Programmed
    <3>1. STRING \subseteq Name
      BY DEF Name
    <3>2. Seq(STRING) \subseteq Seq(Name)
      BY <3>1, SeqMonotonic
    <3> QED
      BY <2>1, <3>2, RoutingAssumption
  <2>2. CASE config \in FromEnvironment
    <3>1. \A p \in Provider : Named(p) \in Seq(Name)
      BY <1>1, EmptySeq DEF Named
    <3>2. Named("gcp") \o Named("aws") \in Seq(Name)
      BY <3>1, ConcatProperties DEF Provider
    <3>3. Named("gcp") \o Named("aws") \o Named("azure") \in Seq(Name)
      BY <3>1, <3>2, ConcatProperties DEF Provider
    <3>4. CASE config = Config(None, Named("gcp") \o Named("aws") \o Named("azure"), "lowest_cost", "catalogue")
      BY <3>3, <3>4 DEF Config
    <3>5. CASE \E p \in Environment, prices \in {"none", "catalogue"} :
                   config = Config(p, <<"gcp">>, "ordered", prices)
      BY <3>5, RoutingAssumption DEF Config
    <3> QED
      BY <2>2, <3>4, <3>5 DEF FromEnvironment
  <2> QED
    BY <2>1, <2>2
<1>3. Order \in Seq(Name)
  BY <1>1, <1>2 DEF Order
<1> QED
  BY <1>2, <1>3, LenProperties, ElementOfSeq

\* What holds of a caller's locals holds while time passes.
LEMMA GoodLater ==
    ASSUME config' = config, listed' = listed, now \in Nat, now' \in Nat, now <= now',
           NEW c, NEW l, Good(c, l)
    PROVE  Good(c, l)'
<1>1. Order' = Order
  BY DEF Order
<1>2. Placed(c, l)'
  BY <1>1 DEF Good, Placed, Whose
<1>3. 0..now \subseteq (0..now)' /\ \A n \in Nat : n..now \subseteq n..now'
  OBVIOUS
<1>4. Timed(l, now)'
  BY <1>3 DEF Good, Timed
<1>5. l.asked \in Nat
  BY DEF Good, Timed
<1>6. Quoted(l, now)'
  <2> DEFINE parts == Parts(l.plan, l.job.spot)
             start == Start(l.asked, l.job.spot)
  <2>1. \A t, part : Unit(t, part)' = Unit(t, part)
    BY DEF Unit
  <2>2. start \in Nat
    BY <1>5, StartIs
  <2>3. \A n \in Nat : Window(l.plan, l.job.spot, n, now) \subseteq Window(l.plan, l.job.spot, n, now)'
    <3>1. ASSUME NEW n \in Nat
          PROVE  Window(l.plan, l.job.spot, n, now) \subseteq Window(l.plan, l.job.spot, n, now')
      BY WindowGrows
    <3>2. ASSUME NEW n \in Nat
          PROVE  Window(l.plan, l.job.spot, n, now)' = Window(l.plan, l.job.spot, n, now')
      BY <2>1 DEF Window
    <3> QED
      BY <3>1, <3>2
  <2>4. Quoted(l, now)
    BY DEF Good
  <2>5. l.pc = "read" =>
            DOMAIN l.found \subseteq DOMAIN parts
            /\ \A k \in DOMAIN l.found : \E t \in l.asked..now' : l.found[k] = Unit(t, parts[k])'
    BY <1>3, <1>5, <2>1, <2>4 DEF Quoted
  <2> HIDE DEF parts, start
  <2> QED
    BY <1>5, <2>2, <2>3, <2>4, <2>5 DEF Quoted, parts, start
<1>7. Tried(l)'
  BY <1>1 DEF Good, Tried, BestRoute, Passed, Barred
<1> QED
  BY <1>2, <1>4, <1>6, <1>7 DEF Good

LEMMA CacheLater ==
    ASSUME listed' = listed, cache' = cache, now \in Nat, now' \in Nat, now <= now', CacheIsListed
    PROVE  CacheIsListed'
<1> SUFFICES ASSUME NEW k \in DOMAIN cache
             PROVE  /\ cache[k].at \in 0..now' /\ cache[k].price \in Nat
                    /\ cache[k].price \in Window(k[1], k[2], cache[k].at, now)'
  BY DEF CacheIsListed
<1>1. /\ cache[k].at \in 0..now /\ cache[k].price \in Nat
      /\ cache[k].price \in Window(k[1], k[2], cache[k].at, now)
  BY DEF CacheIsListed
<1>2. PICK at \in Nat : at = cache[k].at
  BY <1>1
<1>3. Window(k[1], k[2], at, now) \subseteq Window(k[1], k[2], at, now')
  BY <1>2, WindowGrows
<1>4. Window(k[1], k[2], cache[k].at, now)' = Window(k[1], k[2], at, now')
  <2>1. \A t, part : Unit(t, part)' = Unit(t, part)
    BY DEF Unit
  <2> QED
    BY <1>2, <2>1 DEF Window
<1> QED
  BY <1>1, <1>2, <1>3, <1>4

\* A step that changes the locals of one caller leaves the rest as it was.
LEMMA GoStep ==
    ASSUME IInv, NEW c \in Caller, NEW r, r \in Locals, Good(c, r), Go(c, r),
           UNCHANGED <<config, listed, now>>, CacheIsListed'
    PROVE  IInv'
<1>1. call' = [call EXCEPT ![c] = r]
  BY DEF Go
<1>2. now \in Nat /\ now' \in Nat /\ now <= now'
  BY RoutingAssumption DEF IInv
<1>4. call' \in [Caller -> Locals]
  BY <1>1 DEF IInv
<1>5. ASSUME NEW d \in Caller PROVE Good(d, call[d])'
  <2>1. PICK l \in Locals : l = call'[d]
    BY <1>4
  <2>2. Good(d, l)
    BY <1>1, <2>1 DEF IInv
  <2>3. Good(d, l)'
    BY <1>2, <2>2, GoodLater
  <2> QED
    BY <2>1, <2>3
<1> QED
  BY <1>4, <1>5 DEF IInv

LEMMA LocalStep ==
    ASSUME IInv, NEW c \in Caller, NEW r, r \in Locals, Good(c, r), Local(c, r)
    PROVE  IInv'
<1>1. UNCHANGED <<config, listed, now, cache>> /\ Go(c, r)
  BY DEF Local
<1>2. now \in Nat /\ now' \in Nat /\ now <= now'
  BY <1>1, RoutingAssumption DEF IInv
<1>3. CacheIsListed'
  BY <1>1, <1>2, CacheLater DEF IInv
<1> QED
  BY <1>1, <1>3, GoStep

LEMMA NothingFound == <<>> \in Founds
<1>1. <<>> \in [{} -> Nat \cup {None}]
  OBVIOUS
<1>2. {} \in SUBSET (1..3)
  OBVIOUS
<1> QED
  BY <1>1, <1>2 DEF Founds

LEMMA IdleIs == Idle \in Locals
  BY NothingFound, EmptySeq DEF Idle, Locals, Plans

LEMMA FailedIs ==
    ASSUME IInv, NEW c \in Caller
    PROVE  Failed \in Locals /\ Good(c, Failed)
<1>1. Failed \in Locals
  BY IdleIs DEF Failed, Locals
<1>2. /\ Failed.pc = "failed" /\ Failed.op = None /\ Failed.job = None /\ Failed.next = 1
      /\ Failed.plan = None /\ Failed.asked = 0 /\ Failed.began = 0 /\ Failed.submitted = FALSE
  BY DEF Failed, Idle
<1>3. None \notin {"route", "run"} /\ now \in Nat
  BY RoutingAssumption DEF IInv
<1>4. Len(Order) \in Nat
  BY OrderIs DEF IInv
<1>5. Placed(c, Failed)
  BY <1>2, <1>3, <1>4 DEF Placed, Pricing
<1> QED
  BY <1>1, <1>2, <1>3, <1>5 DEF Good, Timed, Quoted, Tried

LEMMA ClientIs ==
    ASSUME IInv, NEW c \in Caller, NEW j \in Jobs[c], NEW p \in Provider
    PROVE  Client(j, p) \in Locals /\ Good(c, Client(j, p))
<1> DEFINE r == Client(j, p)
<1>1. r \in Locals
  <2>1. j \in UNION {Jobs[d] : d \in Caller}
    OBVIOUS
  <2> QED
    BY <2>1, IdleIs DEF Client, Locals
<1>2. /\ r.pc = "bound" /\ r.op = None /\ r.job = j /\ r.bound = p /\ r.next = 1
      /\ r.plan = None /\ r.asked = 0 /\ r.began = 0 /\ r.submitted = FALSE
  BY DEF Client, Idle
<1>3. None \notin {"route", "run"} /\ now \in Nat
  BY RoutingAssumption DEF IInv
<1>4. Len(Order) \in Nat
  BY OrderIs DEF IInv
<1> HIDE DEF r
<1>5. Placed(c, r)
  BY <1>2, <1>3, <1>4 DEF Placed, Pricing
<1>6. Good(c, r)
  BY <1>1, <1>2, <1>3, <1>5 DEF Good, Timed, Quoted, Tried
<1> QED
  BY <1>1, <1>6 DEF r

\* A caller in the middle of a plan: a run, or a route with a turn to take.
Open(c, l) ==
    /\ l \in Locals /\ l.job \in Jobs[c] /\ l.op \in {"route", "run"} /\ ~l.submitted
    /\ l.asked \in 0..now /\ l.began \in 0..now /\ l.next \in 1..(Len(Order) + 1)
    /\ l.op = "run" => l.bound \in Provider
    /\ l.op = "route" => /\ l.pc \in Pricing \cup {"next"} /\ l.next \in 1..Len(Order)
                         /\ Tried(l)

LEMMA FurtherFits ==
    ASSUME NEW l \in Locals
    PROVE  /\ Further(l) \in Locals
           /\ Further(l).pc = "next" /\ Further(l).op = l.op /\ Further(l).job = l.job
           /\ Further(l).next = l.next + 1 /\ Further(l).plan = None /\ Further(l).asked = 0
           /\ Further(l).began = l.began /\ Further(l).submitted = l.submitted
           /\ Further(l).skipped = l.skipped /\ Further(l).candidates = l.candidates
<1> DEFINE r == Further(l)
<1>1. None \in Plans
  BY DEF Plans
<1>2. r = [l EXCEPT !.pc = "next", !.next = l.next + 1,
                    !.plan = None, !.quote = None, !.asked = 0, !.found = <<>>]
  BY DEF Further, Locals
<1>3. l.next + 1 \in Nat /\ None \in Nat \cup {None}
  BY DEF Locals
<1> HIDE DEF r
<1>4. r \in Locals
  BY <1>1, <1>2, <1>3, NothingFound DEF Locals
<1>5. /\ r.pc = "next" /\ r.op = l.op /\ r.job = l.job
      /\ r.next = l.next + 1 /\ r.plan = None /\ r.asked = 0
      /\ r.began = l.began /\ r.submitted = l.submitted
      /\ r.skipped = l.skipped /\ r.candidates = l.candidates
  BY <1>2 DEF Locals
<1> QED
  BY <1>4, <1>5 DEF r

\* The locals of a caller that goes on to the next provider.
LEMMA FurtherIs ==
    ASSUME IInv, NEW c \in Caller, NEW l, Open(c, l), l.op = "route",
           NEW tried \in SUBSET Name, l.skipped \subseteq tried,
           NEW candidates \in Seq([plan : Plans, price : Nat \cup {None}]),
           DOMAIN l.candidates \subseteq DOMAIN candidates,
           \A i \in DOMAIN l.candidates : candidates[i] = l.candidates[i],
           config.selection = "ordered" =>
               candidates = <<>> /\ Order[l.next] \in tried /\ Barred(l.job, Order[l.next]),
           config.selection # "ordered" =>
               /\ Order[l.next] \in Provider =>
                      \E i \in DOMAIN candidates : candidates[i].plan.provider = Order[l.next]
               /\ \A i \in DOMAIN candidates :
                      candidates[i].price \in Nat /\ candidates[i].plan.provider \in Provider
    PROVE  LET r == [Further(l) EXCEPT !.skipped = tried, !.candidates = candidates]
           IN  r \in Locals /\ Good(c, r)
<1> DEFINE r == [Further(l) EXCEPT !.skipped = tried, !.candidates = candidates]
<1>0. l \in Locals /\ l.job \in Jobs[c] /\ ~l.submitted /\ l.next \in 1..Len(Order) /\ Len(Order) \in Nat
  BY OrderIs DEF Open, IInv
<1>1. r \in Locals
  <2>1. PICK f \in Locals : f = Further(l)
    BY <1>0, FurtherFits
  <2>2. r = [f EXCEPT !.skipped = tried, !.candidates = candidates]
    BY <2>1
  <2> QED
    BY <2>1, <2>2 DEF Locals
<1>2. /\ r.pc = "next" /\ r.op = "route" /\ r.job = l.job /\ r.next = l.next + 1
      /\ r.plan = None /\ r.asked = 0 /\ r.began = l.began /\ r.submitted = FALSE
      /\ r.skipped = tried /\ r.candidates = candidates
  BY <1>0, FurtherFits DEF Locals
<1> HIDE DEF r
<1>3. Placed(c, r)
  BY <1>0, <1>2 DEF Placed, Pricing
<1>4. Timed(r, now) /\ Quoted(r, now)
  BY <1>2 DEF Timed, Quoted, Open, IInv
<1>5. Tried(r)
  <2>1. \A j \in 1..(r.next - 1) : j \in 1..(l.next - 1) \/ j = l.next
    BY <1>0, <1>2
  <2>2. /\ \A j \in 1..(l.next - 1) :
               IF config.selection = "ordered" THEN Passed(l, Order[j])
               ELSE Order[j] \in Provider =>
                        \E i \in DOMAIN l.candidates : l.candidates[i].plan.provider = Order[j]
    BY DEF Open, Tried
  <2>3. \A j \in 1..(l.next - 1) :
               IF config.selection = "ordered" THEN Passed(r, Order[j])
               ELSE Order[j] \in Provider =>
                        \E i \in DOMAIN candidates : candidates[i].plan.provider = Order[j]
    <3>1. CASE config.selection = "ordered"
      BY <1>2, <2>2, <3>1 DEF Passed
    <3>2. CASE config.selection # "ordered"
      BY <2>2, <3>2
    <3> QED
      BY <3>1, <3>2
  <2> QED
    BY <1>2, <2>1, <2>3 DEF Tried, Passed, LookingUp
<1>6. Good(c, r)
  BY <1>3, <1>4, <1>5 DEF Good
<1> QED
  BY <1>1, <1>6 DEF r

\* A plan that fails leaves a bound client, a route that failed, or a route
\* with one provider more behind it.
LEMMA CaughtIs ==
    ASSUME IInv, NEW c \in Caller, NEW l, Open(c, l),
           config.selection = "ordered" /\ l.op = "route" => Barred(l.job, Order[l.next])
    PROVE  Caught(l) \in Locals /\ Good(c, Caught(l))
<1>0. l \in Locals /\ l.job \in Jobs[c] /\ l.op \in {"route", "run"}
  BY DEF Open
<1>1. CASE l.op = "run"
  <2>1. Caught(l) = Client(l.job, l.bound) /\ l.bound \in Provider
    BY <1>1 DEF Caught, Open
  <2> QED
    BY <1>0, <2>1, ClientIs
<1>2. CASE l.op = "route" /\ (config.pinned # None \/ config.selection = "lowest_cost")
  <2>1. Caught(l) = Failed
    BY <1>2 DEF Caught
  <2> QED
    BY <2>1, FailedIs
<1>3. CASE l.op = "route" /\ ~(config.pinned # None \/ config.selection = "lowest_cost")
  <2> DEFINE tried == l.skipped \cup {Order[l.next]}
  <2>1. Caught(l) = [Further(l) EXCEPT !.skipped = @ \cup {Order[l.next]}]
    BY <1>3 DEF Caught
  <2>2. Further(l).skipped = l.skipped /\ Further(l).candidates = l.candidates
    BY <1>0, FurtherFits
  <2>3. l.candidates \in Seq([plan : Plans, price : Nat \cup {None}]) /\ l.skipped \in SUBSET Name
    BY <1>0 DEF Locals
  <2>4. Further(l) \in Locals
    BY <1>0, FurtherFits
  <2>5. Caught(l) = [Further(l) EXCEPT !.skipped = tried, !.candidates = l.candidates]
    BY <2>1, <2>2, <2>4 DEF Locals
  <2>6. config.selection = "ordered"
    BY <1>3, OrderIs DEF IInv
  <2>7. l.candidates = <<>> /\ l.next \in 1..Len(Order) /\ Order[l.next] \in Name
    BY <1>3, <2>6, OrderIs DEF Open, Tried, IInv
  <2>8. tried \in SUBSET Name /\ l.skipped \subseteq tried /\ Order[l.next] \in tried
    BY <2>3, <2>7
  <2> HIDE DEF tried
  <2>9. /\ [Further(l) EXCEPT !.skipped = tried, !.candidates = l.candidates] \in Locals
        /\ Good(c, [Further(l) EXCEPT !.skipped = tried, !.candidates = l.candidates])
    BY <1>3, <2>3, <2>6, <2>7, <2>8, FurtherIs
  <2> QED
    BY <2>5, <2>9
<1> QED
  BY <1>0, <1>1, <1>2, <1>3

\* A provider whose turn it is has a plan that is priced next, or fails.
LEMMA PlannedIs ==
    ASSUME IInv, NEW c \in Caller, NEW l, Open(c, l), Whose(l) \in Provider
    PROVE  Planned(l, Whose(l)) \in Locals /\ Good(c, Planned(l, Whose(l)))
<1> DEFINE plan == ProviderPlan(Whose(l), l.job)
           r == [l EXCEPT !.pc = "ask", !.plan = plan, !.quote = None]
<1>0. l \in Locals /\ l.job \in Jobs[c] /\ l.op \in {"route", "run"} /\ ~l.submitted
  BY DEF Open
<1>1. CASE plan = None
  <2>1. Planned(l, Whose(l)) = Caught(l)
    BY <1>1 DEF Planned
  <2>2. l.op = "route" => Barred(l.job, Order[l.next])
    BY <1>1 DEF Barred, Whose
  <2> QED
    BY <2>1, <2>2, CaughtIs
<1>2. CASE plan # None
  <2>1. Planned(l, Whose(l)) = r
    BY <1>2 DEF Planned
  <2>2. plan \in Plans
    BY <1>0 DEF Plans
  <2> HIDE DEF plan
  <2>3. r \in Locals
    BY <1>0, <2>2 DEF Locals
  <2>4. /\ r.pc = "ask" /\ r.op = l.op /\ r.job = l.job /\ r.next = l.next /\ r.bound = l.bound
        /\ r.plan = plan /\ r.asked = l.asked /\ r.began = l.began /\ r.submitted = FALSE
        /\ r.skipped = l.skipped /\ r.candidates = l.candidates /\ r.quote = None
    BY <1>0 DEF Locals
  <2> HIDE DEF r
  <2>5. Whose(r) = Whose(l)
    BY <2>4 DEF Whose
  <2>6. Len(Order) \in Nat /\ l.next \in Nat
    BY <1>0, OrderIs DEF IInv, Locals
  <2>7. l.next \in 1..(Len(Order) + 1)
    BY DEF Open
  <2>8. Placed(c, r)
    BY <1>0, <1>2, <2>4, <2>5, <2>6, <2>7 DEF Placed, Pricing, Open, Whose, plan
  <2>9. Timed(r, now) /\ Quoted(r, now)
    BY <2>4 DEF Timed, Quoted, Open
  <2>10. Tried(r)
    BY <2>4 DEF Tried, Open, Pricing, Passed, LookingUp
  <2> QED
    BY <2>1, <2>3, <2>8, <2>9, <2>10 DEF Good
<1> QED
  BY <1>1, <1>2
-----------------------------------------------------------------------------
(* The steps.                                                              *)

LEMMA InvariantInit == Init => IInv
<1> SUFFICES ASSUME Init PROVE IInv
  OBVIOUS
<1>1. /\ config \in Programmed \cup FromEnvironment /\ listed \in Market
      /\ now = 0 /\ cache = <<>> /\ call = [c \in Caller |-> Idle]
  BY DEF Init
<1>2. /\ Idle.pc = "idle" /\ Idle.op = None /\ Idle.job = None /\ Idle.next = 1
      /\ Idle.plan = None /\ Idle.asked = 0 /\ Idle.began = 0 /\ Idle.submitted = FALSE
  BY DEF Idle
<1>3. None \notin {"route", "run"}
  BY RoutingAssumption
<1>4. Len(Order) \in Nat
  BY <1>1, OrderIs
<1>5. \A c \in Caller : Placed(c, Idle)
  BY <1>2, <1>3, <1>4 DEF Placed, Pricing
<1>6. \A c \in Caller : Good(c, Idle)
  BY <1>1, <1>2, <1>3, <1>5 DEF Good, Timed, Quoted, Tried
<1>7. CacheIsListed
  BY <1>1 DEF CacheIsListed
<1> QED
  BY <1>1, <1>6, <1>7, IdleIs, RoutingAssumption DEF IInv

LEMMA RouteStep == ASSUME IInv, NEW c \in Caller, Route(c) PROVE IInv'
<1> DEFINE l == call[c]
<1>1. PICK j \in Jobs[c] : Local(c, [l EXCEPT !.pc = "next", !.op = "route", !.job = j])
  BY DEF Route
<1> DEFINE r == [l EXCEPT !.pc = "next", !.op = "route", !.job = j]
<1>2. l = Idle /\ l \in Locals
  BY DEF Route, IInv, Good, Placed
<1>3. j \in UNION {Jobs[d] : d \in Caller}
  OBVIOUS
<1>4. r \in Locals
  BY <1>2, <1>3 DEF Locals
<1>5. /\ r.pc = "next" /\ r.op = "route" /\ r.job = j /\ r.next = 1 /\ r.plan = None
      /\ r.asked = 0 /\ r.began = 0 /\ r.submitted = FALSE /\ r.candidates = <<>>
  BY <1>2 DEF Idle
<1>6. Len(Order) \in Nat /\ now \in Nat
  BY OrderIs, RoutingAssumption DEF IInv
<1> HIDE DEF r, l
<1>7. Placed(c, r)
  BY <1>5, <1>6 DEF Placed, Pricing
<1>8. Good(c, r)
  BY <1>5, <1>6, <1>7 DEF Good, Timed, Quoted, Tried, LookingUp
<1> QED
  BY <1>1, <1>4, <1>8, LocalStep DEF r

LEMMA RouteToStep == ASSUME IInv, NEW c \in Caller, RouteTo(c) PROVE IInv'
<1>1. PICK j \in Jobs[c], p \in Provider : Local(c, Client(j, p))
  BY DEF RouteTo
<1> QED
  BY <1>1, ClientIs, LocalStep

\* The comparison of candidates has a result: the first of the cheapest.
LEMMA BestIs ==
    ASSUME NEW cs, NEW n \in Nat \ {0}, DOMAIN cs = 1..n, \A i \in 1..n : cs[i].price \in Nat
    PROVE  /\ Best(cs) \in 1..n
           /\ \A j \in 1..n : /\ cs[Best(cs)].price <= cs[j].price
                              /\ j < Best(cs) => cs[Best(cs)].price < cs[j].price
<1> DEFINE P == {cs[i].price : i \in 1..n}
           I == {i \in 1..n : cs[i].price = Min(P)}
<1>1. P \in SUBSET Nat /\ P # {}
  OBVIOUS
<1>2. Min(P) \in P /\ \A y \in P : Min(P) <= y
  BY <1>1, Least
<1> HIDE DEF P
<1>3. PICK m \in Nat : m = Min(P)
  BY <1>1, <1>2
<1>4. I \in SUBSET Nat /\ I # {}
  <2>1. PICK i \in 1..n : cs[i].price = Min(P)
    BY <1>2 DEF P
  <2>2. i \in I
    BY <2>1
  <2> QED
    BY <2>2
<1>5. Min(I) \in I /\ \A y \in I : Min(I) <= y
  BY <1>4, Least
<1>6. PICK b \in 1..n : b = Min(I)
  BY <1>5
<1>7. cs[b].price = m
  BY <1>3, <1>5, <1>6
<1>8. \A j \in 1..n : m <= cs[j].price
  BY <1>2, <1>3 DEF P
<1>9. \A j \in 1..n : cs[j].price = m => b <= j
  BY <1>3, <1>5, <1>6
<1>10. \A j \in 1..n : cs[b].price <= cs[j].price /\ (j < b => cs[b].price < cs[j].price)
  BY <1>7, <1>8, <1>9
<1> QED
  BY <1>10 DEF Best

LEMMA ChosenIs ==
    ASSUME IInv, NEW c \in Caller, NEW l \in Locals, Good(c, l), l.pc = "next", l.next > Len(Order)
    PROVE  Chosen(l) \in Locals /\ Good(c, Chosen(l))
<1>1. CASE Len(l.candidates) < 2
  <2>1. Chosen(l) = Failed
    BY <1>1 DEF Chosen
  <2> QED
    BY <2>1, FailedIs
<1>2. CASE ~(Len(l.candidates) < 2)
  <2> DEFINE cs == l.candidates
             n == Len(cs)
             best == cs[Best(cs)].plan.provider
             r == [l EXCEPT !.pc = "bound", !.bound = best]
  <2>1. Chosen(l) = r
    BY <1>2 DEF Chosen
  <2>2. cs \in Seq([plan : Plans, price : Nat \cup {None}]) /\ l.next \in Nat
    BY DEF Locals
  <2>3. n \in Nat \ {0} /\ DOMAIN cs = 1..n
    BY <1>2, <2>2, LenProperties
  <2>4. l.op = "route" /\ config.selection # "ordered"
    <3>1. l.op = "route" /\ Tried(l)
      BY DEF Good, Placed
    <3>2. cs # <<>>
      BY <1>2, EmptySeq
    <3> QED
      BY <3>1, <3>2 DEF Tried
  <2>5. \A i \in 1..n : cs[i].price \in Nat /\ cs[i].plan.provider \in Provider
    BY <2>3, <2>4 DEF Good, Tried
  <2>6. /\ Best(cs) \in 1..n
        /\ \A j \in 1..n : /\ cs[Best(cs)].price <= cs[j].price
                           /\ j < Best(cs) => cs[Best(cs)].price < cs[j].price
    BY <2>3, <2>5, BestIs
  <2>7. best \in Provider
    BY <2>5, <2>6
  <2>8. Len(Order) \in Nat /\ DOMAIN Order = 1..Len(Order) /\ l.next = Len(Order) + 1
    BY <2>2, OrderIs DEF IInv, Good, Placed
  <2>9. PICK b \in 1..n : b = Best(cs)
    BY <2>6
  <2> HIDE DEF cs, n
  <2>10. r \in Locals
    BY <2>7 DEF Locals
  <2>11. /\ r.pc = "bound" /\ r.op = "route" /\ r.job = l.job /\ r.next = l.next /\ r.bound = best
         /\ r.plan = l.plan /\ r.asked = l.asked /\ r.began = l.began /\ r.submitted = l.submitted
         /\ r.candidates = cs /\ r.skipped = l.skipped
    BY <2>4 DEF Locals, cs
  <2>12. r.submitted = FALSE
    BY <2>4, <2>11 DEF Good, Placed, Locals
  <2>13. BestRoute(r)
    <3>1. \A p \in ToSet(Order) \cap Provider : \E i \in 1..n : cs[i].plan.provider = p
      <4>1. \A j \in 1..Len(Order) : Order[j] \in Provider =>
                \E i \in DOMAIN cs : cs[i].plan.provider = Order[j]
        BY <2>4, <2>8 DEF Good, Tried, cs
      <4> QED
        BY <2>3, <2>8, <4>1 DEF ToSet
    <3>2. cs[b].plan.provider = r.bound
      BY <2>9, <2>11
    <3>3. \A j \in 1..n : cs[j].price > cs[b].price \/ (cs[j].price = cs[b].price /\ j >= b)
      BY <2>3, <2>5, <2>6, <2>9
    <3> HIDE DEF r, best
    <3> QED
      BY <2>3, <2>4, <2>11, <3>1, <3>2, <3>3 DEF BestRoute
  <2> HIDE DEF r, best
  <2>14. Placed(c, r)
    BY <2>7, <2>11, <2>12 DEF Good, Placed, Pricing
  <2>15. Timed(r, now) /\ Quoted(r, now)
    BY <2>11, <2>12 DEF Good, Timed, Quoted
  <2>16. Tried(r)
    BY <2>4, <2>11, <2>13 DEF Good, Tried, Pricing, cs, LookingUp
  <2> QED
    BY <2>1, <2>10, <2>14, <2>15, <2>16 DEF Good
<1> QED
  BY <1>1, <1>2

LEMMA NextProviderStep == ASSUME IInv, NEW c \in Caller, NextProvider(c) PROVE IInv'
<1> DEFINE p == Order[call[c].next]
<1>1. PICK l \in Locals : l = call[c]
  BY DEF IInv
<1>2. Good(c, l) /\ l.pc = "next"
  BY <1>1 DEF IInv, NextProvider
<1>3. Len(Order) \in Nat /\ l.next \in Nat /\ \A i \in 1..Len(Order) : Order[i] \in Name
  BY OrderIs DEF IInv, Locals
<1>4. CASE l.next > Len(Order)
  <2>1. Local(c, Chosen(l))
    BY <1>1, <1>2, <1>3, <1>4 DEF NextProvider
  <2> QED
    BY <1>2, <1>4, <2>1, ChosenIs, LocalStep
<1>5. CASE l.next <= Len(Order)
  <2>1. Open(c, l) /\ l.op = "route" /\ l.next \in 1..Len(Order)
    BY <1>2, <1>3, <1>5 DEF Open, Good, Placed, Timed, Pricing, Locals
  <2>2. CASE p \notin Provider
    <3>1. CASE config.pinned # None
      <4>1. Local(c, Failed)
        BY <1>1, <1>2, <1>3, <1>5, <2>2, <3>1 DEF NextProvider
      <4> QED
        BY <4>1, FailedIs, LocalStep
    <3>2. CASE config.pinned = None
      <4> DEFINE tried == l.skipped \cup {p}
                 r == [Further(l) EXCEPT !.skipped = tried, !.candidates = l.candidates]
      <4>1. Local(c, [Further(l) EXCEPT !.skipped = @ \cup {p}])
        BY <1>1, <1>2, <1>3, <1>5, <2>2, <3>2 DEF NextProvider
      <4>2. PICK f \in Locals : f = Further(l)
        BY FurtherFits
      <4>3. f.skipped = l.skipped /\ f.candidates = l.candidates
        BY <4>2, FurtherFits
      <4>4. [f EXCEPT !.skipped = @ \cup {p}] = [f EXCEPT !.skipped = tried, !.candidates = l.candidates]
        BY <4>3 DEF Locals
      <4>5. Local(c, r)
        BY <4>1, <4>2, <4>4
      <4>6. l.candidates \in Seq([plan : Plans, price : Nat \cup {None}]) /\ l.skipped \in SUBSET Name
        BY DEF Locals
      <4>7. tried \in SUBSET Name /\ l.skipped \subseteq tried /\ Order[l.next] \in tried
            /\ Order[l.next] \notin Provider /\ Barred(l.job, Order[l.next])
        BY <1>1, <1>3, <2>1, <2>2, <4>6 DEF Barred
      <4>8. /\ config.selection = "ordered" => l.candidates = <<>>
            /\ config.selection # "ordered" => \A i \in DOMAIN l.candidates :
                   l.candidates[i].price \in Nat /\ l.candidates[i].plan.provider \in Provider
        BY <1>2, <2>1 DEF Good, Tried
      <4> HIDE DEF tried
      <4>9. r \in Locals /\ Good(c, r)
        BY <2>1, <4>6, <4>7, <4>8, FurtherIs
      <4> HIDE DEF r
      <4> QED
        BY <4>5, <4>9, LocalStep
    <3> QED
      BY <3>1, <3>2
  <2>3. CASE p \in Provider
    <3>1. Whose(l) = p
      BY <1>1, <2>1 DEF Whose
    <3>2. Local(c, Planned(l, Whose(l)))
      BY <1>1, <1>2, <1>3, <1>5, <2>3, <3>1 DEF NextProvider
    <3> QED
      BY <2>1, <2>3, <3>1, <3>2, PlannedIs, LocalStep
  <2> QED
    BY <2>2, <2>3
<1> QED
  BY <1>3, <1>4, <1>5

\* A caller that prices a plan.
LEMMA PricingIs ==
    ASSUME IInv, NEW c \in Caller, NEW l \in Locals, Good(c, l), l.pc \in Pricing
    PROVE  LET parts == Parts(l.plan, l.job.spot)
           IN  /\ Open(c, l) /\ Whose(l) \in Provider
               /\ DOMAIN parts \subseteq 1..3 /\ (parts = <<>> <=> DOMAIN parts = {})
               /\ \A k \in DOMAIN parts : parts[k].quantity \in Nat
               /\ \A k \in DOMAIN parts, t \in 0..now : Unit(t, parts[k]) \in Nat \cup {None}
<1>1. Len(Order) \in Nat /\ l.next \in Nat
  BY OrderIs DEF IInv, Locals
<1>2. l.pc \notin {"idle", "next", "bound", "failed"}
  BY DEF Pricing
<1>3. l.submitted = FALSE
  BY <1>2 DEF Good, Placed, Locals
<1>4. Open(c, l)
  BY <1>1, <1>2, <1>3 DEF Open, Good, Placed, Timed
<1>5. Whose(l) \in Provider /\ l.plan = ProviderPlan(Whose(l), l.job) /\ l.plan # None /\ l.job \in Jobs[c]
  BY <1>2 DEF Good, Placed, Whose
<1>6. l.job.cpus \in Nat /\ l.job.memory \in Nat /\ l.job.count \in Nat
  BY <1>5, RoutingAssumption
<1>7. 0..now \subseteq 0..MaxTime
  BY RoutingAssumption DEF IInv
<1>8. \A t \in 0..now : \A part : Unit(t, part) \in Nat \cup {None}
  BY <1>7, UnitIs DEF IInv
<1> QED
  BY <1>4, <1>5, <1>6, <1>8, PartsAre

\* A step from one state of pricing to the next changes what is known of the
\* price and nothing else.
SamePlan(l, r) ==
    /\ r.pc \in Pricing \ {"ask"} /\ r.op = l.op /\ r.job = l.job /\ r.bound = l.bound
    /\ r.next = l.next /\ r.candidates = l.candidates /\ r.skipped = l.skipped
    /\ r.plan = l.plan /\ r.began = l.began /\ r.submitted = l.submitted
    /\ r.asked \in {l.asked, now} /\ (l.pc = "ask" => r.asked = now)
    /\ r.pc \in LookingUp => l.pc \in LookingUp \/ config.prices = "catalogue"

LEMMA PricingStep ==
    ASSUME IInv, NEW c \in Caller, NEW l \in Locals, Good(c, l), l.pc \in Pricing,
           NEW r, SamePlan(l, r), Quoted(r, now)
    PROVE  Good(c, r)
<1>1. Placed(c, r)
  BY DEF Good, Placed, Pricing, Whose, SamePlan
<1>2. Timed(r, now)
  BY RoutingAssumption DEF Good, Timed, Pricing, IInv, SamePlan
<1>3. Tried(r)
  BY DEF Good, Tried, Pricing, SamePlan, Passed, LookingUp
<1> QED
  BY <1>1, <1>2, <1>3 DEF Good

LEMMA AskStep == ASSUME IInv, NEW c \in Caller, Ask(c) PROVE IInv'
<1>1. PICK l \in Locals : l = call[c]
  BY DEF IInv
<1>2. Good(c, l) /\ l.pc = "ask" /\ l.quote = None /\ l.submitted = FALSE
  BY <1>1 DEF IInv, Ask, Good, Quoted, Placed, Locals
<1> DEFINE parts == Parts(l.plan, l.job.spot)
           listing == [k \in DOMAIN parts |-> Unit(now, parts[k])]
           told == Total(parts, listing)
           looks == [l EXCEPT !.pc = "lookup", !.asked = now]
           free == [l EXCEPT !.pc = "priced", !.asked = now]
           quoted == [l EXCEPT !.pc = "priced", !.asked = now, !.quote = told]
<1>3. Open(c, l) /\ now \in Nat /\ l.pc \in Pricing
  BY <1>2, PricingIs, RoutingAssumption DEF Pricing, IInv
<1>4. \/ Local(c, looks) /\ config.prices = "catalogue"
      \/ Local(c, free) \/ Local(c, quoted)
      \/ Local(c, Caught(l)) /\ config.prices = "estimator" /\ l.plan.accelerator # None
  BY <1>1 DEF Ask
<1>5. told \in Nat \cup {None}
  <2>1. /\ DOMAIN parts \subseteq 1..3 /\ \A k \in DOMAIN parts : parts[k].quantity \in Nat
        /\ \A k \in DOMAIN parts, t \in 0..now : Unit(t, parts[k]) \in Nat \cup {None}
    BY <1>2, <1>3, PricingIs
  <2> HIDE DEF parts
  <2>2. \A k \in DOMAIN parts : listing[k] \in Nat \cup {None}
    BY <1>3, <2>1
  <2> HIDE DEF listing
  <2> QED
    BY <2>1, <2>2, TotalIs
<1>6. told \in Window(l.plan, l.job.spot, Start(now, l.job.spot), now)
  <2>1. listing = [k \in DOMAIN parts |-> listing[k]]
        /\ \A k \in DOMAIN parts : \E t \in now..now : listing[k] = Unit(t, parts[k])
    BY <1>3
  <2> HIDE DEF listing
  <2>2. told \in Window(l.plan, l.job.spot, now, now)
    BY <2>1, TotalInWindow
  <2>3. Start(now, l.job.spot) \in Nat /\ Start(now, l.job.spot) <= now
    BY <1>3, StartIs
  <2>4. Window(l.plan, l.job.spot, now, now) \subseteq Window(l.plan, l.job.spot, Start(now, l.job.spot), now)
    BY <1>3, <2>3, WindowGrows
  <2> QED
    BY <2>2, <2>4
<1> HIDE DEF told
<1>7. CASE Local(c, looks) /\ config.prices = "catalogue"
  <2>1. looks \in Locals
    BY <1>3 DEF Locals
  <2>2. Good(c, looks)
    <3>1. /\ looks.pc = "lookup" /\ looks.op = l.op /\ looks.job = l.job /\ looks.bound = l.bound
          /\ looks.next = l.next /\ looks.candidates = l.candidates /\ looks.skipped = l.skipped
          /\ looks.plan = l.plan /\ looks.began = l.began /\ looks.submitted = FALSE
          /\ looks.asked = now /\ looks.quote = None
      BY <1>2 DEF Locals
    <3> HIDE DEF looks
    <3>2. Quoted(looks, now)
      BY <3>1 DEF Quoted
    <3>3. SamePlan(l, looks)
      BY <1>2, <1>7, <3>1 DEF SamePlan, Pricing, LookingUp
    <3> QED
      BY <1>2, <1>3, <3>2, <3>3, PricingStep
  <2> HIDE DEF looks
  <2> QED
    BY <1>7, <2>1, <2>2, LocalStep
<1>8. CASE Local(c, free)
  <2>1. free \in Locals
    BY <1>3 DEF Locals
  <2>2. Good(c, free)
    <3>1. /\ free.pc = "priced" /\ free.op = l.op /\ free.job = l.job /\ free.bound = l.bound
          /\ free.next = l.next /\ free.candidates = l.candidates /\ free.skipped = l.skipped
          /\ free.plan = l.plan /\ free.began = l.began /\ free.submitted = FALSE
          /\ free.asked = now /\ free.quote = None
      BY <1>2 DEF Locals
    <3> HIDE DEF free
    <3>2. Quoted(free, now)
      BY <3>1 DEF Quoted
    <3>3. SamePlan(l, free)
      BY <1>2, <3>1 DEF SamePlan, Pricing, LookingUp
    <3> QED
      BY <1>2, <1>3, <3>2, <3>3, PricingStep
  <2> HIDE DEF free
  <2> QED
    BY <1>8, <2>1, <2>2, LocalStep
<1>9. CASE Local(c, quoted)
  <2>1. quoted \in Locals
    BY <1>3, <1>5 DEF Locals
  <2>2. Good(c, quoted)
    <3>1. /\ quoted.pc = "priced" /\ quoted.op = l.op /\ quoted.job = l.job /\ quoted.bound = l.bound
          /\ quoted.next = l.next /\ quoted.candidates = l.candidates /\ quoted.skipped = l.skipped
          /\ quoted.plan = l.plan /\ quoted.began = l.began /\ quoted.submitted = FALSE
          /\ quoted.asked = now /\ quoted.quote = told
      BY <1>2 DEF Locals
    <3> HIDE DEF quoted
    <3>2. Quoted(quoted, now)
      BY <1>6, <3>1 DEF Quoted
    <3>3. SamePlan(l, quoted)
      BY <1>2, <3>1 DEF SamePlan, Pricing, LookingUp
    <3> QED
      BY <1>2, <1>3, <3>2, <3>3, PricingStep
  <2> HIDE DEF quoted
  <2> QED
    BY <1>9, <2>1, <2>2, LocalStep
<1>10. CASE Local(c, Caught(l)) /\ config.prices = "estimator" /\ l.plan.accelerator # None
  <2>1. l.op = "route" => l.plan = ProviderPlan(Order[l.next], l.job)
    BY <1>2, <1>3 DEF Good, Placed, Whose
  <2>2. l.op = "route" => Barred(l.job, Order[l.next])
    BY <1>10, <2>1 DEF Barred
  <2> QED
    BY <1>3, <1>10, <2>2, CaughtIs, LocalStep
<1> QED
  BY <1>4, <1>7, <1>8, <1>9, <1>10

\* A cached total that is given out was read within its time to live.
LEMMA LookupStep == ASSUME IInv, NEW c \in Caller, Lookup(c) PROVE IInv'
<1>1. PICK l \in Locals : l = call[c]
  BY DEF IInv
<1>2. Good(c, l) /\ l.pc = "lookup" /\ l.quote = None /\ l.submitted = FALSE
  BY <1>1 DEF IInv, Lookup, Good, Quoted, Placed, Locals
<1> DEFINE key == Key(l.plan, l.job.spot)
           hit == [l EXCEPT !.pc = "priced", !.quote = cache[key].price]
           miss == [l EXCEPT !.pc = "read", !.found = <<>>]
<1>3. Open(c, l) /\ now \in Nat /\ l.pc \in Pricing /\ l.asked \in 0..now
  BY <1>2, PricingIs, RoutingAssumption DEF Pricing, IInv, Open
<1>4. CASE key \in DOMAIN cache /\ l.asked < cache[key].at + TtlOf(l.job.spot)
  <2>1. Local(c, hit)
    BY <1>1, <1>4 DEF Lookup
  <2>2. /\ cache[key].at \in 0..now /\ cache[key].price \in Nat
        /\ cache[key].price \in Window(l.plan, l.job.spot, cache[key].at, now)
    BY <1>4 DEF IInv, CacheIsListed, Key
  <2>3. PICK at \in Nat, price \in Nat : at = cache[key].at /\ price = cache[key].price
    BY <2>2
  <2>4. Start(l.asked, l.job.spot) \in Nat /\ Start(l.asked, l.job.spot) <= at
    BY <1>3, <1>4, <2>3, RoutingAssumption DEF Start, TtlOf
  <2>5. Window(l.plan, l.job.spot, at, now) \subseteq
            Window(l.plan, l.job.spot, Start(l.asked, l.job.spot), now)
    BY <1>3, <2>4, WindowGrows
  <2>6. hit \in Locals
    BY <2>3 DEF Locals
  <2>7. /\ hit.pc = "priced" /\ hit.op = l.op /\ hit.job = l.job /\ hit.bound = l.bound
        /\ hit.next = l.next /\ hit.candidates = l.candidates /\ hit.skipped = l.skipped
        /\ hit.plan = l.plan /\ hit.began = l.began /\ hit.submitted = FALSE
        /\ hit.asked = l.asked /\ hit.quote = price
    BY <1>2, <2>3 DEF Locals
  <2> HIDE DEF hit, key
  <2>8. Quoted(hit, now)
    BY <2>2, <2>3, <2>5, <2>7 DEF Quoted
  <2>9. Good(c, hit)
    <3>1. SamePlan(l, hit)
      BY <1>2, <2>7 DEF SamePlan, Pricing, LookingUp
    <3> QED
      BY <1>2, <1>3, <2>8, <3>1, PricingStep
  <2> QED
    BY <2>1, <2>6, <2>9, LocalStep
<1>5. CASE ~(key \in DOMAIN cache /\ l.asked < cache[key].at + TtlOf(l.job.spot))
  <2>1. Local(c, miss)
    BY <1>1, <1>5 DEF Lookup
  <2>2. miss \in Locals
    BY NothingFound DEF Locals
  <2>3. /\ miss.pc = "read" /\ miss.op = l.op /\ miss.job = l.job /\ miss.bound = l.bound
        /\ miss.next = l.next /\ miss.candidates = l.candidates /\ miss.skipped = l.skipped
        /\ miss.plan = l.plan /\ miss.began = l.began /\ miss.submitted = FALSE
        /\ miss.asked = l.asked /\ miss.quote = None /\ miss.found = <<>>
    BY <1>2 DEF Locals
  <2> HIDE DEF miss
  <2>4. DOMAIN miss.found = {}
    BY <2>3
  <2>5. Quoted(miss, now)
    BY <2>3, <2>4 DEF Quoted
  <2>6. Good(c, miss)
    <3>1. SamePlan(l, miss)
      BY <1>2, <2>3 DEF SamePlan, Pricing, LookingUp
    <3> QED
      BY <1>2, <1>3, <2>5, <3>1, PricingStep
  <2> QED
    BY <2>1, <2>2, <2>6, LocalStep
<1> QED
  BY <1>4, <1>5

\* A part that is read was listed while the price was asked for, and so was the
\* total when the last has been read.
LEMMA ReadStep == ASSUME IInv, NEW c \in Caller, Read(c) PROVE IInv'
<1>1. PICK l \in Locals : l = call[c]
  BY DEF IInv
<1>2. Good(c, l) /\ l.pc = "read" /\ l.quote = None /\ l.submitted = FALSE
  BY <1>1 DEF IInv, Read, Good, Quoted, Placed, Locals
<1> DEFINE parts == Parts(l.plan, l.job.spot)
           found(k) == [i \in DOMAIN l.found \cup {k} |->
                           IF i = k THEN Unit(now, parts[k]) ELSE l.found[i]]
           more(k) == [l EXCEPT !.found = found(k)]
           told == Total(parts, l.found)
           all == [l EXCEPT !.pc = "store", !.quote = told]
<1>3. Open(c, l) /\ now \in Nat /\ l.pc \in Pricing /\ l.asked \in 0..now
  BY <1>2, PricingIs, RoutingAssumption DEF Pricing, IInv, Open
<1>4. /\ DOMAIN parts \subseteq 1..3 /\ \A k \in DOMAIN parts : parts[k].quantity \in Nat
      /\ \A k \in DOMAIN parts, t \in 0..now : Unit(t, parts[k]) \in Nat \cup {None}
  BY <1>2, <1>3, PricingIs
<1>5. /\ DOMAIN l.found \subseteq DOMAIN parts
      /\ \A k \in DOMAIN l.found : \E t \in l.asked..now : l.found[k] = Unit(t, parts[k])
  BY <1>2 DEF Good, Quoted
<1>6. PICK ks \in SUBSET (1..3) : l.found \in [ks -> Nat \cup {None}]
  BY DEF Locals, Founds
<1>7. \/ \E k \in DOMAIN parts \ DOMAIN l.found : Local(c, more(k))
      \/ Local(c, Caught(l))
      \/ DOMAIN l.found = DOMAIN parts /\ Local(c, all)
  <2>1. \A k : [l EXCEPT !.found = [i \in DOMAIN @ \cup {k} |->
                                      IF i = k THEN Unit(now, parts[k]) ELSE @[i]]] = more(k)
    BY DEF Locals
  <2> HIDE DEF parts
  <2> QED
    BY <1>1, <2>1 DEF Read, parts
<1> HIDE DEF parts
<1>8. ASSUME NEW k \in DOMAIN parts \ DOMAIN l.found, Local(c, more(k)) PROVE IInv'
  <2> DEFINE f == found(k)
             r == more(k)
  <2>1. DOMAIN f = ks \cup {k} /\ ks \cup {k} \in SUBSET (1..3) /\ DOMAIN l.found = ks
    BY <1>4, <1>6
  <2>2. /\ f[k] = Unit(now, parts[k]) /\ f[k] \in Nat \cup {None}
        /\ \A i \in ks : f[i] = l.found[i] /\ f[i] \in Nat \cup {None}
    BY <1>3, <1>4, <1>6, <2>1
  <2>3. f \in [ks \cup {k} -> Nat \cup {None}]
    BY <2>1, <2>2
  <2>4. \A i \in DOMAIN f : \E t \in l.asked..now : f[i] = Unit(t, parts[i])
    BY <1>3, <1>5, <2>1, <2>2
  <2> HIDE DEF f
  <2>5. f \in Founds
    BY <2>1, <2>3 DEF Founds
  <2>6. r = [l EXCEPT !.found = f]
    BY DEF f
  <2> HIDE DEF r
  <2>7. r \in Locals
    BY <2>5, <2>6 DEF Locals
  <2>8. /\ r.pc = "read" /\ r.op = l.op /\ r.job = l.job /\ r.bound = l.bound
        /\ r.next = l.next /\ r.candidates = l.candidates /\ r.skipped = l.skipped
        /\ r.plan = l.plan /\ r.began = l.began /\ r.submitted = FALSE
        /\ r.asked = l.asked /\ r.quote = None /\ r.found = f
    BY <1>2, <2>6 DEF Locals
  <2>9. Quoted(r, now)
    BY <1>5, <2>1, <2>4, <2>8 DEF Quoted, parts
  <2>10. SamePlan(l, r)
    BY <1>2, <2>8 DEF SamePlan, Pricing, LookingUp
  <2>11. Good(c, r)
    BY <1>2, <1>3, <2>9, <2>10, PricingStep
  <2> QED
    BY <1>8, <2>7, <2>11, LocalStep DEF r
<1>9. CASE Local(c, Caught(l))
  <2>1. l.op = "route" => Barred(l.job, Order[l.next])
    BY <1>2 DEF Barred, Good, Tried, LookingUp
  <2> QED
    BY <1>3, <1>9, <2>1, CaughtIs, LocalStep
<1>10. CASE DOMAIN l.found = DOMAIN parts /\ Local(c, all)
  <2>1. l.found = [k \in DOMAIN parts |-> l.found[k]] /\ \A k \in DOMAIN parts : l.found[k] \in Nat \cup {None}
    BY <1>6, <1>10
  <2>2. told \in Nat \cup {None}
    BY <1>4, <2>1, TotalIs
  <2>3. told \in Window(l.plan, l.job.spot, l.asked, now)
    BY <1>5, <1>10, <2>1, TotalInWindow DEF parts
  <2> HIDE DEF told
  <2>4. all \in Locals
    BY <2>2 DEF Locals
  <2>5. /\ all.pc = "store" /\ all.op = l.op /\ all.job = l.job /\ all.bound = l.bound
        /\ all.next = l.next /\ all.candidates = l.candidates /\ all.skipped = l.skipped
        /\ all.plan = l.plan /\ all.began = l.began /\ all.submitted = FALSE
        /\ all.asked = l.asked /\ all.quote = told
    BY <1>2 DEF Locals
  <2> HIDE DEF all
  <2>6. Quoted(all, now)
    BY <2>3, <2>5 DEF Quoted
  <2>7. SamePlan(l, all)
    BY <1>2, <2>5 DEF SamePlan, Pricing, LookingUp
  <2>8. Good(c, all)
    BY <1>2, <1>3, <2>6, <2>7, PricingStep
  <2> QED
    BY <1>10, <2>4, <2>8, LocalStep
<1> QED
  BY <1>7, <1>8, <1>9, <1>10

\* An entry of the cache carries a total of the time since it was asked for.
LEMMA StoreStep == ASSUME IInv, NEW c \in Caller, Store(c) PROVE IInv'
<1>1. PICK l \in Locals : l = call[c]
  BY DEF IInv
<1>2. Good(c, l) /\ l.pc = "store" /\ l.submitted = FALSE
  BY <1>1 DEF IInv, Store, Good, Placed, Locals
<1> DEFINE key == Key(l.plan, l.job.spot)
           start == Start(l.asked, l.job.spot)
           r == [l EXCEPT !.pc = "priced", !.found = <<>>]
<1>3. Open(c, l) /\ now \in Nat /\ l.pc \in Pricing /\ l.asked \in 0..now
  BY <1>2, PricingIs, RoutingAssumption DEF Pricing, IInv, Open
<1>4. l.quote \in Window(l.plan, l.job.spot, l.asked, now) /\ l.quote \in Nat \cup {None}
  BY <1>2 DEF Good, Quoted, Locals
<1>5. r \in Locals
  BY NothingFound DEF Locals
<1>6. Good(c, r)
  <2>1. /\ r.pc = "priced" /\ r.op = l.op /\ r.job = l.job /\ r.bound = l.bound
        /\ r.next = l.next /\ r.candidates = l.candidates /\ r.skipped = l.skipped
        /\ r.plan = l.plan /\ r.began = l.began /\ r.submitted = FALSE
        /\ r.asked = l.asked /\ r.quote = l.quote
    BY <1>2 DEF Locals
  <2> HIDE DEF r
  <2>2. start \in Nat /\ start <= l.asked
    BY <1>3, StartIs
  <2>3. Window(l.plan, l.job.spot, l.asked, now) \subseteq Window(l.plan, l.job.spot, start, now)
    BY <1>3, <2>2, WindowGrows
  <2>4. Quoted(r, now)
    BY <1>4, <2>1, <2>3 DEF Quoted
  <2>5. SamePlan(l, r)
    BY <1>2, <2>1 DEF SamePlan, Pricing, LookingUp
  <2> QED
    BY <1>2, <1>3, <2>4, <2>5, PricingStep
<1>7. UNCHANGED <<config, listed, now>> /\ Go(c, r)
  BY <1>1 DEF Store
<1>8. CacheIsListed'
  <2>1. CASE l.quote = None
    <3>1. cache' = cache
      BY <1>1, <2>1 DEF Store, Cacheable
    <3> QED
      BY <1>3, <1>7, <3>1, CacheLater DEF IInv
  <2>2. CASE l.quote # None
    <3>1. cache' = [k \in DOMAIN cache \cup {key} |-> IF k = key THEN Entry(l) ELSE cache[k]]
      BY <1>1, <2>2 DEF Store, Cacheable
    <3>2. Entry(l).at = l.asked /\ Entry(l).price = l.quote
      BY DEF Entry
    <3>3. key[1] = l.plan /\ key[2] = l.job.spot
      BY DEF Key
    <3> HIDE DEF key
    <3>4. ASSUME NEW k \in DOMAIN cache \cup {key}
          PROVE  /\ cache'[k].at \in 0..now /\ cache'[k].price \in Nat
                 /\ cache'[k].price \in Window(k[1], k[2], cache'[k].at, now)
      <4>1. CASE k = key
        BY <1>3, <1>4, <2>2, <3>1, <3>2, <3>3, <4>1
      <4>2. CASE k # key
        BY <3>1, <4>2 DEF IInv, CacheIsListed
      <4> QED
        BY <4>1, <4>2
    <3>5. \A a, b, f, t : Window(a, b, f, t)' = Window(a, b, f, t)
      BY <1>7, SameWindow
    <3>6. DOMAIN cache' = DOMAIN cache \cup {key}
      BY <3>1
    <3>7. \A k \in DOMAIN cache' : Window(k[1], k[2], cache[k].at, now)' = Window(k[1], k[2], cache'[k].at, now)
      BY <1>7, <3>5
    <3> QED
      BY <1>7, <3>4, <3>6, <3>7 DEF CacheIsListed
  <2> QED
    BY <2>1, <2>2
<1> HIDE DEF r
<1> QED
  BY <1>5, <1>6, <1>7, <1>8, GoStep

\* A price under the ceiling is submitted, ends a route in order, or joins the
\* candidates.
LEMMA ConcludeStep == ASSUME IInv, NEW c \in Caller, Conclude(c) PROVE IInv'
<1>1. PICK l \in Locals : l = call[c]
  BY DEF IInv
<1>2. Good(c, l) /\ l.pc = "priced" /\ l.submitted = FALSE
  BY <1>1 DEF IInv, Conclude, Good, Placed, Locals
<1>3. Open(c, l) /\ now \in Nat /\ l.pc \in Pricing /\ Whose(l) \in Provider
  BY <1>2, PricingIs, RoutingAssumption DEF Pricing, IInv
<1>4. Local(c, IF UnderCeiling(l) /\ Comparable(l) THEN Accepted(l) ELSE Caught(l))
  BY <1>1 DEF Conclude
<1>5. CASE ~(UnderCeiling(l) /\ Comparable(l))
  <2>1. config.selection = "ordered" => Barred(l.job, Order[l.next])
    BY <1>5 DEF Barred, UnderCeiling, Comparable
  <2> QED
    BY <1>3, <1>4, <1>5, <2>1, CaughtIs, LocalStep
<1>6. CASE UnderCeiling(l) /\ Comparable(l) /\ l.op = "run"
  <2> DEFINE r == [l EXCEPT !.pc = "bound", !.submitted = TRUE]
  <2>1. Local(c, r)
    BY <1>4, <1>6 DEF Accepted
  <2>2. r \in Locals
    BY DEF Locals
  <2>3. /\ r.pc = "bound" /\ r.op = "run" /\ r.job = l.job /\ r.bound = l.bound
        /\ r.next = l.next /\ r.plan = l.plan /\ r.began = l.began /\ r.submitted = TRUE
        /\ r.asked = l.asked /\ r.quote = l.quote
    BY <1>6 DEF Locals
  <2> HIDE DEF r
  <2>4. Placed(c, r)
    BY <1>2, <1>6, <2>3 DEF Good, Placed, Pricing
  <2>5. Timed(r, now)
    BY <1>2, <1>6, <2>3 DEF Good, Timed
  <2>6. UnderCeiling(r)
    BY <1>6, <2>3 DEF UnderCeiling
  <2>7. Quoted(r, now)
    BY <1>2, <2>3, <2>6 DEF Good, Quoted
  <2>8. Tried(r)
    BY <2>3 DEF Tried
  <2> QED
    BY <2>1, <2>2, <2>4, <2>5, <2>7, <2>8, LocalStep DEF Good
<1>7. CASE UnderCeiling(l) /\ Comparable(l) /\ l.op = "route" /\ config.selection = "ordered"
  <2> DEFINE r == [l EXCEPT !.pc = "bound", !.bound = l.plan.provider]
  <2>1. Local(c, r)
    BY <1>4, <1>7 DEF Accepted
  <2>2. l.plan.provider = Order[l.next] /\ Order[l.next] \in Provider /\ l.next \in 1..Len(Order)
    <3>1. Whose(l) = Order[l.next]
      BY <1>7 DEF Whose
    <3>2. l.plan = ProviderPlan(Whose(l), l.job) /\ l.plan # None /\ l.job \in Jobs[c]
      BY <1>2, <1>3 DEF Good, Placed
    <3>3. l.job.cpus \in Nat /\ l.job.memory \in Nat /\ l.job.count \in Nat
      BY <3>2, RoutingAssumption
    <3>4. l.plan.provider = Whose(l)
      BY <1>3, <3>2, <3>3, PlanIs
    <3> QED
      BY <1>3, <1>7, <3>1, <3>4 DEF Open
  <2>3. r \in Locals
    BY <2>2 DEF Locals
  <2>4. /\ r.pc = "bound" /\ r.op = "route" /\ r.job = l.job /\ r.bound = Order[l.next]
        /\ r.next = l.next /\ r.plan = l.plan /\ r.began = l.began /\ r.submitted = FALSE
        /\ r.asked = l.asked /\ r.candidates = l.candidates /\ r.skipped = l.skipped
    BY <1>2, <1>7, <2>2 DEF Locals
  <2> HIDE DEF r
  <2>5. Placed(c, r)
    BY <1>2, <1>7, <2>2, <2>4 DEF Good, Placed, Pricing
  <2>6. Timed(r, now) /\ Quoted(r, now)
    BY <1>2, <2>4 DEF Good, Timed, Quoted
  <2>7. DOMAIN Order = 1..Len(Order)
    BY OrderIs DEF IInv
  <2>8. \A j \in 1..(l.next - 1) : Passed(l, Order[j])
    BY <1>2, <1>3, <1>7 DEF Good, Tried
  <2>9. BestRoute(r)
    BY <1>7, <2>2, <2>4, <2>7, <2>8 DEF BestRoute, Passed
  <2>10. Tried(r)
    BY <1>2, <1>7, <2>4, <2>9 DEF Good, Tried, Pricing, LookingUp
  <2> QED
    BY <2>1, <2>3, <2>5, <2>6, <2>10, LocalStep DEF Good
<1>8. CASE UnderCeiling(l) /\ Comparable(l) /\ l.op = "route" /\ config.selection # "ordered"
  <2> DEFINE new == [plan |-> l.plan, price |-> l.quote]
             cs == Append(l.candidates, new)
             r == [Further(l) EXCEPT !.skipped = l.skipped, !.candidates = cs]
             S == [plan : Plans, price : Nat \cup {None}]
  <2>1. Local(c, [Further(l) EXCEPT !.candidates = Append(@, new)])
    BY <1>4, <1>8 DEF Accepted
  <2>2. PICK f \in Locals : f = Further(l)
    BY FurtherFits
  <2>3. f.skipped = l.skipped /\ f.candidates = l.candidates
    BY <2>2, FurtherFits
  <2>4. [f EXCEPT !.candidates = Append(@, new)] = [f EXCEPT !.skipped = l.skipped, !.candidates = cs]
    BY <2>3 DEF Locals
  <2>5. Local(c, r)
    BY <2>1, <2>2, <2>4
  <2>6. l.candidates \in Seq(S) /\ l.skipped \in SUBSET Name /\ new \in S
    BY DEF Locals
  <2>7. l.quote \in Nat /\ new.price \in Nat
    BY <1>8, RoutingAssumption DEF Comparable, Locals
  <2>8. l.plan.provider = Order[l.next] /\ Order[l.next] \in Provider
    <3>1. Whose(l) = Order[l.next]
      BY <1>8 DEF Whose
    <3>2. l.plan = ProviderPlan(Whose(l), l.job) /\ l.plan # None /\ l.job \in Jobs[c]
      BY <1>2, <1>3 DEF Good, Placed
    <3>3. l.job.cpus \in Nat /\ l.job.memory \in Nat /\ l.job.count \in Nat
      BY <3>2, RoutingAssumption
    <3>4. l.plan.provider = Whose(l)
      BY <1>3, <3>2, <3>3, PlanIs
    <3> QED
      BY <1>3, <3>1, <3>4
  <2> HIDE DEF S
  <2>9. PICK n \in Nat : n = Len(l.candidates)
    BY <2>6, LenProperties
  <2>10. DOMAIN l.candidates = 1..n
    BY <2>6, <2>9, LenProperties
  <2> HIDE DEF new
  <2>11. /\ cs \in Seq(S) /\ Len(cs) = n + 1 /\ cs[n + 1] = new
         /\ \A i \in 1..n : cs[i] = l.candidates[i]
    BY <2>6, <2>9, AppendProperties
  <2>12. DOMAIN cs = 1..(n + 1)
    BY <2>11, LenProperties
  <2> HIDE DEF cs
  <2>13. \A i \in DOMAIN l.candidates :
             l.candidates[i].price \in Nat /\ l.candidates[i].plan.provider \in Provider
    BY <1>2, <1>8 DEF Good, Tried
  <2>14. new.plan.provider = Order[l.next]
    BY <2>8 DEF new
  <2>15. \A i \in DOMAIN cs : cs[i].price \in Nat /\ cs[i].plan.provider \in Provider
    <3>1. ASSUME NEW i \in 1..n PROVE cs[i].price \in Nat /\ cs[i].plan.provider \in Provider
      BY <2>10, <2>11, <2>13
    <3>2. cs[n + 1].price \in Nat /\ cs[n + 1].plan.provider \in Provider
      BY <2>7, <2>8, <2>11, <2>14
    <3>3. \A i \in DOMAIN cs : i \in 1..n \/ i = n + 1
      BY <2>12
    <3> QED
      BY <3>1, <3>2, <3>3
  <2>16. \E i \in DOMAIN cs : cs[i].plan.provider = Order[l.next]
    <3>1. n + 1 \in DOMAIN cs
      BY <2>12
    <3> QED
      BY <2>11, <2>14, <3>1
  <2>17. DOMAIN l.candidates \subseteq DOMAIN cs /\ \A i \in DOMAIN l.candidates : cs[i] = l.candidates[i]
    BY <2>10, <2>11, <2>12
  <2>18. l.skipped \subseteq l.skipped
    OBVIOUS
  <2>19. r \in Locals /\ Good(c, r)
    BY <1>3, <1>8, <2>6, <2>11, <2>15, <2>16, <2>17, <2>18, FurtherIs DEF S
  <2> HIDE DEF r
  <2> QED
    BY <2>5, <2>19, LocalStep
<1> QED
  BY <1>3, <1>5, <1>6, <1>7, <1>8 DEF Open

\* A run plans again, from nothing but the job and the provider.
LEMMA RunStep == ASSUME IInv, NEW c \in Caller, Run(c) PROVE IInv'
<1>1. PICK l \in Locals : l = call[c]
  BY DEF IInv
<1>2. Good(c, l) /\ l.pc = "bound"
  BY <1>1 DEF IInv, Run
<1>3. l.job \in Jobs[c] /\ l.bound \in Provider
  BY <1>2 DEF Good, Placed
<1> DEFINE client == Client(l.job, l.bound)
           r == [client EXCEPT !.op = "run", !.began = now]
<1>4. client \in Locals
  BY <1>3, ClientIs
<1>5. /\ client.job = l.job /\ client.bound = l.bound /\ client.submitted = FALSE
      /\ client.next = 1 /\ client.asked = 0
  BY DEF Client, Idle
<1>6. now \in Nat /\ Len(Order) \in Nat
  BY OrderIs, RoutingAssumption DEF IInv
<1> HIDE DEF client
<1>7. r \in Locals
  BY <1>4, <1>6 DEF Locals
<1>8. /\ r.op = "run" /\ r.began = now /\ r.job = l.job /\ r.bound = l.bound
      /\ r.submitted = FALSE /\ r.next = 1 /\ r.asked = 0
  BY <1>4, <1>5 DEF Locals
<1>9. Local(c, Planned(r, l.bound))
  BY <1>1 DEF Run, Replan, client
<1> HIDE DEF r
<1>10. Open(c, r) /\ Whose(r) = l.bound
  BY <1>3, <1>6, <1>7, <1>8 DEF Open, Whose
<1> QED
  BY <1>3, <1>9, <1>10, PlannedIs, LocalStep

LEMMA TickStep == ASSUME IInv, Tick PROVE IInv'
<1>1. /\ UNCHANGED <<config, listed, cache, call>>
      /\ now \in Nat /\ now' \in Nat /\ now <= now' /\ now' \in 0..MaxTime
  BY RoutingAssumption DEF Tick, IInv
<1>2. CacheIsListed'
  BY <1>1, CacheLater DEF IInv
<1>3. ASSUME NEW c \in Caller PROVE Good(c, call[c])'
  <2>1. PICK l : l = call[c]
    OBVIOUS
  <2>2. Good(c, l)'
    BY <1>1, <2>1, GoodLater DEF IInv
  <2> QED
    BY <1>1, <2>1, <2>2
<1> QED
  BY <1>1, <1>2, <1>3 DEF IInv

LEMMA StutterStep == ASSUME IInv, UNCHANGED vars PROVE IInv'
<1>1. /\ UNCHANGED <<config, listed, now, cache, call>>
      /\ now \in Nat /\ now' \in Nat /\ now <= now'
  BY RoutingAssumption DEF vars, IInv
<1>2. CacheIsListed'
  BY <1>1, CacheLater DEF IInv
<1>3. ASSUME NEW c \in Caller PROVE Good(c, call[c])'
  <2>1. PICK l : l = call[c]
    OBVIOUS
  <2>2. Good(c, l)'
    BY <1>1, <2>1, GoodLater DEF IInv
  <2> QED
    BY <1>1, <2>1, <2>2
<1> QED
  BY <1>1, <1>2, <1>3 DEF IInv

\* IInv holds in every state that the model reaches.
THEOREM Invariant == Spec => []IInv
<1>1. IInv /\ [Next]_vars => IInv'
  <2> SUFFICES ASSUME IInv, [Next]_vars PROVE IInv'
    OBVIOUS
  <2>1. ASSUME NEW c \in Caller,
               \/ Route(c) \/ RouteTo(c) \/ NextProvider(c) \/ Ask(c) \/ Lookup(c)
               \/ Read(c) \/ Store(c) \/ Conclude(c) \/ Run(c)
        PROVE  IInv'
    BY <2>1, RouteStep, RouteToStep, NextProviderStep, AskStep, LookupStep, ReadStep, StoreStep,
       ConcludeStep, RunStep
  <2> QED
    BY <2>1, TickStep, StutterStep DEF Next
<1> QED
  BY <1>1, InvariantInit, PTL DEF Spec
-----------------------------------------------------------------------------
(* The theorems.                                                           *)

\* The types of the variables: make_plan visits the configured providers and
\* no more, and only a quote is cached (Routing!TypeOK).
THEOREM TypeCorrect == Spec => []TypeOK
<1>1. IInv => TypeOK
  <2> SUFFICES ASSUME IInv PROVE TypeOK
    OBVIOUS
  <2>1. ASSUME NEW c \in Caller
        PROVE  /\ call[c].pc \in {"idle", "next", "ask", "lookup", "read", "store", "priced",
                                  "bound", "failed"}
               /\ call[c].op \in {None, "route", "run"} /\ call[c].job \in Jobs[c] \cup {None}
               /\ call[c].bound \in Provider \cup {None}
               /\ call[c].next \in 1..(Len(Order) + 1)
               /\ call[c].asked \in 0..now /\ call[c].quote \in Nat \cup {None}
    <3>1. PICK l \in Locals : l = call[c]
      BY DEF IInv
    <3>2. Placed(c, l) /\ Timed(l, now)
      BY <3>1 DEF IInv, Good
    <3> QED
      BY <3>1, <3>2 DEF Placed, Timed, Locals
  <2> QED
    BY <2>1 DEF TypeOK, IInv, CacheIsListed
<1> QED
  BY <1>1, Invariant, PTL

\* A quote is what this plan was listed at within its time to live, whichever
\* thread read and stored it (catalogue_price, pricing.hpp:514-547).
THEOREM QuoteFresh == Spec => []QuoteIsFresh
<1>1. IInv => QuoteIsFresh
  BY DEF IInv, Good, Quoted, QuoteIsFresh
<1> QED
  BY <1>1, Invariant, PTL

\* What is submitted under a ceiling had a price below it that was no older
\* than its time to live when run() was called (client.hpp:501-505).
THEOREM WithinCeiling == Spec => []SubmittedWithinCeiling
<1>1. IInv => SubmittedWithinCeiling
  <2> SUFFICES ASSUME IInv, NEW c \in Caller, call[c].submitted, call[c].job.ceiling # None
               PROVE  \E price \in Window(call[c].plan, call[c].job.spot,
                                          Start(call[c].began, call[c].job.spot), now) :
                          price # None /\ price <= call[c].job.ceiling
    BY DEF SubmittedWithinCeiling
  <2>1. PICK l \in Locals : l = call[c]
    BY DEF IInv
  <2>2. Placed(c, l) /\ Timed(l, now) /\ Quoted(l, now)
    BY <2>1 DEF IInv, Good
  <2>3. l.began \in Nat /\ l.asked \in Nat /\ l.began <= l.asked /\ now \in Nat
    BY <2>1, <2>2, RoutingAssumption DEF Placed, Timed, Locals, IInv
  <2>4. l.quote # None /\ l.quote <= l.job.ceiling
    BY <2>1, <2>2 DEF Quoted, UnderCeiling
  <2>5. l.quote \in Window(l.plan, l.job.spot, Start(l.asked, l.job.spot), now)
    BY <2>1, <2>2, <2>4 DEF Quoted
  <2>6. /\ Start(l.began, l.job.spot) \in Nat /\ Start(l.asked, l.job.spot) \in Nat
        /\ Start(l.began, l.job.spot) <= Start(l.asked, l.job.spot)
    BY <2>3, StartIs, StartGrows
  <2>7. Window(l.plan, l.job.spot, Start(l.asked, l.job.spot), now) \subseteq
            Window(l.plan, l.job.spot, Start(l.began, l.job.spot), now)
    BY <2>3, <2>6, WindowGrows
  <2> QED
    BY <2>1, <2>4, <2>5, <2>7
<1> QED
  BY <1>1, Invariant, PTL

\* make_plan ends at the first provider in order that nothing bars from the
\* job, or at the first of the cheapest with none left out (pricing.hpp:609-650).
THEOREM RouteBest == Spec => []RouteIsBest
<1>1. IInv => RouteIsBest
  BY DEF IInv, Good, Tried, BestRoute, RouteIsBest, Passed
<1> QED
  BY <1>1, Invariant, PTL

\* A plan holds its job in the smallest shape there is for it: of the tables
\* of plan.hpp for GCP and Azure, of Fargate's grid for mounted AWS jobs, and
\* with the accelerators asked for on a dedicated AWS queue.
THEOREM PlansFit == Spec => []PlanFits
<1>1. IInv => PlanFits
  <2> SUFFICES ASSUME IInv, NEW c \in Caller, call[c].plan # None
               PROVE  FitsJob(call[c].job, call[c].plan)
    BY DEF PlanFits, FitsJob, Sizes
  <2>1. PICK l \in Locals : l = call[c]
    BY DEF IInv
  <2>2. l.job \in Jobs[c] /\ \E p \in Provider : l.plan = ProviderPlan(p, l.job)
    BY <2>1 DEF IInv, Good, Placed
  <2>3. l.job.cpus \in Nat /\ l.job.memory \in Nat /\ l.job.count \in Nat
    BY <2>2, RoutingAssumption
  <2>4. FitsJob(l.job, l.plan)
    BY <2>1, <2>2, <2>3, PlanIs
  <2> QED
    BY <2>1, <2>4
<1> QED
  BY <1>1, Invariant, PTL
=============================================================================
