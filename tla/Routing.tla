------------------------------- MODULE Routing -------------------------------
(***************************************************************************)
(* A router and the clients it pins, with the price cache they share:      *)
(* make_plan, priced_plan and catalogue_price (detail/pricing.hpp), route  *)
(* and from_environment (router.hpp), and the planning half of run         *)
(* (client.hpp).  Several threads plan at a time while list prices change. *)
(***************************************************************************)
EXTENDS Planning

CONSTANTS
    Caller,         \* threads
    Jobs,           \* per thread: the jobs it may bring
    Programmed,     \* configurations written in C++
    Environment,    \* the providers with CLDMUX_* settings
    Market,         \* the courses unit prices may take, by tick
    MaxTime,        \* bound: ticks of the steady clock
    Ttl, SpotTtl    \* price_cache_ttl, spot_price_cache_ttl

\* The times to live are positive: the constructor of core refuses others
\* (detail/provider.hpp).  CPUs, memory and prices are never negative.
ASSUME RoutingAssumption ==
    /\ MaxTime \in Nat /\ Ttl \in Nat \ {0} /\ SpotTtl \in Nat \ {0}
    /\ None \notin Nat \cup Provider \cup Gpu \cup {"route", "run"}
    /\ \A c \in Caller : \A j \in Jobs[c] : j.cpus \in Nat /\ j.memory \in Nat /\ j.count \in Nat
    /\ Environment \subseteq Provider
    /\ \A k \in Programmed : k.pinned \in Provider \cup {None} /\ k.providers \in Seq(STRING)
                              /\ k.selection \in {"ordered", "lowest_cost"}
    /\ \A l \in Market : \A t \in 0..MaxTime : \A row \in DOMAIN l[t] : l[t][row] \in Nat

VARIABLES
    config,     \* how this router chooses and where its prices come from
    listed,     \* the unit prices by tick, past and to come
    now,        \* the steady clock
    cache,      \* price_cache: native shape and market -> [at, price]
    call        \* per caller: where it is and its locals

world == <<config, listed>>
vars == <<config, listed, now, cache, call>>
-----------------------------------------------------------------------------
(* Configuration                                                           *)

Config(pinned, providers, selection, prices) ==
    [pinned |-> pinned, providers |-> providers, selection |-> selection, prices |-> prices]

\* environment_aws() wants something it can price when prices are compared.
PricedAws ==
    \/ Setup.queue /\ Setup.machine # None
    \/ Setup.spotQueue /\ Setup.spotMachine # None /\ Setup.zone
    \/ \E g \in DOMAIN Setup.targets :
           Setup.targets[g].queue \/ (Setup.targets[g].spotQueue /\ Setup.zone)
    \/ Setup.fargateQueue \/ Setup.fargateSpotQueue

Named(p) == IF p \in Environment THEN <<p>> ELSE <<>>

\* config_from_environment(): the routers that can be built.
FromEnvironment ==
    {Config(p, <<"gcp">>, "ordered", prices) : p \in Environment, prices \in {"none", "catalogue"}}
    \cup (IF Cardinality(Environment) < 2 \/ ("aws" \in Environment /\ ~PricedAws) THEN {}
          ELSE {Config(None, Named("gcp") \o Named("aws") \o Named("azure"),
                       "lowest_cost", "catalogue")})

Order == IF config.pinned # None THEN <<config.pinned>> ELSE config.providers

Idle == [pc |-> "idle", op |-> None, job |-> None, bound |-> None, next |-> 1,
         candidates |-> <<>>, skipped |-> {}, plan |-> None, asked |-> 0, quote |-> None,
         found |-> <<>>, began |-> 0, submitted |-> FALSE]

Init == /\ config \in Programmed \cup FromEnvironment
        /\ listed \in Market
        /\ now = 0 /\ cache = <<>>
        /\ call = [c \in Caller |-> Idle]

\* The types of the variables.
TypeOK == /\ config \in Programmed \cup FromEnvironment /\ now \in 0..MaxTime
          /\ listed \in Market
          /\ \A k \in DOMAIN cache : cache[k].at \in 0..now /\ cache[k].price \in Nat
          /\ \A c \in Caller :
                /\ call[c].pc \in {"idle", "next", "ask", "lookup", "read", "store", "priced",
                                   "bound", "failed"}
                /\ call[c].op \in {None, "route", "run"} /\ call[c].job \in Jobs[c] \cup {None}
                /\ call[c].bound \in Provider \cup {None}
                /\ call[c].next \in 1..(Len(Order) + 1)
                /\ call[c].asked \in 0..now /\ call[c].quote \in Nat \cup {None}
-----------------------------------------------------------------------------
(* Prices                                                                  *)

Go(c, new) == call' = [call EXCEPT ![c] = new]
Local(c, new) == Go(c, new) /\ UNCHANGED <<config, listed, now, cache>>

\* The GiB per CPU, times 4, of the GCP families that are quoted.
GcpMemory == [f \in {"e2-standard", "g2-standard", "n1-standard"} |-> IF f = "n1-standard" THEN 15 ELSE 16]

\* gcp_, aws_fargate_, aws_ and azure_catalogue_price(): the list prices a
\* plan's price is composed of, with the quantity of each: three at most, none
\* at all where the code gives no quote.
Parts(p, spot) ==
    LET n == p.machine[2]
        part(name, quantity) == [row |-> <<name, spot>>, quantity |-> quantity]
        core == part(<<p.machine[1], "core">>, n)
        ram == part(<<p.machine[1], "ram">>, (n * GcpMemory[p.machine[1]]) \div 4)
    IN  IF p.provider = "gcp"
        THEN IF p.machine[1] \notin DOMAIN GcpMemory THEN <<>>
             ELSE IF p.accelerator = None THEN <<core, ram>>
             ELSE <<core, ram, part(<<p.accelerator, "gpu">>, p.count)>>
        ELSE IF p.machine = Fargate
        THEN IF spot THEN <<>>
             ELSE <<part(<<"fargate", "vcpu">>, p.cpus), part(<<"fargate", "gb">>, p.memory \div GiB)>>
        ELSE IF p.machine = BatchManaged \/ (p.provider = "aws" /\ spot /\ ~Setup.zone) THEN <<>>
        ELSE <<part(<<p.machine[1], "hour", n>>, 1)>>

Unit(t, part) == IF part.row \in DOMAIN listed[t] THEN listed[t][part.row] ELSE None

\* The total of the parts found, None when one is missing.
Cost(parts, found, k) == IF k \in DOMAIN parts THEN parts[k].quantity * found[k] ELSE 0
Total(parts, found) ==
    IF parts = <<>> \/ (\E k \in DOMAIN parts : found[k] = None) THEN None
    ELSE Cost(parts, found, 1) + Cost(parts, found, 2) + Cost(parts, found, 3)

\* The key of the cache: all that is billed.
KeyOfMachine(p, spot) == <<[p EXCEPT !.cpus = 0, !.memory = 0], spot>>   \* slip
Key(p, spot) == <<p, spot>>
TtlOf(spot) == IF spot THEN SpotTtl ELSE Ttl
Client(j, p) == [Idle EXCEPT !.pc = "bound", !.job = j, !.bound = p]
-----------------------------------------------------------------------------
(* make_plan: one provider after the other                                 *)

\* route(spec): a thread asks where a job should go.
Route(c) ==
    /\ call[c].pc = "idle"
    /\ \E j \in Jobs[c] : Local(c, [call[c] EXCEPT !.pc = "next", !.op = "route", !.job = j])

\* route(provider): the caller names a configured provider.
RouteTo(c) ==
    /\ call[c].pc = "idle"
    /\ \E j \in Jobs[c], p \in Provider :
          /\ p \in ToSet(Order)
          /\ Local(c, Client(j, p))

\* On to the next provider; the locals of the loop's body end.
Failed == [Idle EXCEPT !.pc = "failed"]
Further(l) == [l EXCEPT !.pc = "next", !.next = @ + 1,
                        !.plan = None, !.quote = None, !.asked = 0, !.found = <<>>]

\* The plan of one provider fails: run() throws, and so does make_plan unless
\* it may try the next provider.
Caught(l) ==
    CASE l.op = "run" -> Client(l.job, l.bound)
      [] l.op = "route" /\ (config.pinned # None \/ config.selection = "lowest_cost") -> Failed
      [] OTHER -> [Further(l) EXCEPT !.skipped = @ \cup {Order[l.next]}]

\* priced_plan() up to the price: the native shape of the provider.
Planned(l, p) == LET plan == ProviderPlan(p, l.job)
                 IN  IF plan = None THEN Caught(l)
                     ELSE [l EXCEPT !.pc = "ask", !.plan = plan, !.quote = None]

\* slip
BestLast(candidates) == CHOOSE i \in DOMAIN candidates :
    \A j \in DOMAIN candidates : /\ candidates[i].price <= candidates[j].price
                               /\ j > i => candidates[i].price < candidates[j].price

\* The first candidate among those of least price.
Best(candidates) ==
    CHOOSE i \in DOMAIN candidates :
        \A j \in DOMAIN candidates :
            /\ candidates[i].price <= candidates[j].price
            /\ j < i => candidates[i].price < candidates[j].price

\* Every provider is planned: the cheapest of at least two candidates.
Chosen(l) ==
    IF Len(l.candidates) < 2 THEN Failed
    ELSE [l EXCEPT !.pc = "bound", !.bound = l.candidates[Best(l.candidates)].plan.provider]

NextProvider(c) ==
    LET l == call[c]
        p == Order[l.next]
    IN  /\ l.pc = "next"
        /\ CASE l.next > Len(Order) -> Local(c, Chosen(l))
             [] l.next <= Len(Order) /\ p \notin Provider ->
                    Local(c, IF config.pinned # None THEN Failed
                             ELSE [Further(l) EXCEPT !.skipped = @ \cup {p}])
             [] OTHER -> Local(c, Planned(l, p))
-----------------------------------------------------------------------------
(* priced_plan: one price source                                           *)

\* A callback prices the plan, or the catalogue is asked, or nobody is.
Ask(c) ==
    LET l == call[c]
        parts == Parts(l.plan, l.job.spot)
        told == Total(parts, [k \in DOMAIN parts |-> Unit(now, parts[k])])
    IN  /\ l.pc = "ask"
        /\ CASE config.prices = "catalogue" -> Local(c, [l EXCEPT !.pc = "lookup", !.asked = now])
             [] config.prices = "none" -> Local(c, [l EXCEPT !.pc = "priced", !.asked = now])
             [] config.prices = "estimator" /\ l.plan.accelerator # None -> Local(c, Caught(l))
             [] OTHER -> Local(c, [l EXCEPT !.pc = "priced", !.asked = now, !.quote = told])

\* The cache, under its lock.  The clock was read before.
Lookup(c) ==
    LET l == call[c]
        key == Key(l.plan, l.job.spot)
    IN  /\ l.pc = "lookup"
        /\ IF key \in DOMAIN cache /\ l.asked < cache[key].at + TtlOf(l.job.spot)
           THEN Local(c, [l EXCEPT !.pc = "priced", !.quote = cache[key].price])
           ELSE Local(c, [l EXCEPT !.pc = "read", !.found = <<>>])

\* A page of the catalogue holds a part of the price.  A request that fails,
\* and rows that disagree, throw.
Read(c) ==
    LET l == call[c]
        parts == Parts(l.plan, l.job.spot)
    IN  /\ l.pc = "read"
        /\ \/ \E k \in DOMAIN parts \ DOMAIN l.found :
                 Local(c, [l EXCEPT !.found = [i \in DOMAIN @ \cup {k} |->
                                             IF i = k THEN Unit(now, parts[k]) ELSE @[i]]])
           \/ /\ parts # <<>> /\ DOMAIN l.found # DOMAIN parts
              /\ Local(c, Caught(l))
           \/ /\ DOMAIN l.found = DOMAIN parts
              /\ Local(c, [l EXCEPT !.pc = "store", !.quote = Total(parts, l.found)])

\* Only a quote is cached, at the time read before the lookup.
Entry(l) == [at |-> l.asked, price |-> l.quote]
CacheAnswers(l) == TRUE   \* slip
Cacheable(l) == l.quote # None
Store(c) ==
    LET l == call[c]
        key == Key(l.plan, l.job.spot)
    IN  /\ l.pc = "store"
        /\ cache' = IF ~Cacheable(l) THEN cache
                    ELSE [k \in DOMAIN cache \cup {key} |-> IF k = key THEN Entry(l) ELSE cache[k]]
        /\ Go(c, [l EXCEPT !.pc = "priced", !.found = <<>>])
        /\ UNCHANGED <<config, listed, now>>

\* slip
QuotedUnderCeiling(l) == l.quote # None /\ (l.job.ceiling = None \/ l.quote <= l.job.ceiling)

\* A ceiling wants a price below it.
UnderCeiling(l) == l.job.ceiling = None \/ (l.quote # None /\ l.quote <= l.job.ceiling)

\* The plan is priced: run() submits it, a route in order takes it, and the
\* cheapest route keeps it as a candidate.
Accepted(l) ==
    CASE l.op = "run" -> [l EXCEPT !.pc = "bound", !.submitted = TRUE]
      [] l.op = "route" /\ config.selection = "ordered" ->
            [l EXCEPT !.pc = "bound", !.bound = l.plan.provider]
      [] OTHER -> [Further(l) EXCEPT !.candidates = Append(@, [plan |-> l.plan, price |-> l.quote])]
Comparable(l) == l.op = "run" \/ config.selection = "ordered" \/ l.quote # None

Conclude(c) ==
    LET l == call[c]
    IN  /\ l.pc = "priced"
        /\ Local(c, IF UnderCeiling(l) /\ Comparable(l) THEN Accepted(l) ELSE Caught(l))
-----------------------------------------------------------------------------
(* A pinned client                                                         *)

RunRoutedPlan(l) == [l EXCEPT !.op = "run", !.began = now, !.pc = "priced"]   \* slip

\* run(): plan and price again, with the provider the client is bound to.
Replan(l) == Planned([Client(l.job, l.bound) EXCEPT !.op = "run", !.began = now], l.bound)
Run(c) == call[c].pc = "bound" /\ ~call[c].submitted /\ Local(c, Replan(call[c]))

Tick == now < MaxTime /\ now' = now + 1 /\ UNCHANGED <<config, listed, cache, call>>

Next == \/ \E c \in Caller : \/ Route(c) \/ RouteTo(c) \/ NextProvider(c) \/ Ask(c) \/ Lookup(c)
                             \/ Read(c) \/ Store(c) \/ Conclude(c) \/ Run(c)
        \/ Tick

Spec == Init /\ [][Next]_vars
-----------------------------------------------------------------------------
(* Properties                                                              *)

\* The prices the parts of a plan had between two ticks.
Window(p, spot, from, to) ==
    LET parts == Parts(p, spot)
    IN  {Total(parts, [k \in DOMAIN parts |-> Unit(when[k], parts[k])]) : when \in [DOMAIN parts -> from..to]}
Start(at, spot) == IF at + 1 > TtlOf(spot) THEN at + 1 - TtlOf(spot) ELSE 0

\* A quote is what this plan, with its machine, its accelerators and the
\* quantities billed for it, was listed at since the time to live of the price
\* began (README.md: list prices are cached for one hour, Spot prices for five
\* minutes; pricing.hpp: the key identifies what is billed).  Each part counts
\* from before its lookup began, whichever thread looked it up and stored it.
QuoteIsFresh ==
    \A c \in Caller :
        LET l == call[c]
        IN  l.pc = "priced" /\ l.quote # None =>
                l.quote \in Window(l.plan, l.job.spot, Start(l.asked, l.job.spot), now)

\* A job with a ceiling is submitted only with a price below it, and that
\* price is no older than the time to live when run() is called, however long
\* ago the job was routed (client.hpp: replan immediately before submission so
\* that price ceilings are current).
SubmittedWithinCeiling ==
    \A c \in Caller :
        LET l == call[c]
        IN  l.submitted /\ l.job.ceiling # None =>
                \E price \in Window(l.plan, l.job.spot, Start(l.began, l.job.spot), now) :
                    price # None /\ price <= l.job.ceiling

\* What can bar a provider from a job: nothing implements it, it has no plan
\* for the job, or the price of the plan stands in the way, by a ceiling, by a
\* catalogue that cannot be read, or by an estimator that has no accelerators.
Barred(job, p) ==
    \/ p \notin Provider
    \/ ProviderPlan(p, job) = None
    \/ job.ceiling # None
    \/ config.prices = "catalogue"
    \/ config.prices = "estimator" /\ ProviderPlan(p, job).accelerator # None

\* A job routed in order goes to the first provider that nothing bars from it:
\* each one before was tried, and for a reason passed over.  A job routed by
\* cost goes to the first of the cheapest, with no configured provider left out
\* (pricing.hpp:609-612: ordered tolerates an unrunnable provider, lowest_cost
\* requires comparable quotes, stable provider order breaks ties).
RouteIsBest ==
    \A c \in Caller :
        LET l == call[c]
            passed(p) == p \in l.skipped /\ Barred(l.job, p)
            quotes == [i \in DOMAIN l.candidates |-> l.candidates[i].price]
            first(i) == \A j \in DOMAIN quotes : quotes[j] > quotes[i] \/ (quotes[j] = quotes[i] /\ j >= i)
        IN  l.op = "route" /\ l.pc = "bound" =>
                IF config.selection = "ordered"
                THEN \E i \in DOMAIN Order :
                        Order[i] = l.bound /\ \A j \in 1..(i - 1) : passed(Order[j])
                ELSE /\ \A p \in ToSet(Order) \cap Provider :
                            \E i \in DOMAIN quotes : l.candidates[i].plan.provider = p
                     /\ \E i \in DOMAIN quotes : l.candidates[i].plan.provider = l.bound /\ first(i)

\* A plan's machine holds the job with exactly the accelerators asked for, and
\* no smaller shape of its list does; Fargate bills the least memory of its
\* grid that holds the job; the machine of a dedicated AWS queue holds the job
\* and has accelerators enough.  What a plain AWS queue runs is the set-up's word.
PlanFits ==
    \A c \in Caller :
        LET j == call[c].job
            p == call[c].plan
            list == ToSet(Shapes(p.provider, j.gpu, j.count))
            grid == {m * GiB : m \in 2..120}
            span == FargateRange[j.cpus]
        IN  p # None =>
                CASE p.provider = "aws" /\ Mounted(j) ->
                        p.memory = Min({m \in grid : /\ m \in span.first..span.last /\ m >= j.memory
                                                     /\ (m - span.first) % span.step = 0})
                  [] p.provider = "aws" /\ ~Mounted(j) ->
                        /\ p.accelerator = j.gpu
                        /\ j.gpu # None => /\ Holds(Setup.targets[j.gpu], j)
                                           /\ p.count = j.count /\ j.count <= Setup.targets[j.gpu].gpus
                  [] OTHER -> \E s \in list : /\ s.machine = p.machine /\ Holds(s, j)
                                              /\ \A o \in list : Holds(o, j) => s.cpus <= o.cpus
=============================================================================
