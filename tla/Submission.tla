----------------------------- MODULE Submission -----------------------------
(***************************************************************************)
(* One call of client::run (include/cldmux/client.hpp 501-562 and          *)
(* detail/submission.hpp) after planning.  The submission makes up to two  *)
(* resources: "pre" (the AWS job definition, the Azure job) and "work"     *)
(* (the AWS or GCP job, the Azure task).  AWS picks the identity of what   *)
(* it makes; the other names are fixed by the request.  An attempt that    *)
(* ends in a time-out, a 5xx or an unreadable answer leaves copies of the  *)
(* request that the provider may carry out at any later time.              *)
(***************************************************************************)
EXTENDS Naturals, FiniteSets

CONSTANTS
    Name,       \* identities a provider can give to what it makes
    Fixed,      \* the identity that the request itself fixes
    MaxCopies,  \* bound: how often a provider carries out one request
    None

ASSUME SubmissionAssumption == /\ Fixed \in Name
                               /\ MaxCopies \in Nat \ {0}
                               /\ None \notin Name

VARIABLES
    provider,   \* the provider of the plan
    pc,         \* what run() does next, or how it ended
    kind,       \* the resource it is making
    posts,      \* create requests sent, by kind
    held,       \* the identity run() holds, by kind
    flight,     \* requests the provider may still carry out
    made,       \* what exists and can be used at the provider, by kind
    retired     \* the definitions run() asked to deregister

memory == <<provider, pc, kind, posts, held>>
vars == <<provider, pc, kind, posts, held, flight, made, retired>>

Providers == {"aws", "azure", "gcp"}
Kinds == {"pre", "work"}
Running == {"post", "inspect", "undo"}

\* How often a create request may be sent.
PostLimit == [aws |-> 1, azure |-> 3, gcp |-> 4]

\* The types of the variables; run() never sends more creates than its loops allow.
TypeOK == /\ provider \in Providers
          /\ pc \in Running \cup {"returned", "refused", "threw"}
          /\ kind \in Kinds
          /\ posts \in [Kinds -> 0..PostLimit[provider]]
          /\ held \in [Kinds -> Name \cup {None}]
          /\ flight \in [Kinds \cup {"undo"} -> Nat]
          /\ made \in [Kinds -> SUBSET Name]
          /\ retired \subseteq Name

Init == /\ provider \in Providers
        /\ pc = "post"
        /\ kind = IF provider = "gcp" THEN "work" ELSE "pre"
        /\ posts = [k \in Kinds |-> 0]
        /\ held = [k \in Kinds |-> None]
        /\ flight = [k \in Kinds \cup {"undo"} |-> 0]
        /\ made = [k \in Kinds |-> {}]
        /\ retired = {}
-----------------------------------------------------------------------------
(* The provider.                                                           *)

\* What a request for k may create now: a task needs its job, an AWS job an
\* active definition.
Creatable(k) ==
    CASE provider = "aws" /\ k = "pre" -> Name \ (made[k] \cup retired)
      [] provider = "aws" /\ k = "work" -> {n \in Name \ made[k] : held["pre"] \in made["pre"]}
      [] provider = "azure" /\ k = "work" -> {n \in {Fixed} : made["pre"] # {}}
      [] OTHER -> {Fixed}

Create(k, n) == made' = [made EXCEPT ![k] = @ \cup {n}]

\* A request that nobody answered in time is carried out.
CarryOut(k) == /\ flight[k] > 0
               /\ \E n \in Creatable(k) : Create(k, n)
               /\ flight' = [flight EXCEPT ![k] = @ - 1]
               /\ UNCHANGED <<memory, retired>>

\* Deleting the Azure job deletes its task.
CarryOutDelete == /\ flight["undo"] > 0
                  /\ made' = [k \in Kinds |-> {}]
                  /\ flight' = [flight EXCEPT !["undo"] = @ - 1]
                  /\ UNCHANGED <<memory, retired>>
-----------------------------------------------------------------------------
(* Outcomes of a step of run().                                            *)

\* run() has the resource: it goes on to the work, or returns the handle.
Advance(n) == /\ held' = [held EXCEPT ![kind] = n]
              /\ kind' = "work"
              /\ pc' = IF kind = "pre" THEN "post" ELSE "returned"

\* run() throws; a failed Azure task first has its job deleted.
GiveUp(how) == /\ pc' = IF provider = "azure" /\ kind = "work" THEN "undo" ELSE how
               /\ UNCHANGED <<kind, held>>

Deregister(asked) == /\ retired' = retired \cup asked
                     /\ \E gone \in SUBSET asked : made' = [made EXCEPT !["pre"] = @ \ gone]

Posted == posts' = [posts EXCEPT ![kind] = @ + 1]

Leaves(copies) == flight' = [flight EXCEPT ![kind] = @ + copies]

\* detail::call replays a failed create, aws_call and azure_call are told not to.
ReplaysEvery(sent) == sent < 4                                          \* slip
Replays(sent) == provider = "gcp" /\ sent < 4
-----------------------------------------------------------------------------
(* The create request.                                                     *)

\* A 2xx answer that names the resource.
PostAnswered == /\ pc = "post" /\ Posted
                /\ \E n \in Creatable(kind) : Create(kind, n) /\ Advance(n)
                /\ \E copies \in 0..(MaxCopies - 1) : Leaves(copies)
                /\ UNCHANGED <<provider, retired>>

\* A 2xx answer of GCP that cannot be parsed: the parse is outside the try.
PostGarbled == /\ pc = "post" /\ Posted
               /\ provider = "gcp"
               /\ Create("work", Fixed)
               /\ GiveUp("threw")
               /\ UNCHANGED <<provider, flight, retired>>

\* No usable answer: no status, 408, 429, 5xx, for Azure also 409, for AWS
\* also an answer without the identifier.
PostUnclear == /\ pc = "post" /\ Posted
               /\ pc' = IF Replays(posts[kind] + 1) THEN "post" ELSE "inspect"
               /\ \E copies \in 0..MaxCopies : Leaves(copies)
               /\ UNCHANGED <<provider, kind, held, made, retired>>

\* Any other status: this request created nothing.  A refused AWS job has
\* its definition deregistered, with or without success.
PostRefused == /\ pc = "post" /\ Posted
               /\ GiveUp("refused")
               /\ IF provider = "aws" /\ kind = "work"
                  THEN Deregister({held["pre"]})
                  ELSE UNCHANGED <<made, retired>>
               /\ UNCHANGED <<provider, flight>>
-----------------------------------------------------------------------------
(* Recovery: look for what the unclear request may have made.              *)

\* The listing shows exactly one of what exists, or the fixed name is found.
Finds == /\ pc = "inspect"
         /\ \E n \in made[kind] : Advance(n)
         /\ UNCHANGED <<provider, posts, flight, made, retired>>

\* The listing shows several active definitions: all of them are deregistered.
AwsFindsSeveral == /\ pc = "inspect" /\ provider = "aws" /\ kind = "pre"
                   /\ \E found \in SUBSET made["pre"] : /\ Cardinality(found) > 1
                                                        /\ Deregister(found)
                   /\ GiveUp("threw")
                   /\ UNCHANGED <<provider, posts, flight>>

\* GCP finds the job but cannot read the answer.
GcpGarbled == /\ pc = "inspect" /\ provider = "gcp"
              /\ made["work"] # {}
              /\ GiveUp("threw")
              /\ UNCHANGED <<provider, posts, flight, made, retired>>

\* Azure does not see the resource (404, or no answer): it posts again, or
\* throws after three rounds.
AzureMissesQuietly == /\ pc = "inspect" /\ provider = "azure"           \* slip
                      /\ IF posts[kind] < 3 THEN pc' = "post" /\ UNCHANGED <<kind, held>>
                                            ELSE Advance(Fixed)
                      /\ UNCHANGED <<provider, posts, flight, made, retired>>
AzureMisses == /\ pc = "inspect" /\ provider = "azure"
               /\ IF posts[kind] < 3 THEN pc' = "post" /\ UNCHANGED <<kind, held>>
                                     ELSE GiveUp("threw")
               /\ UNCHANGED <<provider, posts, flight, made, retired>>

LookFailsAndDeregisters == /\ pc = "inspect"                            \* slip
                           /\ GiveUp("threw")
                           /\ IF provider = "aws" /\ kind = "work"
                              THEN Deregister({held["pre"]})
                              ELSE UNCHANGED <<made, retired>>
                           /\ UNCHANGED <<provider, posts, flight>>

\* The look fails for good: an Azure or GCP status that is not retried, or
\* the recovery deadline of AWS and GCP, which do not look for ever.
LookFails == /\ pc = "inspect"
             /\ GiveUp("threw")
             /\ UNCHANGED <<provider, posts, flight, made, retired>>

\* Azure clean-up after a failed task: one DELETE, whatever comes of it.
Undo == /\ pc = "undo"
        /\ pc' = "threw"
        /\ flight' = [flight EXCEPT !["undo"] = 1]
        /\ UNCHANGED <<provider, kind, posts, held, made, retired>>
-----------------------------------------------------------------------------
Run == PostAnswered \/ PostGarbled \/ PostUnclear \/ PostRefused
        \/ Finds \/ AwsFindsSeveral \/ GcpGarbled \/ AzureMisses \/ LookFails \/ Undo

World == CarryOutDelete \/ \E k \in Kinds : CarryOut(k)

Next == Run \/ World

\* run() is one thread and every request and pause in it has a time limit.
Spec == Init /\ [][Next]_vars /\ WF_vars(Run)
-----------------------------------------------------------------------------
(* Properties.                                                             *)

\* The comment at submission.hpp:291: the definition stays active while a job
\* that was accepted, or may still be, depends on it.
WorkKeepsItsDefinition ==
    provider = "aws" /\ (made["work"] # {} \/ flight["work"] > 0) => held["pre"] \notin retired

\* However often run() looks, posts again or gives up, there is one job at most
\* where the request id or the name of the task tells a repeated create (GCP,
\* Azure), and on AWS, whose SubmitJob has no such token and is sent once, no
\* more jobs than copies of that one request the service carries out.
OneJobPerRun ==
    Cardinality(made["work"]) <= IF provider = "aws" THEN MaxCopies ELSE 1

\* An error of AWS that is rethrown as it came leaves no job behind, now or later.
RefusalMeansNoJob ==
    provider = "aws" /\ pc = "refused" => made["work"] = {} /\ flight["work"] = 0

Contract == INSTANCE SubmitContract WITH
    running <- made["work"] # {},
    answer <- CASE pc \in Running -> "pending"
                [] pc = "returned" -> "returned"
                [] OTHER -> "threw"

\* run() answers, a handle names accepted work, and run() withdraws work only
\* when it throws.
KeepsSubmitContract == Contract!Spec
=============================================================================
