-------------------------- MODULE SubmissionProofs --------------------------
(***************************************************************************)
(* Proofs about Submission for every set of identities and every number of *)
(* times a provider carries out one request.                               *)
(*                                                                         *)
(* The inductive invariant IInv counts the copies of a request that can    *)
(* still be carried out, and says what run() has ruled out at each point.  *)
(***************************************************************************)
EXTENDS Submission, FiniteSetTheorems, TLAPS

-----------------------------------------------------------------------------
(* The inductive invariant                                                 *)

\* run() makes the resources in order, and posts only while it may.
PostsInOrder ==
    /\ provider = "gcp" => kind = "work"
    /\ kind = "pre" => posts["work"] = 0 /\ held["pre"] = None /\ pc # "undo"
    /\ pc = "post" => posts[kind] < PostLimit[provider]
    /\ pc \in {"returned", "undo"} => kind = "work"
    /\ provider = "aws" /\ kind = "work" => held["pre"] \in Name

\* An Azure job is withdrawn only behind the exception of run().
UndoneAfterThrow == flight["undo"] > 0 => pc = "threw"

\* AWS: nothing is deregistered while run() goes on, and there is no job, now
\* or later, before the one request for it.
AwsDefinitionKept ==
    provider = "aws" =>
        /\ pc \in Running => retired = {}
        /\ posts["work"] = 0 => made["work"] = {} /\ flight["work"] = 0

\* The jobs that are there and those that may come: AWS carries out one request,
\* the others give every copy one name.
JobsAreCounted ==
    /\ IsFiniteSet(made["work"])
    /\ provider = "aws" => Cardinality(made["work"]) + flight["work"] <= MaxCopies
    /\ provider # "aws" => made["work"] \subseteq {Fixed}

IInv == /\ TypeOK
        /\ PostsInOrder
        /\ UndoneAfterThrow
        /\ AwsDefinitionKept
        /\ JobsAreCounted
        /\ WorkKeepsItsDefinition
        /\ RefusalMeansNoJob

-----------------------------------------------------------------------------
(* The invariant is inductive                                              *)

\* When run() starts, nothing has been posted.
LEMMA InvariantInit == Init => IInv
<1> SUFFICES ASSUME Init PROVE IInv
  OBVIOUS
<1>1. TypeOK
  BY SubmissionAssumption DEF Init, TypeOK, Providers, Kinds, Running, PostLimit
<1>2. PostsInOrder /\ UndoneAfterThrow /\ AwsDefinitionKept /\ WorkKeepsItsDefinition /\ RefusalMeansNoJob
  BY DEF Init, PostsInOrder, UndoneAfterThrow, AwsDefinitionKept, WorkKeepsItsDefinition,
     RefusalMeansNoJob, Providers, Kinds, Running, PostLimit
<1>3. JobsAreCounted
  BY FS_EmptySet, SubmissionAssumption DEF Init, JobsAreCounted, Kinds
<1> QED
  BY <1>1, <1>2, <1>3 DEF IInv

\* Every step keeps the types, the order of the posts and what they rule out.
LEMMA OrderNext ==
    IInv /\ [Next]_vars =>
        /\ TypeOK' /\ PostsInOrder' /\ UndoneAfterThrow' /\ AwsDefinitionKept'
        /\ WorkKeepsItsDefinition' /\ RefusalMeansNoJob'
<1> DEFINE Ordered == /\ TypeOK /\ PostsInOrder /\ UndoneAfterThrow /\ AwsDefinitionKept
                      /\ WorkKeepsItsDefinition /\ RefusalMeansNoJob
<1> SUFFICES ASSUME IInv, [Next]_vars PROVE Ordered'
  OBVIOUS
<1> USE SubmissionAssumption
    DEF IInv, TypeOK, PostsInOrder, UndoneAfterThrow, AwsDefinitionKept, WorkKeepsItsDefinition,
        RefusalMeansNoJob, Providers, Kinds, Running, PostLimit, memory
<1>1. ASSUME NEW k \in Kinds, CarryOut(k) PROVE Ordered'
  BY <1>1 DEF CarryOut, Creatable, Create
<1>2. ASSUME CarryOutDelete PROVE Ordered'
  BY <1>2 DEF CarryOutDelete
<1>3. ASSUME PostAnswered PROVE Ordered'
  <2>1. PICK n \in Creatable(kind), copies \in 0..(MaxCopies - 1) :
            Create(kind, n) /\ Advance(n) /\ Leaves(copies)
    BY <1>3 DEF PostAnswered
  <2>2. n \in Name
    BY DEF Creatable
  <2>3. TypeOK' /\ PostsInOrder' /\ UndoneAfterThrow'
    BY <1>3, <2>1, <2>2 DEF PostAnswered, Posted, Create, Advance, Leaves
  <2>4. AwsDefinitionKept' /\ WorkKeepsItsDefinition' /\ RefusalMeansNoJob'
    BY <1>3, <2>1, <2>2 DEF PostAnswered, Posted, Create, Advance, Leaves
  <2> QED
    BY <2>3, <2>4
<1>4. ASSUME PostGarbled PROVE Ordered'
  BY <1>4 DEF PostGarbled, Posted, Create, GiveUp
<1>5. ASSUME PostUnclear PROVE Ordered'
  BY <1>5 DEF PostUnclear, Posted, Replays, Leaves
<1>6. ASSUME PostRefused PROVE Ordered'
  BY <1>6 DEF PostRefused, Posted, GiveUp, Deregister
<1>7. ASSUME Finds PROVE Ordered'
  BY <1>7 DEF Finds, Advance
<1>8. ASSUME AwsFindsSeveral PROVE Ordered'
  BY <1>8 DEF AwsFindsSeveral, GiveUp, Deregister
<1>9. ASSUME GcpGarbled PROVE Ordered'
  BY <1>9 DEF GcpGarbled, GiveUp
<1>10. ASSUME AzureMisses PROVE Ordered'
  BY <1>10 DEF AzureMisses, GiveUp
<1>11. ASSUME LookFails PROVE Ordered'
  BY <1>11 DEF LookFails, GiveUp
<1>12. ASSUME Undo PROVE Ordered'
  BY <1>12 DEF Undo
<1>13. CASE UNCHANGED vars
  BY <1>13 DEF vars
<1> QED
  BY <1>1, <1>2, <1>3, <1>4, <1>5, <1>6, <1>7, <1>8, <1>9, <1>10, <1>11, <1>12,
     <1>13
     DEF Next, Run, World

\* A set grows by one member at most.
LEMMA OneMore ==
    ASSUME NEW S, NEW x, IsFiniteSet(S)
    PROVE  /\ IsFiniteSet(S \cup {x})
           /\ Cardinality(S \cup {x}) <= Cardinality(S) + 1
           /\ Cardinality(S \cup {x}) \in Nat
<1>1. IsFiniteSet(S \cup {x})
  BY FS_AddElement
<1>2. Cardinality(S \cup {x}) = IF x \in S THEN Cardinality(S) ELSE Cardinality(S) + 1
  BY FS_AddElement
<1>3. Cardinality(S) \in Nat /\ Cardinality(S \cup {x}) \in Nat
  BY <1>1, FS_CardinalityType
<1> QED
  BY <1>1, <1>2, <1>3

\* No step makes a job that was not accounted for: a copy that is carried out
\* was in flight, and the only request of AWS leaves no more than MaxCopies.
LEMMA CountNext == IInv /\ [Next]_vars => JobsAreCounted'
<1> SUFFICES ASSUME IInv, [Next]_vars PROVE JobsAreCounted'
  OBVIOUS
<1> DEFINE W == made["work"]
           F == flight["work"]
<1>0. /\ made \in [Kinds -> SUBSET Name] /\ flight \in [Kinds \cup {"undo"} -> Nat]
      /\ posts \in [Kinds -> 0..PostLimit[provider]] /\ provider \in Providers /\ MaxCopies \in Nat \ {0}
      /\ kind \in Kinds /\ provider' = provider /\ IsFiniteSet(W) /\ Cardinality(W) \in Nat
  BY SubmissionAssumption, FS_CardinalityType
     DEF IInv, TypeOK, JobsAreCounted, Next, Run, World, CarryOut, CarryOutDelete, PostAnswered, PostGarbled,
         PostUnclear, PostRefused, Finds, AwsFindsSeveral, GcpGarbled, AzureMisses, LookFails, Undo, memory, vars
<1>1. CASE UNCHANGED <<W, F>>
  BY <1>0, <1>1 DEF IInv, JobsAreCounted
\* A copy is carried out, or the request is answered.
<1>2. ASSUME NEW n \in Creatable("work"), W' = W \cup {n},
             provider = "aws" => Cardinality(W) + 1 + F' <= MaxCopies
      PROVE  JobsAreCounted'
  <2>1. provider # "aws" => n = Fixed
    BY <1>0 DEF Creatable, Providers
  <2>2. /\ IsFiniteSet(W \cup {n})
        /\ Cardinality(W \cup {n}) <= Cardinality(W) + 1
        /\ Cardinality(W \cup {n}) \in Nat
    BY <1>0, OneMore
  <2>3. F' \in Nat
    BY OrderNext DEF TypeOK, Kinds
  <2> QED
    BY <1>0, <1>2, <2>1, <2>2, <2>3, SubmissionAssumption DEF IInv, JobsAreCounted
<1>3. ASSUME CarryOut("work") PROVE JobsAreCounted'
  <2>1. PICK n \in Creatable("work") : Create("work", n)
    BY <1>3 DEF CarryOut
  <2>2. W' = W \cup {n} /\ F' = F - 1 /\ F \in Nat
    BY <1>0, <1>3, <2>1 DEF CarryOut, Create, Kinds
  <2>3. provider = "aws" => Cardinality(W) + 1 + F' <= MaxCopies
    BY <1>0, <2>2 DEF IInv, JobsAreCounted
  <2> QED
    BY <1>2, <2>2, <2>3
<1>4. ASSUME CarryOut("pre") PROVE JobsAreCounted'
  BY <1>0, <1>1, <1>4 DEF CarryOut, Create, Kinds
<1>5. ASSUME CarryOutDelete PROVE JobsAreCounted'
  <2>1. W' = {} /\ F' = F
    BY <1>0, <1>5 DEF CarryOutDelete, Kinds
  <2>2. Cardinality(W') = 0 /\ IsFiniteSet(W') /\ F \in Nat
    BY <1>0, <2>1, FS_EmptySet DEF Kinds
  <2>3. provider = "aws" => F <= MaxCopies
    BY <1>0, <2>2 DEF IInv, JobsAreCounted
  <2> QED
    BY <1>0, <2>1, <2>2, <2>3 DEF JobsAreCounted
\* The one request of AWS: nothing was there and nothing was in flight.
<1>6. provider = "aws" /\ pc = "post" /\ kind = "work" => W = {} /\ F = 0 /\ Cardinality(W) = 0
  <2>1. provider = "aws" /\ pc = "post" /\ kind = "work" => posts["work"] = 0
    BY <1>0 DEF IInv, PostsInOrder, PostLimit, Kinds
  <2> QED
    BY <2>1, FS_EmptySet DEF IInv, AwsDefinitionKept
<1>7. ASSUME PostAnswered PROVE JobsAreCounted'
  <2>1. PICK n \in Creatable(kind), copies \in 0..(MaxCopies - 1) : Create(kind, n) /\ Leaves(copies)
    BY <1>7 DEF PostAnswered
  <2>2. CASE kind = "work"
    <3>1. W' = W \cup {n} /\ F' = F + copies
      BY <1>0, <2>1, <2>2 DEF Create, Leaves, Kinds
    <3>2. provider = "aws" => Cardinality(W) + 1 + F' <= MaxCopies
      BY <1>0, <1>6, <1>7, <2>2, <3>1 DEF PostAnswered
    <3> QED
      BY <1>2, <2>2, <3>1, <3>2
  <2>3. CASE kind = "pre"
    BY <1>0, <1>1, <2>1, <2>3 DEF Create, Leaves, Kinds
  <2> QED
    BY <1>0, <2>2, <2>3 DEF Kinds
<1>8. ASSUME PostUnclear PROVE JobsAreCounted'
  <2>1. PICK copies \in 0..MaxCopies : Leaves(copies)
    BY <1>8 DEF PostUnclear
  <2>2. CASE kind = "work"
    BY <1>0, <1>6, <1>8, <2>1, <2>2 DEF PostUnclear, Leaves, Kinds, IInv, JobsAreCounted
  <2>3. CASE kind = "pre"
    BY <1>0, <1>1, <1>8, <2>1, <2>3 DEF PostUnclear, Leaves, Kinds
  <2> QED
    BY <1>0, <2>2, <2>3 DEF Kinds
<1>9. ASSUME PostGarbled PROVE JobsAreCounted'
  <2>1. provider = "gcp" /\ W' = W \cup {Fixed} /\ Fixed \in Creatable("work")
    BY <1>0, <1>9 DEF PostGarbled, Create, Creatable, Kinds
  <2> QED
    BY <1>2, <2>1
<1>10. ASSUME PostRefused \/ AwsFindsSeveral PROVE JobsAreCounted'
  BY <1>0, <1>1, <1>10 DEF PostRefused, AwsFindsSeveral, Deregister, Kinds
<1>11. ASSUME Finds \/ GcpGarbled \/ AzureMisses \/ LookFails \/ Undo \/ UNCHANGED vars PROVE JobsAreCounted'
  BY <1>0, <1>1, <1>11 DEF Finds, GcpGarbled, AzureMisses, LookFails, Undo, vars, Kinds
<1> QED
  BY <1>3, <1>4, <1>5, <1>7, <1>8, <1>9, <1>10, <1>11 DEF Next, Run, World, Kinds

\* The inductive invariant holds in every reachable state.
LEMMA Invariant == Spec => []IInv
<1>1. IInv /\ [Next]_vars => IInv'
  BY OrderNext, CountNext DEF IInv
<1> QED
  BY <1>1, InvariantInit, PTL DEF Spec

-----------------------------------------------------------------------------
(* The refinement                                                          *)

ContractStep == Contract!Next \/ UNCHANGED Contract!vars

Answer == CASE pc \in Running -> "pending"
            [] pc = "returned" -> "returned"
            [] OTHER -> "threw"

\* A step that makes no job and withdraws none goes on, or throws.
LEMMA QuietStep ==
    ASSUME IInv, UNCHANGED (made["work"] # {}),
           Answer' = Answer \/ (Answer = "pending" /\ Answer' = "threw")
    PROVE  ContractStep
BY DEF Answer, ContractStep, Contract!Next, Contract!Throw, Contract!vars

\* Every step is a step of SubmitContract or leaves it alone: run() returns with
\* work it was shown, and work is withdrawn by the deletion behind a throw.
LEMMA ContractNext == IInv /\ [Next]_vars => ContractStep
<1> SUFFICES ASSUME IInv, [Next]_vars PROVE ContractStep
  OBVIOUS
<1>0. /\ made \in [Kinds -> SUBSET Name] /\ kind \in Kinds /\ provider \in Providers
      /\ pc \in Running \cup {"returned", "refused", "threw"}
  BY DEF IInv, TypeOK
<1>1. ASSUME NEW k \in Kinds, CarryOut(k) PROVE ContractStep
  <2>1. made'["work"] # {} \/ made["work"] = {}
    BY <1>0, <1>1 DEF CarryOut, Create, Kinds
  <2>2. Answer' = Answer
    BY <1>1 DEF CarryOut, memory, Answer
  <2> QED
    BY <2>1, <2>2 DEF ContractStep, Contract!Next, Contract!Start, Contract!vars, Answer
<1>2. ASSUME CarryOutDelete PROVE ContractStep
  <2>1. pc = "threw" /\ Answer = "threw" /\ Answer' = Answer /\ made'["work"] = {}
    BY <1>2 DEF CarryOutDelete, IInv, UndoneAfterThrow, memory, Answer, Running, Kinds
  <2> QED
    BY <2>1 DEF ContractStep, Contract!Next, Contract!Withdraw, Contract!vars, Answer
<1>3. ASSUME NEW n, n \in made'["work"], kind = "work", pc \in Running, Advance(n) PROVE ContractStep
  <2>1. Answer = "pending" /\ Answer' = "returned" /\ made'["work"] # {}
    BY <1>3 DEF Advance, Answer, Running
  <2> QED
    BY <2>1 DEF ContractStep, Contract!Next, Contract!Return, Answer
<1>4. ASSUME NEW n, kind = "pre", pc \in Running, Advance(n), made'["work"] = made["work"] PROVE ContractStep
  <2>1. Answer' = Answer
    BY <1>4 DEF Advance, Answer, Running
  <2> QED
    BY <1>4, <2>1, QuietStep
<1>5. ASSUME PostAnswered PROVE ContractStep
  <2>1. PICK n \in Creatable(kind) : Create(kind, n) /\ Advance(n)
    BY <1>5 DEF PostAnswered
  <2>2. kind = "work" => n \in made'["work"]
    BY <1>0, <2>1 DEF Create, Kinds
  <2>3. kind = "pre" => made'["work"] = made["work"]
    BY <1>0, <2>1 DEF Create, Kinds
  <2> QED
    BY <1>0, <1>3, <1>4, <1>5, <2>1, <2>2, <2>3 DEF PostAnswered, Running, Kinds
<1>6. ASSUME Finds PROVE ContractStep
  <2> PICK n \in made[kind] : Advance(n)
    BY <1>6 DEF Finds
  <2> QED
    BY <1>0, <1>3, <1>4, <1>6 DEF Finds, Running, Kinds
<1>7. ASSUME PostGarbled PROVE ContractStep
  <2>1. Answer = "pending" /\ Answer' = "threw" /\ made'["work"] # {}
    BY <1>0, <1>7 DEF PostGarbled, GiveUp, Create, Answer, Running, Kinds
  <2> QED
    BY <2>1 DEF ContractStep, Contract!Next, Contract!Throw, Answer
<1>8. ASSUME PostRefused \/ AwsFindsSeveral PROVE ContractStep
  <2>1. made'["work"] = made["work"]
    BY <1>0, <1>8 DEF PostRefused, AwsFindsSeveral, Deregister, Kinds
  <2>2. Answer = "pending" /\ Answer' \in {"pending", "threw"}
    BY <1>8 DEF PostRefused, AwsFindsSeveral, GiveUp, Answer, Running
  <2> QED
    BY <2>1, <2>2, QuietStep
<1>9. ASSUME PostUnclear \/ GcpGarbled \/ AzureMisses \/ LookFails \/ Undo PROVE ContractStep
  <2>1. made'["work"] = made["work"]
    BY <1>9 DEF PostUnclear, GcpGarbled, AzureMisses, LookFails, Undo
  <2>2. Answer = "pending" /\ Answer' \in {"pending", "threw"}
    BY <1>9 DEF PostUnclear, GcpGarbled, AzureMisses, LookFails, Undo, GiveUp, Answer, Running
  <2> QED
    BY <2>1, <2>2, QuietStep
<1>10. ASSUME UNCHANGED vars PROVE ContractStep
  BY <1>10, QuietStep DEF vars, Answer
<1> QED
  BY <1>1, <1>2, <1>5, <1>6, <1>7, <1>8, <1>9, <1>10 DEF Next, Run, World

-----------------------------------------------------------------------------
(* The theorems                                                            *)

\* The variables keep their types; run() sends no more creates than its loops
\* allow.
THEOREM TypeCorrect == Spec => []TypeOK
<1>1. IInv => TypeOK
  BY DEF IInv
<1> QED
  BY <1>1, Invariant, PTL

\* submit_aws deregisters no definition that an accepted job, or one that may
\* still be accepted, depends on.
THEOREM DefinitionKept == Spec => []WorkKeepsItsDefinition
<1>1. IInv => WorkKeepsItsDefinition
  BY DEF IInv
<1> QED
  BY <1>1, Invariant, PTL

\* One client::run makes one job at most on GCP and Azure, and on AWS one at most
\* for each copy of its only SubmitJob that the service carries out, however
\* often it posts, looks and gives up.
THEOREM OneJob == Spec => []OneJobPerRun
<1>1. IInv => OneJobPerRun
  <2> SUFFICES ASSUME IInv PROVE OneJobPerRun
    OBVIOUS
  <2>1. CASE provider = "aws"
    <3>1. Cardinality(made["work"]) \in Nat /\ flight["work"] \in Nat
      BY FS_CardinalityType DEF IInv, TypeOK, JobsAreCounted, Kinds
    <3> QED
      BY <2>1, <3>1, SubmissionAssumption DEF IInv, JobsAreCounted, OneJobPerRun
  <2>2. CASE provider # "aws"
    <3>1. Cardinality({Fixed}) = 1 /\ IsFiniteSet({Fixed})
      BY FS_Singleton
    <3>2. Cardinality(made["work"]) <= 1
      BY <2>2, <3>1, FS_Subset DEF IInv, JobsAreCounted
    <3> QED
      BY <2>2, <3>2 DEF OneJobPerRun
  <2> QED
    BY <2>1, <2>2, SubmissionAssumption
<1> QED
  BY <1>1, Invariant, PTL

\* The AWS errors that submit_aws rethrows as they came leave no job behind.
THEOREM RefusedMeansNoJob == Spec => []RefusalMeansNoJob
<1>1. IInv => RefusalMeansNoJob
  BY DEF IInv
<1> QED
  BY <1>1, Invariant, PTL

\* client::run implements the steps of the contract: a handle names accepted
\* work, and work is withdrawn only behind a throw.  That it answers is liveness
\* and stays with TLC.
THEOREM Refinement == Spec => Contract!Init /\ [][Contract!Next]_Contract!vars
<1>1. Init => Contract!Init
  BY DEF Init, Contract!Init, Kinds, Running
<1>2. IInv /\ [Next]_vars => [Contract!Next]_Contract!vars
  BY ContractNext DEF ContractStep
<1> QED
  BY <1>1, <1>2, Invariant, PTL DEF Spec
=============================================================================
