------------------------- MODULE JobControllerProofs -------------------------
(***************************************************************************)
(* Proofs about JobController for every number of calls, on any provider.  *)
(*                                                                         *)
(* The inductive invariant IInv says what the controller still knows about *)
(* the job at each point of wait() and cancel().                           *)
(***************************************************************************)
EXTENDS JobController, TLAPS

-----------------------------------------------------------------------------
(* The inductive invariant                                                 *)

\* The controller drains logs, makes a result and cleans up only behind the
\* end of the job, and the state it has read is the job's last.
EndIsSeen == /\ pc \in {"drain", "result"} => seen = job
             /\ pc \in {"drain", "result"} \cup Cleaning => job \in Over

\* The Azure job is deleted only behind its completion.
RemovesCompleted == provider = "azure" /\ pc \in {"remove", "removing"} => record # "active"

\* An Azure task is stopped only by a cancellation that is remembered.
StopsAreAsked ==
    provider = "azure" /\ (job = "stopped" \/ asked \cap {"cancel", "terminate"} # {})
        => cancelRequested

\* Clean-up goes with the result: none before it is cached, one from then on.
OneCleanUp ==
    /\ cached = None => cleanups = 0 /\ pc \notin Cleaning
    /\ cached # None => /\ pc \in {"idle"} \cup Cleaning
                        /\ cleanups = (IF CleansUp THEN 1 ELSE 0)

IInv == /\ TypeOK
        /\ EndIsSeen
        /\ RemovesCompleted
        /\ StopsAreAsked
        /\ OneCleanUp
        /\ ReleasedOnlyAfterEnd
        /\ ResultIsTrue

-----------------------------------------------------------------------------
(* The invariant is inductive                                              *)

\* A job that was just submitted satisfies it.
LEMMA InvariantInit == Init => IInv
<1> SUFFICES ASSUME Init PROVE IInv
  OBVIOUS
<1>1. TypeOK
  <2>1. autoDelete \in BOOLEAN /\ uncertain \in BOOLEAN /\ cancelRequested \in BOOLEAN
    BY DEF Init
  <2> QED
    BY <2>1, ControllerAssumption DEF Init, TypeOK, Live, Over, Results, Requests
<1>2. EndIsSeen /\ RemovesCompleted /\ OneCleanUp /\ ResultIsTrue
  BY ControllerAssumption DEF Init, EndIsSeen, RemovesCompleted, OneCleanUp, ResultIsTrue, Cleaning, Results
<1>3. StopsAreAsked /\ ReleasedOnlyAfterEnd
  BY DEF Init, StopsAreAsked, ReleasedOnlyAfterEnd
<1> QED
  BY <1>1, <1>2, <1>3 DEF IInv

\* Every step keeps it.
LEMMA InvariantNext == IInv /\ [Next]_vars => IInv'
<1> SUFFICES ASSUME IInv, [Next]_vars PROVE IInv'
  OBVIOUS
<1> USE ControllerAssumption
    DEF IInv, TypeOK, EndIsSeen, RemovesCompleted, StopsAreAsked, OneCleanUp,
        ReleasedOnlyAfterEnd, ResultIsTrue, CleansUp, Live, Over, Results,
        Cleaning, Cancelling, Requests, cloud, memory
<1>1. ASSUME JobStarts PROVE IInv'
  BY <1>1 DEF JobStarts
<1>2. ASSUME JobEnds PROVE IInv'
  BY <1>2 DEF JobEnds
<1>3. ASSUME NEW r \in Requests, CarryOut(r) PROVE IInv'
  BY <1>3 DEF CarryOut, Stops
<1>4. ASSUME CallWait PROVE IInv'
  BY <1>4 DEF CallWait
<1>5. ASSUME CallAgain PROVE IInv'
  BY <1>5 DEF CallAgain
<1>6. ASSUME CallCancel PROVE IInv'
  BY <1>6 DEF CallCancel, Cancel
<1>7. ASSUME Poll PROVE IInv'
  BY <1>7 DEF Poll
<1>8. ASSUME SinkThrows PROVE IInv'
  BY <1>8 DEF SinkThrows, Cancel, Ends
<1>9. ASSUME Look PROVE IInv'
  BY <1>9 DEF Look, Readable
<1>10. ASSUME LookFails PROVE IInv'
  BY <1>10 DEF LookFails, ControlFails, Cancel, Ends
<1>11. ASSUME DeadlinePasses PROVE IInv'
  BY <1>11 DEF DeadlinePasses, Cancel
<1>12. ASSUME Drain PROVE IInv'
  BY <1>12 DEF Drain
<1>13. ASSUME MakeResult PROVE IInv'
  BY <1>13 DEF MakeResult, Normal, StartsCleanUp, Finish, ControlFails, Ends
<1>14. ASSUME Observe PROVE IInv'
  BY <1>14 DEF Observe, CancelDone
<1>15. ASSUME Request PROVE IInv'
  <2>1. uncertain' \in BOOLEAN /\ asked' \subseteq asked \cup {action}
    BY <1>15 DEF Request, Send
  <2>2. action \in Requests
    BY DEF Requests
  <2>3. TypeOK' /\ EndIsSeen' /\ RemovesCompleted' /\ OneCleanUp' /\ ResultIsTrue'
    BY <1>15, <2>1 DEF Request
  <2>4. StopsAreAsked' /\ ReleasedOnlyAfterEnd'
    BY <1>15, <2>1 DEF Request
  <2> QED
    BY <2>2, <2>3, <2>4
<1>16. ASSUME GcpRefuses PROVE IInv'
  BY <1>16 DEF GcpRefuses, CancelDone
<1>17. ASSUME Confirm PROVE IInv'
  BY <1>17 DEF Confirm, CancelDone, Escalates
<1>18. ASSUME CancelFails PROVE IInv'
  BY <1>18 DEF CancelFails, AfterCancelFails, ControlFails, Cancel, Ends
<1>19. ASSUME Terminate PROVE IInv'
  <2>1. uncertain' \in BOOLEAN /\ asked' \subseteq asked \cup {"complete"}
    BY <1>19 DEF Terminate, Send
  <2>2. TypeOK' /\ EndIsSeen' /\ RemovesCompleted' /\ OneCleanUp' /\ ResultIsTrue'
    BY <1>19, <2>1 DEF Terminate
  <2>3. StopsAreAsked' /\ ReleasedOnlyAfterEnd'
    BY <1>19, <2>1 DEF Terminate
  <2> QED
    BY <2>2, <2>3
<1>20. ASSUME Terminating PROVE IInv'
  BY <1>20 DEF Terminating
<1>21. ASSUME Remove PROVE IInv'
  <2>1. uncertain' \in BOOLEAN /\ asked' \subseteq asked \cup {"remove"}
    BY <1>21 DEF Remove, Send
  <2>2. TypeOK' /\ EndIsSeen' /\ RemovesCompleted' /\ OneCleanUp' /\ ResultIsTrue'
    BY <1>21, <2>1 DEF Remove, Finish, ControlFails, Ends
  <2>3. StopsAreAsked' /\ ReleasedOnlyAfterEnd'
    BY <1>21, <2>1 DEF Remove
  <2> QED
    BY <2>2, <2>3
<1>22. ASSUME Removing PROVE IInv'
  <2>1. uncertain' \in BOOLEAN /\ asked' \subseteq asked \cup {"remove"}
    BY <1>22 DEF Removing, Send
  <2>2. TypeOK' /\ EndIsSeen' /\ RemovesCompleted' /\ OneCleanUp' /\ ResultIsTrue'
    BY <1>22, <2>1 DEF Removing
  <2>3. StopsAreAsked' /\ ReleasedOnlyAfterEnd'
    BY <1>22, <2>1 DEF Removing
  <2> QED
    BY <2>2, <2>3
<1>23. ASSUME CleanUpDone PROVE IInv'
  BY <1>23 DEF CleanUpDone, Finish, ControlFails, Ends
<1>24. ASSUME CleanUpFails PROVE IInv'
  BY <1>24 DEF CleanUpFails, Finish, ControlFails, Ends
<1>25. CASE UNCHANGED vars
  BY <1>25 DEF vars
<1> QED
  BY <1>1, <1>2, <1>3, <1>4, <1>5, <1>6, <1>7, <1>8, <1>9, <1>10, <1>11,
     <1>12, <1>13, <1>14, <1>15, <1>16, <1>17, <1>18, <1>19, <1>20, <1>21,
     <1>22, <1>23, <1>24, <1>25
     DEF Next, Caller, Controller, GivesUp, World

\* The inductive invariant holds in every reachable state.
LEMMA Invariant == Spec => []IInv
BY InvariantInit, InvariantNext, PTL DEF Spec

-----------------------------------------------------------------------------
(* The refinement                                                          *)

ContractStep == Contract!Next \/ UNCHANGED Contract!vars

\* A step of the controller leaves the job and its resources alone.  It keeps
\* the result and answers with it or throws, or it learns the result.
Kept == UNCHANGED <<job, record, cached>> /\ answer' \in {answer, "threw"} \cup ({cached} \ {None})
Learned == /\ UNCHANGED <<job, record>>
           /\ cached = None /\ cached' = Normal(job) /\ job \in Over
           /\ answer' \in {answer, "threw", cached'}

LEMMA KeptIsStep == Kept => ContractStep
BY DEF Kept, ContractStep, Contract!Next, Contract!Answer, Contract!vars

LEMMA LearnedIsStep == IInv /\ Learned => ContractStep
<1> SUFFICES ASSUME IInv, Learned PROVE Contract!Conclude
  BY DEF ContractStep, Contract!Next
<1>1. Normal(job) \in Contract!Told(job)
  BY DEF Learned, IInv, StopsAreAsked, TypeOK, Normal, Contract!Told, Over
<1> QED
  BY <1>1, ControllerAssumption DEF Learned, Contract!Conclude, Over

\* Every step is a step of JobContract or leaves it alone: MakeResult learns
\* the result, JobEnds and a cancellation carried out end the job, and the other
\* requests of delete_job release what it needs.
LEMMA ContractNext == IInv /\ [Next]_vars => ContractStep
<1> SUFFICES ASSUME IInv, [Next]_vars PROVE ContractStep
  OBVIOUS
<1> USE ControllerAssumption DEF cloud, memory
<1>1. CASE CallWait \/ CallCancel \/ Poll \/ Look \/ DeadlinePasses \/ Drain \/ Observe
              \/ Request \/ GcpRefuses \/ Confirm \/ Terminate \/ Terminating \/ Removing
  <2> Kept
    BY <1>1 DEF Kept, CallWait, CallCancel, Poll, Look, DeadlinePasses, Drain, Observe, Request,
       GcpRefuses, Confirm, Terminate, Terminating, Removing
  <2> QED
    BY KeptIsStep
<1>2. CASE CallAgain
  BY <1>2, KeptIsStep DEF Kept, CallAgain
<1>3. CASE SinkThrows \/ LookFails \/ CancelFails
  <2> Kept
    BY <1>3 DEF Kept, SinkThrows, LookFails, CancelFails, AfterCancelFails, ControlFails, Cancel, Ends
  <2> QED
    BY KeptIsStep
<1>4. CASE Remove \/ CleanUpDone \/ CleanUpFails
  <2>1. cached # None
    BY <1>4 DEF IInv, OneCleanUp, Remove, CleanUpDone, CleanUpFails, Cleaning
  <2>2. Kept
    BY <1>4, <2>1 DEF Kept, Remove, CleanUpDone, CleanUpFails, Finish, ControlFails, Ends
  <2> QED
    BY <2>2, KeptIsStep
<1>5. CASE MakeResult
  <2>1. cached = None /\ seen = job /\ job \in Over
    BY <1>5 DEF IInv, TypeOK, EndIsSeen, OneCleanUp, MakeResult, Cleaning
  <2>2. Normal(seen) # None
    BY DEF Normal, Results
  <2>3. Learned
    BY <1>5, <2>1, <2>2 DEF Learned, MakeResult, Finish, ControlFails, Ends
  <2> QED
    BY <2>3, LearnedIsStep
<1>6. CASE JobStarts
  BY <1>6 DEF JobStarts, ContractStep, Contract!vars, Over
<1>7. CASE JobEnds
  <2> Contract!End
    BY <1>7 DEF JobEnds, Contract!End, Live, Over
  <2> QED
    BY DEF ContractStep, Contract!Next
<1>8. ASSUME NEW r \in Requests, CarryOut(r) PROVE ContractStep
  <2>1. CASE job \in Stops(r)
    <3>1. job \in Live /\ job' = "stopped" /\ r \notin {"complete", "remove"}
      BY <1>8, <2>1 DEF CarryOut, Stops, Live, Over, IInv, ReleasedOnlyAfterEnd
    <3>2. record' = record
      BY <1>8, <3>1 DEF CarryOut
    <3>3. Contract!End
      BY <1>8, <3>1, <3>2 DEF CarryOut, Contract!End, Live, Over
    <3> QED
      BY <3>3 DEF ContractStep, Contract!Next
  <2>2. CASE job \notin Stops(r)
    <3>1. job' = job
      BY <1>8, <2>2 DEF CarryOut
    <3>2. record' # record => job \in Over /\ record' # "active"
      BY <1>8 DEF CarryOut, IInv, ReleasedOnlyAfterEnd
    <3>3. CASE record' = record
      BY <1>8, <3>1, <3>3 DEF CarryOut, ContractStep, Contract!vars
    <3>4. CASE record' # record
      <4> Contract!Release
        BY <1>8, <3>1, <3>2, <3>4 DEF CarryOut, Contract!Release, Over
      <4> QED
        BY DEF ContractStep, Contract!Next
    <3> QED
      BY <3>3, <3>4
  <2> QED
    BY <2>1, <2>2
<1>9. CASE UNCHANGED vars
  BY <1>9 DEF vars, ContractStep, Contract!vars
<1> QED
  BY <1>1, <1>2, <1>3, <1>4, <1>5, <1>6, <1>7, <1>8, <1>9
     DEF Next, Caller, Controller, GivesUp, World

-----------------------------------------------------------------------------
(* The theorems                                                            *)

\* The types of the variables hold in every reachable state.
THEOREM TypeCorrect == Spec => []TypeOK
<1>1. IInv => TypeOK
  BY DEF IInv
<1> QED
  BY <1>1, Invariant, PTL

\* However many calls wait() and cancel() are made, and whatever fails in
\* them, the result that make_result caches is the job's own end.
THEOREM ResultTrue == Spec => []ResultIsTrue
<1>1. IInv => ResultIsTrue
  BY DEF IInv
<1> QED
  BY <1>1, Invariant, PTL

\* delete_job and the requests it leaves behind never touch what a live job
\* needs, also when they are carried out late.
THEOREM ReleasedAfterEnd == Spec => []ReleasedOnlyAfterEnd
<1>1. IInv => ReleasedOnlyAfterEnd
  BY DEF IInv
<1> QED
  BY <1>1, Invariant, PTL

\* The two exception handlers of wait() between them never clean up twice, and
\* never hand out a result without having tried.
THEOREM CleanUpOnce == Spec => []CleanedUpOnce
<1>1. IInv => CleanedUpOnce
  BY DEF IInv, OneCleanUp, CleanedUpOnce, Cleaning
<1> QED
  BY <1>1, Invariant, PTL

\* wait() and cancel(), called any number of times, implement the contract:
\* one lasting result, no other answer, nothing released before the end.
THEOREM Refinement == Spec => KeepsJobContract
<1>1. Init => Contract!Init
  BY DEF Init, Contract!Init, Over
<1>2. IInv /\ [Next]_vars => [Contract!Next]_Contract!vars
  BY ContractNext DEF ContractStep
<1> QED
  BY <1>1, <1>2, Invariant, PTL DEF Spec, KeepsJobContract, Contract!Spec
=============================================================================
