--------------------------- MODULE DispatchProofs ---------------------------
(***************************************************************************)
(* Proofs about Dispatch for every set of executions, ids and paths.       *)
(*                                                                         *)
(* The inductive invariant IInv says what each execution still remembers   *)
(* about the shared files and the provider at each point of execute().     *)
(***************************************************************************)
EXTENDS Dispatch, TLAPS

-----------------------------------------------------------------------------
(* The inductive invariant                                                 *)

\* Where execute() has not asked for its job, where it has not written a
\* verdict, and where its receipt is out.
BeforeRun == BeforeLease \cup {"upload", "mark-staged", "mark-submitting",
                               "submit"}
AfterVerdict == {"publish-receipt", "mark-retry", "remove-state",
                 "remove-lease"} \cup Stopped
AfterReceipt == {"remove-state", "remove-lease"} \cup Stopped

\* e has its input staged and still means to run, or has asked for its job.
Claims(e) == value[e].staged \/ job[e] # "none"

\* A claim rests on the input object of the id, and one claim excludes others.
ClaimInv ==
    /\ \A e \in Exec : Claims(e) => input[req[e].id] # None
    /\ \A e, f \in Exec :
        req[e].id = req[f].id /\ Claims(e) /\ Claims(f) => e = f

\* The program counter, the memory of e and its job agree.
MemoryInv ==
    \A e \in Exec :
        /\ pc[e] \in BeforeRun => job[e] = "none"
        /\ pc[e] \in {"mark-staged", "mark-submitting", "submit"} =>
                value[e].staged
        /\ pc[e] = "submit" => value[e].started
        /\ pc[e] \notin Stopped /\ job[e] # "none" => value[e].started
        /\ value[e].seen # "unknown" => job[e] = value[e].seen
        /\ value[e].retrieved => pc[e] \in {"mark-final"} \cup AfterVerdict

\* The recovery state and the receipt of e agree with its program counter.
RecordInv ==
    /\ \A e \in Exec :
        /\ pc[e] = "submit" => recovery[e] = "submitting"
        /\ recovery[e] \in Verdicts => pc[e] \in AfterVerdict
        /\ pc[e] \in {"remove-state", "remove-lease"} => ReceiptBy(e)
    /\ \A p \in Path : receipt[p] # None =>
        /\ req[receipt[p].by].receipt = p
        /\ pc[receipt[p].by] \in AfterReceipt

\* A remote output was written by a job of its id.
WrittenByJob(i) ==
    remote[i].generation # 0 =>
        /\ remote[i].by \in Exec
        /\ req[remote[i].by].id = i
        /\ job[remote[i].by] # "none"

\* What e has read of the output never exceeds what is there, so a second
\* stat that agrees with the first pins what was downloaded between them.
ReadsAgree(e) ==
    LET v == value[e]
        g == remote[req[e].id].generation
    IN
    /\ pc[e] \in {"download", "stat-after"} => v.before # 0
    /\ pc[e] = "stat-after" => v.before <= v.got
    /\ v.before <= g
    /\ v.got <= g
    /\ v.recorded <= g
    /\ pc[e] = "publish-output" => v.recorded # 0 /\ v.got = v.recorded
    /\ v.retrieved =>
        /\ v.recorded # 0
        /\ output[req[e].output] = [by |-> e, generation |-> v.recorded]

OutputInv == /\ \A i \in Id : WrittenByJob(i)
             /\ \A e \in Exec : ReadsAgree(e)

\* Where execute() retrieves the output of a job that succeeded.
Retrieving == {"stat-before", "download", "stat-after", "publish-output"}

\* While the staged input stands no attempt has read another, and once the
\* look at it has found it there the job is over and reads no more.
InputInv ==
    \A e \in Exec :
        /\ job[e] = "none" => e \notin misread
        /\ input[req[e].id] = e => e \notin misread
        /\ pc[e] \in Retrieving \/ value[e].retrieved =>
                job[e] = "succeeded" /\ e \notin misread

\* With no operator, e holds its lease to the end.
HoldsLease ==
    MaxDeletions = 0 =>
        \A e \in Exec : InTransaction(e) => lease[req[e].receipt] = e

IInv == /\ TypeOK
        /\ ClaimInv
        /\ MemoryInv
        /\ RecordInv
        /\ OutputInv
        /\ InputInv
        /\ HoldsLease
        /\ SubmissionIsRecorded
        /\ VerdictsAreTruthful
        /\ CompleteReceiptIsOwnWork
        /\ PathStaysBlocked

-----------------------------------------------------------------------------
(* Type correctness                                                        *)

\* The names a request holds are ids and paths.
LEMMA ReqType ==
    TypeOK => \A e \in Exec : /\ req[e].id \in Id
                              /\ req[e].receipt \in Path
                              /\ req[e].output \in Path
BY DispatchAssumption DEF TypeOK

\* The constants that the actions assign have their types.
LEMMA Labels ==
    /\ \A l \in {"upload", "submit", "run", "cancel", "wait", "check-input",
        "stat-before", "download", "stat-after", "publish-output",
        "mark-staged", "mark-submitting", "mark-submitted", "mark-terminal",
        "mark-final", "mark-retry", "publish-receipt", "remove-state",
        "remove-lease", "validate", "check-output", "take-lease", "refused",
        "done", "crashed"} : l \in Pcs
    /\ Checkpoints \cup Verdicts
           \subseteq {None} \cup Checkpoints \cup Verdicts
    /\ \A l \in {"input-staged", "submitting", "submitted", "terminal"} :
            l \in Checkpoints
    /\ \A l \in {"none", "requested", "active", "succeeded", "failed"} :
            l \in JobStates
    /\ JobOver \subseteq JobStates
    /\ NoValue \in Values
    /\ \A e \in Exec : ReceiptStatus(e) \in Verdicts
BY DEF Pcs, GuardedPcs, BeforeLease, Stopped, Checkpoints, Verdicts,
   JobStates, Accepted, JobOver, Values, NoValue, ReceiptStatus

\* Every step keeps the types: the locals and files that the handlers of
\* execute() assign stay among the values declared for them.
LEMMA TypeNext == TypeOK /\ [Next]_vars => TypeOK'
<1> SUFFICES ASSUME TypeOK, [Next]_vars PROVE TypeOK'
  OBVIOUS
<1>0. /\ \A e \in Exec : /\ req[e].id \in Id
                          /\ req[e].receipt \in Path
                          /\ req[e].output \in Path
      /\ value \in [Exec -> Values]
  BY ReqType DEF TypeOK
<1> USE Labels, <1>0 DEF TypeOK, Goto, Leave, FailsTo, Update, files, cloud
<1>1. ASSUME NEW e \in Exec, Validate(e) PROVE TypeOK'
  <2>1. Goto(e, "check-output") \/ Goto(e, "refused")
    <3> HIDE <1>0 DEF Goto, TypeOK
    <3> QED
      BY <1>1 DEF Validate
  <2>2. pc' \in [Exec -> Pcs] /\ checked' \in [Exec -> BOOLEAN]
    BY <2>1
  <2>3. UNCHANGED <<req, value, files, cloud>>
    BY <1>1 DEF Validate
  <2> QED
    BY <2>2, <2>3
<1>2. ASSUME NEW e \in Exec, CheckRemoteOutput(e) PROVE TypeOK'
  <2>1. Goto(e, "take-lease") \/ Goto(e, "refused")
    <3> HIDE <1>0 DEF Goto, TypeOK
    <3> QED
      BY <1>2 DEF CheckRemoteOutput
  <2>2. pc' \in [Exec -> Pcs] /\ checked' \in [Exec -> BOOLEAN]
    BY <2>1
  <2>3. UNCHANGED <<req, value, files, cloud>>
    BY <1>2 DEF CheckRemoteOutput
  <2> QED
    BY <2>2, <2>3
<1>3. ASSUME NEW e \in Exec, TakeLease(e) PROVE TypeOK'
  <2>1. lease' \in [Path -> Exec \cup {None}]
    BY <1>3 DEF TakeLease
  <2>2. pc' \in [Exec -> Pcs] /\ checked' \in [Exec -> BOOLEAN]
    <3>1. Goto(e, "upload") \/ Goto(e, "refused")
      BY <1>3 DEF TakeLease
    <3> QED
      BY <3>1
  <2> QED
    BY <1>3, <2>1, <2>2 DEF TakeLease
<1>4. ASSUME NEW e \in Exec, RequireOwner(e) PROVE TypeOK'
  BY <1>4 DEF RequireOwner
<1>5. ASSUME NEW e \in Exec, StageInput(e) PROVE TypeOK'
  <2>1. [value[e] EXCEPT !.staged = TRUE] \in Values
    BY <1>0 DEF Values
  <2>2. \/ value' = [value EXCEPT ![e] = [value[e] EXCEPT !.staged = TRUE]]
        \/ value' = value
    BY <1>0, <1>5 DEF StageInput
  <2>3. value' \in [Exec -> Values]
    BY <1>0, <2>1, <2>2
  <2>4. input' \in [Id -> Exec \cup {None, Foreign}]
    BY <1>5 DEF StageInput
  <2>5. pc' \in [Exec -> Pcs] /\ checked' \in [Exec -> BOOLEAN]
    <3>1. Goto(e, "mark-staged") \/ Goto(e, "mark-final")
      BY <1>5 DEF StageInput
    <3> QED
      BY <3>1
  <2> QED
    BY <1>5, <2>3, <2>4, <2>5 DEF StageInput
<1>6. ASSUME NEW e \in Exec, MarkStaged(e) PROVE TypeOK'
  BY <1>6 DEF MarkStaged
<1>7. ASSUME NEW e \in Exec, MarkSubmitting(e) PROVE TypeOK'
  <2>1. [value[e] EXCEPT !.started = TRUE] \in Values
    BY <1>0, <1>7 DEF Values, MarkSubmitting
  <2>2. value' = [value EXCEPT ![e] = [value[e] EXCEPT !.started = TRUE]]
    BY <1>0, <1>7 DEF MarkSubmitting
  <2>3. value' \in [Exec -> Values]
    BY <1>0, <2>1, <2>2
  <2> QED
    BY <1>7, <2>3 DEF MarkSubmitting
<1>8. ASSUME NEW e \in Exec, MarkSubmitted(e) PROVE TypeOK'
  BY <1>8 DEF MarkSubmitted
<1>9. ASSUME NEW e \in Exec, MarkTerminal(e) PROVE TypeOK'
  BY <1>9 DEF MarkTerminal
<1>10. ASSUME NEW e \in Exec, CheckpointFails(e) PROVE TypeOK'
  <2>1. /\ Goto(e, "mark-final") \/ Goto(e, "cancel")
        /\ UNCHANGED <<req, value, files, cloud>>
    BY <1>10 DEF CheckpointFails
  <2> QED
    BY <2>1
<1>11. ASSUME NEW e \in Exec, SendRun(e) PROVE TypeOK'
  BY <1>11 DEF SendRun
<1>12. ASSUME NEW e \in Exec, RunReturns(e) PROVE TypeOK'
  <2>1. [value[e] EXCEPT !.submitted = TRUE] \in Values
    BY <1>0, <1>12 DEF Values, RunReturns
  <2>2. value' = [value EXCEPT ![e] = [value[e] EXCEPT !.submitted = TRUE]]
    BY <1>0, <1>12 DEF RunReturns
  <2>3. value' \in [Exec -> Values]
    BY <1>0, <2>1, <2>2
  <2> QED
    BY <1>12, <2>3 DEF RunReturns
<1>13. ASSUME NEW e \in Exec, RunThrows(e) PROVE TypeOK'
  BY <1>13 DEF RunThrows
<1>14. ASSUME NEW e \in Exec, CancelUnrecorded(e) PROVE TypeOK'
  <2>1. job' \in [Exec -> JobStates]
    BY <1>14 DEF CancelUnrecorded
  <2> QED
    BY <1>14, <2>1 DEF CancelUnrecorded
<1>15. ASSUME NEW e \in Exec, WaitCancels(e) PROVE TypeOK'
  BY <1>15 DEF WaitCancels
<1>16. ASSUME NEW e \in Exec, WaitReturns(e) PROVE TypeOK'
  <2>1. [value[e] EXCEPT !.seen = job[e]] \in Values
    BY <1>0, <1>16 DEF Values, WaitReturns, JobOver
  <2>2. value' = [value EXCEPT ![e] = [value[e] EXCEPT !.seen = job[e]]]
    BY <1>0, <1>16 DEF WaitReturns
  <2>3. value' \in [Exec -> Values]
    BY <1>0, <2>1, <2>2
  <2> QED
    BY <1>16, <2>3 DEF WaitReturns
<1>17. ASSUME NEW e \in Exec, WaitThrows(e) PROVE TypeOK'
  BY <1>17 DEF WaitThrows
<1>18. ASSUME NEW e \in Exec, CheckInput(e) PROVE TypeOK'
  BY <1>18 DEF CheckInput
<1>19. ASSUME NEW e \in Exec, StatBefore(e) PROVE TypeOK'
  <2>1. [value[e] EXCEPT !.before = remote[req[e].id].generation] \in Values
    BY <1>0, <1>19 DEF Values, StatBefore, Remotes
  <2>2. value' = [value EXCEPT ![e] =
           [value[e] EXCEPT !.before = remote[req[e].id].generation]]
    BY <1>0, <1>19 DEF StatBefore
  <2>3. value' \in [Exec -> Values]
    BY <1>0, <2>1, <2>2
  <2> QED
    BY <1>19, <2>3 DEF StatBefore
<1>20. ASSUME NEW e \in Exec, Download(e) PROVE TypeOK'
  <2>1. [value[e] EXCEPT !.got = remote[req[e].id].generation] \in Values
    BY <1>0, <1>20 DEF Values, Download, Remotes
  <2>2. value' = [value EXCEPT ![e] =
           [value[e] EXCEPT !.got = remote[req[e].id].generation]]
    BY <1>0, <1>20 DEF Download
  <2>3. value' \in [Exec -> Values]
    BY <1>0, <2>1, <2>2
  <2> QED
    BY <1>20, <2>3 DEF Download
<1>21. ASSUME NEW e \in Exec, StatAfter(e) PROVE TypeOK'
  <2>1. [value[e] EXCEPT !.recorded = value[e].before] \in Values
    BY <1>0, <1>21 DEF Values, StatAfter
  <2>2. value' = [value EXCEPT ![e] =
           [value[e] EXCEPT !.recorded = value[e].before]]
    BY <1>0, <1>21 DEF StatAfter
  <2>3. value' \in [Exec -> Values]
    BY <1>0, <2>1, <2>2
  <2> QED
    BY <1>21, <2>3 DEF StatAfter
<1>22. ASSUME NEW e \in Exec, PublishOutput(e) PROVE TypeOK'
  <2>1. [value[e] EXCEPT !.retrieved = TRUE] \in Values
    BY <1>0 DEF Values
  <2>2. value' = [value EXCEPT ![e] = [value[e] EXCEPT !.retrieved = TRUE]]
    BY <1>0, <1>22 DEF PublishOutput
  <2>3. value' \in [Exec -> Values]
    BY <1>0, <2>1, <2>2
  <2>4. [by |-> e, generation |-> value[e].got] \in Bundles
    BY <1>0 DEF Bundles, Values
  <2>5. output' \in [Path -> {None} \cup Bundles]
    BY <1>0, <1>22, <2>4 DEF PublishOutput
  <2> QED
    BY <1>22, <2>3, <2>5 DEF PublishOutput
<1>23. ASSUME NEW e \in Exec, RetrievalFails(e) PROVE TypeOK'
  BY <1>23 DEF RetrievalFails
<1>24. ASSUME NEW e \in Exec, MarkFinal(e) PROVE TypeOK'
  BY <1>24 DEF MarkFinal
<1>25. ASSUME NEW e \in Exec, MarkFinalFails(e) PROVE TypeOK'
  BY <1>25 DEF MarkFinalFails
<1>26. ASSUME NEW e \in Exec, LeaseLost(e) PROVE TypeOK'
  BY <1>26 DEF LeaseLost
<1>27. ASSUME NEW e \in Exec, PersistFinal(e) PROVE TypeOK'
  <2>1. [by |-> e, status |-> ReceiptStatus(e),
         generation |-> value[e].recorded] \in Receipts
    BY DEF Receipts, Values
  <2>2. receipt' \in [Path -> {None} \cup Receipts]
    BY <1>27, <2>1 DEF PersistFinal
  <2> QED
    BY <1>27, <2>2 DEF PersistFinal
<1>28. ASSUME NEW e \in Exec, PersistFails(e) PROVE TypeOK'
  BY <1>28 DEF PersistFails
<1>29. ASSUME NEW e \in Exec, MarkRetry(e) PROVE TypeOK'
  BY <1>29 DEF MarkRetry
<1>30. ASSUME NEW e \in Exec, RemoveState(e) PROVE TypeOK'
  BY <1>30 DEF RemoveState
<1>31. ASSUME NEW e \in Exec, RemoveLease(e) PROVE TypeOK'
  BY <1>31 DEF RemoveLease
<1>32. ASSUME NEW e \in Exec, EndFails(e) PROVE TypeOK'
  BY <1>32 DEF EndFails
<1>33. ASSUME NEW e \in Exec, Crash(e) PROVE TypeOK'
  BY <1>33 DEF Crash
<1>34. ASSUME NEW e \in Exec, ProviderAccepts(e) PROVE TypeOK'
  BY <1>34 DEF ProviderAccepts
<1>35. ASSUME NEW e \in Exec, JobEnds(e) PROVE TypeOK'
  BY <1>35 DEF JobEnds
<1>36. ASSUME NEW e \in Exec, JobWritesOutput(e) PROVE TypeOK'
  <2>1. [generation |-> remote[req[e].id].generation + 1, by |-> e] \in Remotes
    BY DEF Remotes
  <2>2. remote' \in [Id -> Remotes]
    BY <1>36, <2>1 DEF JobWritesOutput
  <2> QED
    BY <1>36, <2>2 DEF JobWritesOutput
<1>37. ASSUME NEW i \in Id, OverwriteInput(i) PROVE TypeOK'
  BY <1>37 DEF OverwriteInput
<1>38. ASSUME NEW p \in Path, OperatorDeletes(p) PROVE TypeOK'
  <2>1. deletions' \in 0 .. MaxDeletions
    BY <1>38, DispatchAssumption DEF OperatorDeletes
  <2>2. lease' \in [Path -> Exec \cup {None}]
    BY <1>38 DEF OperatorDeletes
  <2> QED
    BY <1>38, <2>1, <2>2 DEF OperatorDeletes
<1>39. ASSUME NEW e \in Exec, JobReadsInput(e) PROVE TypeOK'
  BY <1>39 DEF JobReadsInput
<1>40. CASE UNCHANGED vars
  BY <1>40 DEF vars
<1> HIDE Labels, <1>0 DEF TypeOK, Goto, Leave, FailsTo, Update, files, cloud
<1> QED
  BY <1>1, <1>2, <1>3, <1>4, <1>5, <1>6, <1>7, <1>8, <1>9, <1>10, <1>11,
     <1>12, <1>13, <1>14, <1>15, <1>16, <1>17, <1>18, <1>19, <1>20, <1>21,
     <1>22, <1>23, <1>24, <1>25, <1>26, <1>27, <1>28, <1>29, <1>30, <1>31,
     <1>32, <1>33, <1>34, <1>35, <1>36, <1>37, <1>38, <1>39, <1>40,
     DispatchAssumption DEF Next, Step, World

-----------------------------------------------------------------------------

\* What publishing the final receipt changes.
LEMMA PersistEffect ==
    ASSUME TypeOK, NEW e \in Exec, PersistFinal(e)
    PROVE  LET p == req[e].receipt IN
           /\ receipt[p] = None
           /\ receipt'[p] # None
           /\ receipt'[p] \in Receipts
           /\ receipt'[p].by = e
           /\ receipt'[p].status = ReceiptStatus(e)
           /\ receipt'[p].generation = value[e].recorded
           /\ \A q \in Path : q # p => receipt'[q] = receipt[q]
<1> DEFINE p == req[e].receipt
           r == [by |-> e, status |-> ReceiptStatus(e),
                 generation |-> value[e].recorded]
<1>1. r \in Receipts
  BY Labels DEF TypeOK, Receipts, Values
<1>2. receipt[p] = None /\ receipt' = [receipt EXCEPT ![p] = r]
  BY DEF PersistFinal, Publishable
<1>3. p \in Path /\ receipt \in [Path -> {None} \cup Receipts]
  BY ReqType DEF TypeOK
<1>4. /\ r.by = e
      /\ r.status = ReceiptStatus(e)
      /\ r.generation = value[e].recorded
  OBVIOUS
<1> HIDE DEF r
<1>5. r # None
  BY <1>1, NoneAssumption
<1> QED
  BY <1>1, <1>2, <1>3, <1>4, <1>5

\* What execute() remembers agrees with its job and its place in the code.
\* Each group of actions below is one phase of execute().
LEMMA MemoryNext == IInv /\ [Next]_vars => MemoryInv'
<1> SUFFICES ASSUME IInv, [Next]_vars PROVE MemoryInv'
  OBVIOUS
<1>0. TypeOK /\ TypeOK' /\ MemoryInv
  BY TypeNext, ReqType DEF IInv, TypeOK, Receipts
<1> USE <1>0 DEF MemoryInv, TypeOK, Goto, Leave, FailsTo, Update, files, cloud
<1>1. ASSUME NEW e \in Exec, Validate(e) \/ CheckRemoteOutput(e) \/
                             TakeLease(e) \/ RequireOwner(e)
      PROVE MemoryInv'
  BY <1>1 DEF Validate, CheckRemoteOutput, TakeLease, RequireOwner,
     BeforeRun, BeforeLease, Stopped, NoValue, Values, JobOver, Accepted,
     AfterVerdict
<1>2. ASSUME NEW e \in Exec, StageInput(e)
      PROVE MemoryInv'
  BY <1>2 DEF StageInput, BeforeRun, BeforeLease, Stopped, NoValue, Values,
     JobOver, Accepted, AfterVerdict
<1>3. ASSUME NEW e \in Exec, MarkStaged(e) \/ MarkSubmitting(e) \/
                             MarkSubmitted(e) \/ MarkTerminal(e)
      PROVE MemoryInv'
  BY <1>3 DEF MarkStaged, MarkSubmitting, MarkSubmitted, MarkTerminal,
     BeforeRun, BeforeLease, Stopped, NoValue, Values, JobOver, Accepted,
     AfterVerdict
<1>4. ASSUME NEW e \in Exec, CheckpointFails(e)
      PROVE MemoryInv'
  BY <1>4 DEF CheckpointFails, BeforeRun, BeforeLease, Stopped, NoValue,
     Values, JobOver, Accepted, AfterVerdict
<1>5. ASSUME NEW e \in Exec, SendRun(e)
      PROVE MemoryInv'
  BY <1>5 DEF SendRun, BeforeRun, BeforeLease, Stopped, NoValue, Values,
     JobOver, Accepted, AfterVerdict
<1>6. ASSUME NEW e \in Exec, RunReturns(e)
      PROVE MemoryInv'
  BY <1>6 DEF RunReturns, BeforeRun, BeforeLease, Stopped, NoValue, Values,
     JobOver, Accepted, AfterVerdict
<1>7. ASSUME NEW e \in Exec, RunThrows(e) \/ WaitThrows(e) \/ CheckInput(e)
      PROVE MemoryInv'
  BY <1>7 DEF RunThrows, WaitThrows, CheckInput, BeforeRun, BeforeLease,
     Stopped, NoValue, Values, JobOver, Accepted, AfterVerdict
<1>8. ASSUME NEW e \in Exec, CancelUnrecorded(e) \/ WaitCancels(e)
      PROVE MemoryInv'
  BY <1>8 DEF CancelUnrecorded, WaitCancels, BeforeRun, BeforeLease,
     Stopped, NoValue, Values, JobOver, Accepted, AfterVerdict
<1>9. ASSUME NEW e \in Exec, WaitReturns(e)
      PROVE MemoryInv'
  BY <1>9 DEF WaitReturns, BeforeRun, BeforeLease, Stopped, NoValue, Values,
     JobOver, Accepted, AfterVerdict
<1>10. ASSUME NEW e \in Exec, StatBefore(e)
      PROVE MemoryInv'
  BY <1>10 DEF StatBefore, BeforeRun, BeforeLease, Stopped, NoValue, Values,
     JobOver, Accepted, AfterVerdict
<1>11. ASSUME NEW e \in Exec, Download(e)
      PROVE MemoryInv'
  BY <1>11 DEF Download, BeforeRun, BeforeLease, Stopped, NoValue, Values,
     JobOver, Accepted, AfterVerdict
<1>12. ASSUME NEW e \in Exec, StatAfter(e)
      PROVE MemoryInv'
  BY <1>12 DEF StatAfter, BeforeRun, BeforeLease, Stopped, NoValue, Values,
     JobOver, Accepted, AfterVerdict
<1>13. ASSUME NEW e \in Exec, PublishOutput(e)
      PROVE MemoryInv'
  BY <1>13 DEF PublishOutput, BeforeRun, BeforeLease, Stopped, NoValue,
     Values, JobOver, Accepted, AfterVerdict
<1>14. ASSUME NEW e \in Exec, RetrievalFails(e)
      PROVE MemoryInv'
  BY <1>14 DEF RetrievalFails, BeforeRun, BeforeLease, Stopped, NoValue,
     Values, JobOver, Accepted, AfterVerdict
<1>15. ASSUME NEW e \in Exec, MarkFinal(e) \/ MarkFinalFails(e) \/ LeaseLost(e)
      PROVE MemoryInv'
  BY <1>15 DEF MarkFinal, MarkFinalFails, LeaseLost, BeforeRun, BeforeLease,
     Stopped, NoValue, Values, JobOver, Accepted, AfterVerdict
<1>16. ASSUME NEW e \in Exec, PersistFinal(e)
      PROVE MemoryInv'
  BY <1>16 DEF PersistFinal, BeforeRun, BeforeLease, Stopped, NoValue,
     Values, JobOver, Accepted, AfterVerdict
<1>17. ASSUME NEW e \in Exec, PersistFails(e) \/ MarkRetry(e)
      PROVE MemoryInv'
  BY <1>17 DEF PersistFails, MarkRetry, BeforeRun, BeforeLease, Stopped,
     NoValue, Values, JobOver, Accepted, AfterVerdict
<1>18. ASSUME NEW e \in Exec, RemoveState(e) \/ RemoveLease(e) \/ EndFails(e)
                              \/ Crash(e)
      PROVE MemoryInv'
  BY <1>18 DEF RemoveState, RemoveLease, EndFails, Crash, BeforeRun,
     BeforeLease, Stopped, NoValue, Values, JobOver, Accepted, AfterVerdict
<1>19. ASSUME NEW e \in Exec, ProviderAccepts(e) \/ JobEnds(e) \/
                              JobReadsInput(e) \/ JobWritesOutput(e)
      PROVE MemoryInv'
  BY <1>19 DEF ProviderAccepts, JobEnds, JobReadsInput, JobWritesOutput, BeforeRun,
     BeforeLease, Stopped, NoValue, Values, JobOver, Accepted, AfterVerdict
<1>20. ASSUME NEW i \in Id, OverwriteInput(i)
      PROVE MemoryInv'
  BY <1>20 DEF OverwriteInput, BeforeRun, BeforeLease, Stopped, NoValue,
     Values, JobOver, Accepted, AfterVerdict
<1>21. ASSUME NEW p \in Path, OperatorDeletes(p)
      PROVE MemoryInv'
  BY <1>21 DEF OperatorDeletes, BeforeRun, BeforeLease, Stopped, NoValue,
     Values, JobOver, Accepted, AfterVerdict
<1>22. CASE UNCHANGED vars
  BY <1>22 DEF vars, BeforeRun, BeforeLease, Stopped, NoValue, Values,
     JobOver, Accepted, AfterVerdict
<1> HIDE <1>0 DEF MemoryInv, TypeOK, Goto, Leave, FailsTo, Update, files,
        cloud
<1> QED
  BY <1>1, <1>2, <1>3, <1>4, <1>5, <1>6, <1>7, <1>8, <1>9, <1>10, <1>11,
     <1>12, <1>13, <1>14, <1>15, <1>16, <1>17, <1>18, <1>19, <1>20, <1>21,
     <1>22,
     DispatchAssumption DEF Next, Step, World

\* Only the create-only upload makes a claim on a request id, and no step
\* frees the input object on which it rests.
LEMMA ClaimNext == IInv /\ [Next]_vars => ClaimInv'
<1> SUFFICES ASSUME IInv, [Next]_vars PROVE ClaimInv'
  OBVIOUS
<1>0. /\ TypeOK /\ TypeOK' /\ ClaimInv /\ MemoryInv
      /\ \A e \in Exec : req[e].id \in Id
  BY TypeNext, ReqType DEF IInv, TypeOK, Receipts
<1> DEFINE Frame ==
        /\ req' = req
        /\ \A f \in Exec : Claims(f)' => Claims(f)
        /\ \A i \in Id : input[i] # None => input'[i] # None
<1>1. Frame => ClaimInv'
  BY <1>0 DEF ClaimInv
<1> USE <1>0 DEF Claims, MemoryInv, TypeOK, Goto, Leave, FailsTo, Update,
        files, cloud
<1>2. ASSUME NEW e \in Exec, Validate(e) \/ CheckRemoteOutput(e) \/
                             TakeLease(e) \/ RequireOwner(e)
      PROVE  Frame
  BY <1>2 DEF Validate, CheckRemoteOutput, TakeLease, RequireOwner, NoValue,
     Values
<1>3. ASSUME NEW e \in Exec, StageInput(e)
      PROVE  ClaimInv'
  <2> DEFINE i == req[e].id
  <2>1. CASE input[i] = None /\ input' = [input EXCEPT ![i] = e]
    <3>1. \A f \in Exec : Claims(f) => req[f].id # i
      BY <2>1 DEF ClaimInv
    <3>2. /\ req' = req
          /\ \A f \in Exec : Claims(f)' => f = e \/ Claims(f)
          /\ \A j \in Id : input[j] # None \/ j = i => input'[j] # None
      BY <2>1, <1>3, DispatchAssumption DEF StageInput, Values
    <3> QED
      BY <3>1, <3>2 DEF ClaimInv
  <2>2. CASE UNCHANGED <<input, value>>
    <3> Frame
      BY <2>2, <1>3 DEF StageInput
    <3> QED
      BY <1>1
  <2> QED
    BY <2>1, <2>2, <1>3 DEF StageInput, CreateOnly
<1>4. ASSUME NEW e \in Exec, MarkStaged(e) \/ MarkSubmitting(e) \/
                             MarkSubmitted(e) \/ MarkTerminal(e) \/
                             CheckpointFails(e)
      PROVE  Frame
  BY <1>4 DEF MarkStaged, MarkSubmitting, MarkSubmitted, MarkTerminal,
     CheckpointFails, NoValue, Values
<1>5. ASSUME NEW e \in Exec, SendRun(e)
      PROVE  Frame
  <2>1. /\ UNCHANGED <<req, value, input>>
        /\ value[e].staged
        /\ job' = [job EXCEPT ![e] = "requested"]
    BY <1>5 DEF SendRun
  <2> QED
    BY <2>1
<1>6. ASSUME NEW e \in Exec, RunReturns(e) \/ RunThrows(e)
      PROVE  Frame
  <2>1. UNCHANGED <<req, job, input>>
    BY <1>6 DEF RunReturns, RunThrows
  <2>2. \/ value' = value
        \/ value' = [value EXCEPT ![e].submitted = TRUE]
    BY <1>6 DEF RunReturns, RunThrows
  <2>3. value \in [Exec -> Values]
    OBVIOUS
  <2>4. \A f \in Exec : value'[f].staged = value[f].staged
    <3> HIDE <1>0 DEF TypeOK
    <3>1. [value[e] EXCEPT !.submitted = TRUE].staged = value[e].staged
      BY <2>3 DEF Values
    <3> QED
      BY <2>2, <2>3, <3>1
  <2> QED
    BY <2>1, <2>4
<1>7. ASSUME NEW e \in Exec, CancelUnrecorded(e) \/ WaitCancels(e) \/
                             WaitReturns(e) \/ WaitThrows(e)
      PROVE  Frame
  BY <1>7 DEF CancelUnrecorded, WaitCancels, WaitReturns, WaitThrows,
     NoValue, Values
<1>8. ASSUME NEW e \in Exec, CheckInput(e)
      PROVE  Frame
  BY <1>8 DEF CheckInput, NoValue, Values
<1>9. ASSUME NEW e \in Exec, StatBefore(e)
      PROVE  Frame
  BY <1>9 DEF StatBefore, NoValue, Values
<1>10. ASSUME NEW e \in Exec, Download(e)
      PROVE  Frame
  BY <1>10 DEF Download, NoValue, Values
<1>11. ASSUME NEW e \in Exec, StatAfter(e)
      PROVE  Frame
  BY <1>11 DEF StatAfter, NoValue, Values
<1>12. ASSUME NEW e \in Exec, PublishOutput(e)
      PROVE  Frame
  BY <1>12 DEF PublishOutput, NoValue, Values
<1>13. ASSUME NEW e \in Exec, RetrievalFails(e)
      PROVE  Frame
  BY <1>13 DEF RetrievalFails, NoValue, Values
<1>14. ASSUME NEW e \in Exec, LeaseLost(e)
      PROVE  Frame
  BY <1>14 DEF LeaseLost, NoValue, Values
<1>15. ASSUME NEW e \in Exec, MarkFinal(e) \/ MarkFinalFails(e)
      PROVE  Frame
  BY <1>15 DEF MarkFinal, MarkFinalFails, NoValue, Values
<1>16. ASSUME NEW e \in Exec, PersistFinal(e) \/ PersistFails(e) \/
                              MarkRetry(e)
      PROVE  Frame
  BY <1>16 DEF PersistFinal, PersistFails, MarkRetry, NoValue, Values
<1>17. ASSUME NEW e \in Exec, RemoveLease(e)
      PROVE  Frame
  BY <1>17 DEF RemoveLease, NoValue, Values
<1>18. ASSUME NEW e \in Exec, EndFails(e)
      PROVE  Frame
  BY <1>18 DEF EndFails, NoValue, Values
<1>19. ASSUME NEW e \in Exec, Crash(e)
      PROVE  Frame
  BY <1>19 DEF Crash, NoValue, Values
<1>20. ASSUME NEW e \in Exec, RemoveState(e)
      PROVE  Frame
  BY <1>20 DEF RemoveState, NoValue, Values
<1>21. ASSUME NEW e \in Exec, ProviderAccepts(e) \/ JobEnds(e) \/
                              JobReadsInput(e) \/ JobWritesOutput(e)
      PROVE  Frame
  BY <1>21 DEF ProviderAccepts, JobEnds, JobReadsInput, JobWritesOutput, NoValue, Values
<1>22. ASSUME NEW i \in Id, OverwriteInput(i)
      PROVE  Frame
  BY <1>22, DispatchAssumption DEF OverwriteInput, NoValue, Values
<1>23. ASSUME NEW p \in Path, OperatorDeletes(p)
      PROVE  Frame
  BY <1>23 DEF OperatorDeletes, NoValue, Values
<1>24. CASE UNCHANGED vars
  <2> Frame
    BY <1>24 DEF vars, NoValue, Values
  <2> QED
    BY <1>1
<1> HIDE <1>0 DEF Frame, Claims, MemoryInv, TypeOK, Goto, Leave, FailsTo,
        Update, files, cloud
<1> QED
  BY <1>1, <1>2, <1>3, <1>4, <1>5, <1>6, <1>7, <1>8, <1>9, <1>10, <1>11,
     <1>12, <1>13, <1>14, <1>15, <1>16, <1>17, <1>18, <1>19, <1>20, <1>21,
     <1>22, <1>23, <1>24, DispatchAssumption
     DEF Next, Step, World

\* A final status is written only at the end of execute(), and the pending
\* files are removed only behind a published receipt.
LEMMA RecordNext == IInv /\ [Next]_vars => RecordInv'
<1> SUFFICES ASSUME IInv, [Next]_vars PROVE RecordInv'
  OBVIOUS
<1>0. /\ TypeOK /\ TypeOK' /\ RecordInv
      /\ \A e \in Exec : req[e].receipt \in Path
      /\ \A p \in Path : receipt[p] # None => receipt[p].by \in Exec
  BY TypeNext, ReqType DEF IInv, TypeOK, Receipts
<1> DEFINE Frame ==
        /\ UNCHANGED <<req, recovery, receipt>>
        /\ \/ pc' = pc
           \/ \E e \in Exec, l \in Pcs :
                /\ pc' = [pc EXCEPT ![e] = l]
                /\ l \notin {"submit", "remove-state", "remove-lease"}
                /\ pc[e] \in AfterVerdict => l \in AfterVerdict
                /\ pc[e] \in AfterReceipt => l \in AfterReceipt
<1>1. Frame => RecordInv'
  <2> SUFFICES ASSUME Frame PROVE RecordInv'
    OBVIOUS
  <2>1. \A f \in Exec :
            /\ pc'[f] \in {"submit", "remove-state", "remove-lease"} =>
                    pc'[f] = pc[f]
            /\ pc[f] \in AfterVerdict => pc'[f] \in AfterVerdict
            /\ pc[f] \in AfterReceipt => pc'[f] \in AfterReceipt
    BY <1>0 DEF TypeOK
  <2> QED
    BY <1>0, <2>1 DEF RecordInv, ReceiptBy
<1> USE <1>0 DEF TypeOK, Goto, Leave, FailsTo, Update, files, cloud
<1>2. ASSUME NEW e \in Exec, Validate(e) \/ CheckRemoteOutput(e) \/
                             TakeLease(e) \/ RequireOwner(e)
      PROVE  Frame
  BY <1>2 DEF Validate, CheckRemoteOutput, TakeLease, RequireOwner,
     AfterVerdict, AfterReceipt, Stopped
<1>3. ASSUME NEW e \in Exec, StageInput(e)
      PROVE  Frame
  BY <1>3 DEF StageInput, AfterVerdict, AfterReceipt, Stopped
<1>4. ASSUME NEW e \in Exec, MarkStaged(e)
      PROVE  RecordInv'
  BY <1>4 DEF MarkStaged, RecordInv, ReceiptBy, AfterVerdict, AfterReceipt,
     Stopped, Verdicts, Checkpoints, Publishable
<1>5. ASSUME NEW e \in Exec, MarkSubmitting(e)
      PROVE  RecordInv'
  BY <1>5 DEF MarkSubmitting, RecordInv, ReceiptBy, AfterVerdict,
     AfterReceipt, Stopped, Verdicts, Checkpoints, Publishable
<1>6. ASSUME NEW e \in Exec, MarkSubmitted(e)
      PROVE  RecordInv'
  BY <1>6 DEF MarkSubmitted, RecordInv, ReceiptBy, AfterVerdict,
     AfterReceipt, Stopped, Verdicts, Checkpoints, Publishable
<1>7. ASSUME NEW e \in Exec, MarkTerminal(e)
      PROVE  RecordInv'
  BY <1>7 DEF MarkTerminal, RecordInv, ReceiptBy, AfterVerdict,
     AfterReceipt, Stopped, Verdicts, Checkpoints, Publishable
<1>8. ASSUME NEW e \in Exec, CheckpointFails(e)
      PROVE  Frame
  BY <1>8 DEF CheckpointFails, AfterVerdict, AfterReceipt, Stopped
<1>9. ASSUME NEW e \in Exec, SendRun(e)
      PROVE  Frame
  <2>1. /\ UNCHANGED <<req, recovery, receipt>>
        /\ pc[e] = "submit"
        /\ pc' = [pc EXCEPT ![e] = "run"]
    BY <1>9 DEF SendRun
  <2>2. "run" \in Pcs /\ "submit" \notin AfterVerdict \cup AfterReceipt
    BY Labels DEF AfterVerdict, AfterReceipt, Stopped
  <2>3. \/ "run" \in AfterVerdict
        \/ pc[e] \notin AfterVerdict
    BY <2>1, <2>2
  <2>4. \/ "run" \in AfterReceipt
        \/ pc[e] \notin AfterReceipt
    BY <2>1, <2>2
  <2>5. "run" \notin {"submit", "remove-state", "remove-lease"}
    OBVIOUS
  <2> HIDE <1>0 DEF TypeOK
  <2> QED
    BY <2>1, <2>2, <2>3, <2>4, <2>5
<1>10. ASSUME NEW e \in Exec, RunReturns(e)
      PROVE  Frame
  BY <1>10 DEF RunReturns, AfterVerdict, AfterReceipt, Stopped
<1>11. ASSUME NEW e \in Exec, RunThrows(e)
      PROVE  Frame
  BY <1>11 DEF RunThrows, AfterVerdict, AfterReceipt, Stopped
<1>12. ASSUME NEW e \in Exec, CancelUnrecorded(e)
      PROVE  Frame
  BY <1>12 DEF CancelUnrecorded, AfterVerdict, AfterReceipt, Stopped
<1>13. ASSUME NEW e \in Exec, WaitCancels(e)
      PROVE  Frame
  BY <1>13 DEF WaitCancels, AfterVerdict, AfterReceipt, Stopped
<1>14. ASSUME NEW e \in Exec, WaitReturns(e)
      PROVE  Frame
  BY <1>14 DEF WaitReturns, AfterVerdict, AfterReceipt, Stopped
<1>15. ASSUME NEW e \in Exec, WaitThrows(e)
      PROVE  Frame
  BY <1>15 DEF WaitThrows, AfterVerdict, AfterReceipt, Stopped
<1>16. ASSUME NEW e \in Exec, RetrievalFails(e)
      PROVE  RecordInv'
  <2>1. /\ UNCHANGED <<req, recovery, receipt>>
        /\ pc' = [pc EXCEPT ![e] = "mark-final"]
        /\ pc[e] \notin AfterVerdict /\ pc[e] \notin AfterReceipt
    BY <1>16 DEF RetrievalFails, AfterVerdict, AfterReceipt, Stopped
  <2>2. Frame
    BY <2>1
  <2> QED
    BY <1>1, <2>2
<1>17. ASSUME NEW e \in Exec, CheckInput(e)
      PROVE  Frame
  BY <1>17 DEF CheckInput, AfterVerdict, AfterReceipt, Stopped
<1>18. ASSUME NEW e \in Exec, StatBefore(e)
      PROVE  Frame
  BY <1>18 DEF StatBefore, AfterVerdict, AfterReceipt, Stopped
<1>19. ASSUME NEW e \in Exec, Download(e)
      PROVE  Frame
  BY <1>19 DEF Download, AfterVerdict, AfterReceipt, Stopped
<1>20. ASSUME NEW e \in Exec, StatAfter(e)
      PROVE  Frame
  BY <1>20 DEF StatAfter, AfterVerdict, AfterReceipt, Stopped
<1>21. ASSUME NEW e \in Exec, PublishOutput(e)
      PROVE  Frame
  BY <1>21 DEF PublishOutput, AfterVerdict, AfterReceipt, Stopped
<1>22. ASSUME NEW e \in Exec, MarkFinal(e)
      PROVE  RecordInv'
  BY <1>22 DEF MarkFinal, RecordInv, ReceiptBy, AfterVerdict, AfterReceipt,
     Stopped, Verdicts, Checkpoints, Publishable
<1>23. ASSUME NEW e \in Exec, MarkFinalFails(e) \/ LeaseLost(e)
      PROVE  Frame
  BY <1>23 DEF MarkFinalFails, LeaseLost, AfterVerdict, AfterReceipt, Stopped
<1>24. ASSUME NEW e \in Exec, PersistFinal(e)
      PROVE  RecordInv'
  <2> DEFINE q == req[e].receipt
  <2>1. /\ UNCHANGED <<req, recovery>>
        /\ pc[e] = "publish-receipt"
        /\ pc' = [pc EXCEPT ![e] = "remove-state"]
        /\ receipt[q] = None
        /\ \A p \in Path : p # q => receipt'[p] = receipt[p]
        /\ receipt'[q].by = e
        /\ receipt'[q] # None
    <3>1. PersistFinal(e) /\ TypeOK
      BY <1>24, <1>0
    <3> HIDE DEF Goto, TypeOK
    <3> QED
      BY <3>1, PersistEffect DEF PersistFinal, Goto
  <2>2. \A f \in Exec : ReceiptBy(f) => ReceiptBy(f)'
    BY <2>1 DEF ReceiptBy
  <2>3. ReceiptBy(e)'
    BY <2>1 DEF ReceiptBy
  <2>4. \A p \in Path : receipt'[p] # None =>
          /\ req'[receipt'[p].by].receipt = p
          /\ pc'[receipt'[p].by] \in AfterReceipt
    BY <2>1 DEF RecordInv, AfterReceipt
  <2>5. \A f \in Exec :
          /\ pc'[f] = "submit" => recovery'[f] = "submitting"
          /\ recovery'[f] \in Verdicts => pc'[f] \in AfterVerdict
          /\ pc'[f] \in {"remove-state", "remove-lease"} => ReceiptBy(f)'
    BY <2>1, <2>2, <2>3 DEF RecordInv, AfterVerdict
  <2> QED
    BY <2>4, <2>5 DEF RecordInv
<1>25. ASSUME NEW e \in Exec, MarkRetry(e)
      PROVE  RecordInv'
  BY <1>25 DEF MarkRetry, RecordInv, ReceiptBy, AfterVerdict, AfterReceipt,
     Stopped, Verdicts, Checkpoints, Publishable
<1>26. ASSUME NEW e \in Exec, PersistFails(e)
      PROVE  Frame
  BY <1>26 DEF PersistFails, AfterVerdict, AfterReceipt, Stopped
<1>27. ASSUME NEW e \in Exec, RemoveState(e)
      PROVE  RecordInv'
  BY <1>27 DEF RemoveState, RecordInv, ReceiptBy, AfterVerdict,
     AfterReceipt, Stopped, Verdicts, Checkpoints, Publishable
<1>28. ASSUME NEW e \in Exec, RemoveLease(e) \/ EndFails(e) \/ Crash(e)
      PROVE  Frame
  BY <1>28 DEF RemoveLease, EndFails, Crash, AfterVerdict, AfterReceipt,
     Stopped
<1>29. ASSUME NEW e \in Exec, ProviderAccepts(e) \/ JobEnds(e) \/
                              JobReadsInput(e) \/ JobWritesOutput(e)
      PROVE  Frame
  BY <1>29 DEF ProviderAccepts, JobEnds, JobReadsInput, JobWritesOutput, AfterVerdict,
     AfterReceipt, Stopped
<1>30. ASSUME NEW i \in Id, OverwriteInput(i)
      PROVE  Frame
  BY <1>30, DispatchAssumption DEF OverwriteInput, AfterVerdict,
     AfterReceipt, Stopped
<1>31. ASSUME NEW p \in Path, OperatorDeletes(p)
      PROVE  Frame
  BY <1>31 DEF OperatorDeletes, AfterVerdict, AfterReceipt, Stopped
<1>32. CASE UNCHANGED vars
  <2> Frame
    BY <1>32 DEF vars, AfterVerdict, AfterReceipt, Stopped
  <2> QED
    BY <1>1
<1> HIDE <1>0 DEF Frame, TypeOK, Goto, Leave, FailsTo, Update, files, cloud
<1> QED
  BY <1>1, <1>2, <1>3, <1>4, <1>5, <1>6, <1>7, <1>8, <1>9, <1>10, <1>11,
     <1>12, <1>13, <1>14, <1>15, <1>16, <1>17, <1>18, <1>19, <1>20, <1>21,
     <1>22, <1>23, <1>24, <1>25, <1>26, <1>27, <1>28, <1>29, <1>30, <1>31,
     <1>32, DispatchAssumption
     DEF Next, Step, World

\* With no operator, only its owner takes a lease away: a second owner of the
\* same path would need the name free.
LEMMA LeaseNext == IInv /\ [Next]_vars => HoldsLease'
<1> SUFFICES ASSUME IInv, [Next]_vars PROVE HoldsLease'
  OBVIOUS
<1>0. /\ TypeOK /\ TypeOK' /\ HoldsLease
      /\ \A e \in Exec : /\ req[e].id \in Id
                          /\ req[e].receipt \in Path
                          /\ req[e].output \in Path
  BY TypeNext, ReqType DEF IInv, TypeOK, Receipts
<1> DEFINE Frame ==
        /\ UNCHANGED <<req, lease>>
        /\ \A f \in Exec : InTransaction(f)' => InTransaction(f)
<1>1. Frame => HoldsLease'
  BY <1>0 DEF HoldsLease
<1> USE <1>0 DEF TypeOK, Goto, Leave, FailsTo, Update, files, cloud
<1>2. ASSUME NEW e \in Exec, TakeLease(e)
      PROVE  HoldsLease'
  <2> DEFINE p == req[e].receipt
  <2>1. CASE lease[p] = None /\ lease' = [lease EXCEPT ![p] = e]
    <3>1. /\ req' = req /\ p \in Path /\ lease'[p] = e
          /\ \A q \in Path : q # p => lease'[q] = lease[q]
      BY <2>1, <1>2 DEF TakeLease
    <3>2. \A f \in Exec : f # e => pc'[f] = pc[f]
      BY <1>2 DEF TakeLease
    <3>3. ASSUME MaxDeletions = 0, NEW f \in Exec, InTransaction(f)'
          PROVE  lease'[req[f].receipt] = f
      <4>1. CASE f = e
        BY <3>1, <4>1
      <4>2. CASE f # e
        <5>1. InTransaction(f) /\ lease[req[f].receipt] = f
          BY <1>0, <3>2, <3>3, <4>2 DEF HoldsLease, InTransaction
        <5>2. req[f].receipt # p
          BY <2>1, <5>1, DispatchAssumption
        <5> QED
          BY <3>1, <5>1, <5>2
      <4> QED
        BY <4>1, <4>2
    <3> QED
      BY <3>1, <3>3 DEF HoldsLease
  <2>2. CASE Goto(e, "refused") /\ UNCHANGED lease
    <3> Frame
      BY <2>2, <1>2 DEF TakeLease, InTransaction, BeforeLease, Stopped
    <3> QED
      BY <1>1
  <2> QED
    BY <2>1, <2>2, <1>2 DEF TakeLease, Publishable
<1>3. ASSUME NEW e \in Exec, Validate(e) \/ CheckRemoteOutput(e) \/
                             RequireOwner(e)
      PROVE  Frame
  BY <1>3 DEF Validate, CheckRemoteOutput, RequireOwner, InTransaction,
     BeforeLease, Stopped
<1>4. ASSUME NEW e \in Exec, StageInput(e)
      PROVE  Frame
  BY <1>4 DEF StageInput, InTransaction, BeforeLease, Stopped
<1>5. ASSUME NEW e \in Exec, MarkStaged(e) \/ MarkSubmitting(e) \/
                             MarkSubmitted(e) \/ MarkTerminal(e) \/
                             CheckpointFails(e)
      PROVE  Frame
  BY <1>5 DEF MarkStaged, MarkSubmitting, MarkSubmitted, MarkTerminal,
     CheckpointFails, InTransaction, BeforeLease, Stopped
<1>6. ASSUME NEW e \in Exec, SendRun(e) \/ RunReturns(e) \/ RunThrows(e)
      PROVE  Frame
  BY <1>6 DEF SendRun, RunReturns, RunThrows, InTransaction, BeforeLease,
     Stopped
<1>7. ASSUME NEW e \in Exec, CancelUnrecorded(e) \/ WaitCancels(e) \/
                             WaitReturns(e) \/ WaitThrows(e)
      PROVE  Frame
  BY <1>7 DEF CancelUnrecorded, WaitCancels, WaitReturns, WaitThrows,
     InTransaction, BeforeLease, Stopped
<1>8. ASSUME NEW e \in Exec, CheckInput(e) \/ StatBefore(e) \/ Download(e) \/
                              StatAfter(e) \/ PublishOutput(e) \/
                             RetrievalFails(e)
      PROVE  Frame
  BY <1>8 DEF CheckInput, StatBefore, Download, StatAfter, PublishOutput,
     RetrievalFails, InTransaction, BeforeLease, Stopped
<1>9. ASSUME NEW e \in Exec, MarkFinal(e) \/ MarkFinalFails(e) \/
                             LeaseLost(e)
      PROVE  Frame
  BY <1>9 DEF MarkFinal, MarkFinalFails, LeaseLost, InTransaction,
     BeforeLease, Stopped
<1>10. ASSUME NEW e \in Exec, PersistFinal(e) \/ PersistFails(e) \/
                              MarkRetry(e)
      PROVE  Frame
  BY <1>10 DEF PersistFinal, PersistFails, MarkRetry, InTransaction,
     BeforeLease, Stopped
<1>11. ASSUME NEW e \in Exec, RemoveLease(e)
      PROVE  HoldsLease'
  <2> DEFINE p == req[e].receipt
  <2> SUFFICES ASSUME MaxDeletions = 0, NEW f \in Exec, InTransaction(f)'
               PROVE  lease'[req'[f].receipt] = f
    BY DEF HoldsLease
  <2>1. f # e /\ InTransaction(f) /\ InTransaction(e)
    BY <1>11 DEF RemoveLease, InTransaction, BeforeLease, Stopped
  <2>2. lease[p] = e /\ lease[req[f].receipt] = f
    BY <2>1, <1>0 DEF HoldsLease
  <2> QED
    BY <2>1, <2>2, <1>11 DEF RemoveLease
<1>12. ASSUME NEW e \in Exec, RemoveState(e) \/ EndFails(e) \/ Crash(e)
      PROVE  Frame
  BY <1>12 DEF RemoveState, EndFails, Crash, InTransaction, BeforeLease,
     Stopped
<1>13. ASSUME NEW e \in Exec, ProviderAccepts(e) \/ JobEnds(e) \/
                              JobReadsInput(e) \/ JobWritesOutput(e)
      PROVE  Frame
  BY <1>13 DEF ProviderAccepts, JobEnds, JobReadsInput, JobWritesOutput, InTransaction,
     BeforeLease, Stopped
<1>14. ASSUME NEW i \in Id, OverwriteInput(i)
      PROVE  Frame
  BY <1>14, DispatchAssumption DEF OverwriteInput, InTransaction,
     BeforeLease, Stopped
<1>15. ASSUME NEW p \in Path, OperatorDeletes(p)
      PROVE  HoldsLease'
  BY <1>15, DispatchAssumption DEF OperatorDeletes, HoldsLease
<1>16. CASE UNCHANGED vars
  <2> Frame
    BY <1>16 DEF vars, InTransaction, BeforeLease, Stopped
  <2> QED
    BY <1>1
<1> HIDE <1>0 DEF Frame, TypeOK, Goto, Leave, FailsTo, Update, files, cloud
<1> QED
  BY <1>1, <1>2, <1>3, <1>4, <1>5, <1>6, <1>7, <1>8, <1>9, <1>10, <1>11,
     <1>12, <1>13, <1>14, <1>15, <1>16, DispatchAssumption DEF Next, Step,
     World

\* The create request leaves behind the "submitting" checkpoint, and no later
\* step removes the record of it without a receipt.
LEMMA SubmissionNext == IInv /\ [Next]_vars => SubmissionIsRecorded'
<1> SUFFICES ASSUME IInv, [Next]_vars PROVE SubmissionIsRecorded'
  OBVIOUS
<1>0. /\ TypeOK /\ TypeOK' /\ SubmissionIsRecorded /\ MemoryInv /\ RecordInv
      /\ \A e \in Exec : /\ req[e].id \in Id
                          /\ req[e].receipt \in Path
                          /\ req[e].output \in Path
  BY TypeNext, ReqType DEF IInv, TypeOK, Receipts
<1> DEFINE Written(f) ==
        \/ ReceiptBy(f)
        \/ recovery[f] \in (Checkpoints \ {"input-staged"}) \cup Verdicts
<1> DEFINE Frame ==
        /\ \A f \in Exec : job'[f] # "none" => job[f] # "none"
        /\ \A f \in Exec : Written(f) => Written(f)'
<1>1. Frame => SubmissionIsRecorded'
  BY <1>0 DEF SubmissionIsRecorded
<1> USE <1>0 DEF TypeOK, ReceiptBy, Goto, Leave, FailsTo, Update, files, cloud
<1>2. ASSUME NEW e \in Exec, Validate(e) \/ CheckRemoteOutput(e) \/
                             TakeLease(e) \/ RequireOwner(e)
      PROVE  Frame
  BY <1>2 DEF Validate, CheckRemoteOutput, TakeLease, RequireOwner,
     Checkpoints, Verdicts
<1>3. ASSUME NEW e \in Exec, StageInput(e)
      PROVE  Frame
  BY <1>3 DEF StageInput, Checkpoints, Verdicts
<1>4. ASSUME NEW e \in Exec, MarkStaged(e)
      PROVE  SubmissionIsRecorded'
  BY <1>4 DEF MarkStaged, SubmissionIsRecorded, MemoryInv, BeforeRun
<1>5. ASSUME NEW e \in Exec, MarkSubmitting(e) \/ MarkSubmitted(e) \/
                             MarkTerminal(e) \/ CheckpointFails(e)
      PROVE  Frame
  BY <1>5 DEF MarkSubmitting, MarkSubmitted, MarkTerminal, CheckpointFails,
     Checkpoints, Verdicts
<1>6. ASSUME NEW e \in Exec, SendRun(e)
      PROVE  SubmissionIsRecorded'
  BY <1>6 DEF SendRun, SubmissionIsRecorded, RecordInv, Checkpoints, Verdicts
<1>7. ASSUME NEW e \in Exec, RunReturns(e) \/ RunThrows(e)
      PROVE  Frame
  BY <1>7 DEF RunReturns, RunThrows, Checkpoints, Verdicts
<1>8. ASSUME NEW e \in Exec, CancelUnrecorded(e) \/ WaitCancels(e) \/
                             WaitReturns(e) \/ WaitThrows(e)
      PROVE  Frame
  BY <1>8 DEF CancelUnrecorded, WaitCancels, WaitReturns, WaitThrows,
     Checkpoints, Verdicts
<1>9. ASSUME NEW e \in Exec, CheckInput(e) \/ StatBefore(e) \/ Download(e) \/
                              StatAfter(e) \/ PublishOutput(e) \/
                             RetrievalFails(e)
      PROVE  Frame
  BY <1>9 DEF CheckInput, StatBefore, Download, StatAfter, PublishOutput,
     RetrievalFails, Checkpoints, Verdicts
<1>10. ASSUME NEW e \in Exec, MarkFinal(e)
      PROVE  SubmissionIsRecorded'
  BY <1>10, Labels DEF MarkFinal, SubmissionIsRecorded
<1>11. ASSUME NEW e \in Exec, MarkFinalFails(e) \/ LeaseLost(e)
      PROVE  Frame
  BY <1>11 DEF MarkFinalFails, LeaseLost, Checkpoints, Verdicts
<1>12. ASSUME NEW e \in Exec, PersistFinal(e)
      PROVE  SubmissionIsRecorded'
  <2>1. UNCHANGED <<req, recovery, job>>
    BY <1>12 DEF PersistFinal
  <2> QED
    BY <2>1, PersistEffect, <1>12 DEF SubmissionIsRecorded
<1>13. ASSUME NEW e \in Exec, MarkRetry(e)
      PROVE  SubmissionIsRecorded'
  BY <1>13, Labels DEF MarkRetry, SubmissionIsRecorded
<1>14. ASSUME NEW e \in Exec, PersistFails(e)
      PROVE  Frame
  BY <1>14 DEF PersistFails, Checkpoints, Verdicts
<1>15. ASSUME NEW e \in Exec, RemoveState(e)
      PROVE  SubmissionIsRecorded'
  BY <1>15 DEF RemoveState, SubmissionIsRecorded, RecordInv
<1>16. ASSUME NEW e \in Exec, RemoveLease(e) \/ EndFails(e) \/ Crash(e)
      PROVE  Frame
  BY <1>16 DEF RemoveLease, EndFails, Crash, Checkpoints, Verdicts
<1>17. ASSUME NEW e \in Exec, ProviderAccepts(e) \/ JobEnds(e) \/
                              JobReadsInput(e) \/ JobWritesOutput(e)
      PROVE  Frame
  BY <1>17 DEF ProviderAccepts, JobEnds, JobReadsInput, JobWritesOutput, Checkpoints,
     Verdicts
<1>18. ASSUME NEW i \in Id, OverwriteInput(i)
      PROVE  Frame
  BY <1>18, DispatchAssumption DEF OverwriteInput, Checkpoints, Verdicts
<1>19. ASSUME NEW p \in Path, OperatorDeletes(p)
      PROVE  Frame
  BY <1>19 DEF OperatorDeletes, Checkpoints, Verdicts
<1>20. CASE UNCHANGED vars
  <2> Frame
    BY <1>20 DEF vars, Checkpoints, Verdicts
  <2> QED
    BY <1>1
<1> HIDE <1>0 DEF Frame, TypeOK, ReceiptBy, Goto, Leave, FailsTo, Update,
        files, cloud
<1> QED
  BY <1>1, <1>2, <1>3, <1>4, <1>5, <1>6, <1>7, <1>8, <1>9, <1>10, <1>11,
     <1>12, <1>13, <1>14, <1>15, <1>16, <1>17, <1>18, <1>19, <1>20,
     DispatchAssumption DEF Next, Step, World

\* What execute() would write at any point is true of its job.
LEMMA StatusTruthful ==
    ASSUME TypeOK, MemoryInv, NEW e \in Exec, pc[e] \notin Stopped
    PROVE  Truthful(e, ReceiptStatus(e))
BY DEF TypeOK, MemoryInv, Truthful, ReceiptStatus, Success,
   RecoveryRequired, Succeeded, Terminal, Values, JobOver

\* A verdict on disk stays true: its job is over, or the verdict says that it
\* may not be, or no job was asked for and none will be.
LEMMA VerdictNext == IInv /\ [Next]_vars => VerdictsAreTruthful'
<1> SUFFICES ASSUME IInv, [Next]_vars PROVE VerdictsAreTruthful'
  OBVIOUS
<1>0. /\ TypeOK /\ TypeOK' /\ VerdictsAreTruthful /\ MemoryInv /\ RecordInv
      /\ \A p \in Path : receipt[p] # None => receipt[p].by \in Exec
      /\ \A e \in Exec : /\ req[e].id \in Id
                          /\ req[e].receipt \in Path
                          /\ req[e].output \in Path
  BY TypeNext, ReqType DEF IInv, TypeOK, Receipts
<1> DEFINE Frame ==
        /\ UNCHANGED <<recovery, receipt>>
        /\ \A f \in Exec :
            /\ job[f] \in JobOver => job'[f] = job[f]
            /\ job[f] = "none" /\ pc[f] # "submit" => job'[f] = "none"
<1>1. Frame => VerdictsAreTruthful'
  <2> SUFFICES ASSUME Frame PROVE VerdictsAreTruthful'
    OBVIOUS
  <2>1. \A f \in Exec, s \in Verdicts :
            pc[f] # "submit" /\ Truthful(f, s) => Truthful(f, s)'
    BY <1>0 DEF Truthful, JobOver
  <2>2. \A f \in Exec : Truthful(f, recovery[f])'
    <3> SUFFICES ASSUME NEW f \in Exec PROVE Truthful(f, recovery[f])'
      OBVIOUS
    <3>1. CASE recovery[f] \in Verdicts
      BY <1>0, <2>1, <3>1 DEF VerdictsAreTruthful, RecordInv, AfterVerdict,
         Stopped
    <3>2. CASE recovery[f] \notin Verdicts
      BY <3>2 DEF Truthful, Verdicts
    <3> QED
      BY <3>1, <3>2
  <2>3. \A p \in Path : receipt[p] # None =>
            Truthful(receipt[p].by, receipt[p].status)'
    BY <1>0, <2>1 DEF VerdictsAreTruthful, RecordInv, AfterReceipt, Stopped,
       TypeOK, Receipts
  <2> QED
    BY <2>2, <2>3 DEF VerdictsAreTruthful
<1> USE <1>0 DEF TypeOK, Goto, Leave, FailsTo, Update, files, cloud
<1>2. ASSUME NEW e \in Exec, Validate(e) \/ CheckRemoteOutput(e) \/
                             TakeLease(e) \/ RequireOwner(e)
      PROVE  Frame
  BY <1>2 DEF Validate, CheckRemoteOutput, TakeLease, RequireOwner, JobOver
<1>3. ASSUME NEW e \in Exec, StageInput(e)
      PROVE  Frame
  BY <1>3 DEF StageInput, JobOver
<1>4. ASSUME NEW e \in Exec, MarkStaged(e)
      PROVE  VerdictsAreTruthful'
  BY <1>4 DEF MarkStaged, VerdictsAreTruthful, Truthful, Checkpoints, Verdicts
<1>5. ASSUME NEW e \in Exec, MarkSubmitting(e)
      PROVE  VerdictsAreTruthful'
  BY <1>5 DEF MarkSubmitting, VerdictsAreTruthful, Truthful, Checkpoints,
     Verdicts
<1>6. ASSUME NEW e \in Exec, MarkSubmitted(e)
      PROVE  VerdictsAreTruthful'
  BY <1>6 DEF MarkSubmitted, VerdictsAreTruthful, Truthful, Checkpoints,
     Verdicts
<1>7. ASSUME NEW e \in Exec, MarkTerminal(e)
      PROVE  VerdictsAreTruthful'
  BY <1>7 DEF MarkTerminal, VerdictsAreTruthful, Truthful, Checkpoints,
     Verdicts
<1>8. ASSUME NEW e \in Exec, CheckpointFails(e)
      PROVE  Frame
  BY <1>8 DEF CheckpointFails, JobOver
<1>9. ASSUME NEW e \in Exec, SendRun(e)
      PROVE  VerdictsAreTruthful'
  <2> Frame
    BY <1>9 DEF SendRun, MemoryInv, BeforeRun, JobOver
  <2> QED
    BY <1>1
<1>10. ASSUME NEW e \in Exec, RunReturns(e) \/ RunThrows(e)
      PROVE  Frame
  BY <1>10 DEF RunReturns, RunThrows, JobOver
<1>11. ASSUME NEW e \in Exec, CancelUnrecorded(e) \/ WaitCancels(e) \/
                              WaitReturns(e) \/ WaitThrows(e)
      PROVE  Frame
  BY <1>11 DEF CancelUnrecorded, WaitCancels, WaitReturns, WaitThrows, JobOver
<1>12. ASSUME NEW e \in Exec, CheckInput(e) \/ StatBefore(e) \/ Download(e) \/
                               StatAfter(e) \/ PublishOutput(e) \/
                              RetrievalFails(e)
      PROVE  Frame
  BY <1>12 DEF CheckInput, StatBefore, Download, StatAfter, PublishOutput,
     RetrievalFails, JobOver
<1>13. ASSUME NEW e \in Exec, MarkFinal(e)
      PROVE  VerdictsAreTruthful'
  <2>1. Truthful(e, ReceiptStatus(e))
    BY StatusTruthful, <1>13 DEF MarkFinal, Stopped
  <2> QED
    BY <2>1, <1>13 DEF MarkFinal, VerdictsAreTruthful, Truthful
<1>14. ASSUME NEW e \in Exec, MarkFinalFails(e) \/ LeaseLost(e)
      PROVE  Frame
  BY <1>14 DEF MarkFinalFails, LeaseLost, JobOver
<1>15. ASSUME NEW e \in Exec, PersistFinal(e)
      PROVE  VerdictsAreTruthful'
  <2>1. Truthful(e, ReceiptStatus(e))
    BY StatusTruthful, <1>15 DEF PersistFinal, Stopped
  <2>2. UNCHANGED <<job, recovery>>
    BY <1>15 DEF PersistFinal
  <2>3. \A p \in Path :
          \/ receipt'[p] = receipt[p]
          \/ receipt'[p].by = e /\ receipt'[p].status = ReceiptStatus(e)
    BY PersistEffect, <1>15
  <2> QED
    BY <2>1, <2>2, <2>3 DEF VerdictsAreTruthful, Truthful
<1>16. ASSUME NEW e \in Exec, MarkRetry(e)
      PROVE  VerdictsAreTruthful'
  <2>1. Truthful(e, ReceiptStatus(e))
    BY StatusTruthful, <1>16 DEF MarkRetry, Stopped
  <2> QED
    BY <2>1, <1>16 DEF MarkRetry, VerdictsAreTruthful, Truthful
<1>17. ASSUME NEW e \in Exec, PersistFails(e)
      PROVE  Frame
  BY <1>17 DEF PersistFails, JobOver
<1>18. ASSUME NEW e \in Exec, RemoveState(e)
      PROVE  VerdictsAreTruthful'
  BY <1>18, NoneAssumption DEF RemoveState, VerdictsAreTruthful, Truthful,
     Verdicts
<1>19. ASSUME NEW e \in Exec, RemoveLease(e) \/ EndFails(e) \/ Crash(e)
      PROVE  Frame
  BY <1>19 DEF RemoveLease, EndFails, Crash, JobOver
<1>20. ASSUME NEW e \in Exec, ProviderAccepts(e) \/ JobEnds(e) \/
                              JobReadsInput(e) \/ JobWritesOutput(e)
      PROVE  Frame
  BY <1>20 DEF ProviderAccepts, JobEnds, JobReadsInput, JobWritesOutput, JobOver
<1>21. ASSUME NEW i \in Id, OverwriteInput(i)
      PROVE  Frame
  BY <1>21, DispatchAssumption DEF OverwriteInput, JobOver
<1>22. ASSUME NEW p \in Path, OperatorDeletes(p)
      PROVE  Frame
  BY <1>22 DEF OperatorDeletes, JobOver
<1>23. CASE UNCHANGED vars
  <2> Frame
    BY <1>23 DEF vars, JobOver
  <2> QED
    BY <1>1
<1> HIDE <1>0 DEF Frame, TypeOK, Goto, Leave, FailsTo, Update, files, cloud
<1> QED
  BY <1>1, <1>2, <1>3, <1>4, <1>5, <1>6, <1>7, <1>8, <1>9, <1>10, <1>11,
     <1>12, <1>13, <1>14, <1>15, <1>16, <1>17, <1>18, <1>19, <1>20, <1>21,
     <1>22, <1>23, DispatchAssumption DEF Next, Step, World

\* The types that the arithmetic about generations needs.
ReadsTyped ==
    /\ \A e \in Exec : /\ value[e].before \in Nat
                       /\ value[e].got \in Nat
                       /\ value[e].recorded \in Nat
    /\ \A i \in Id : remote[i].generation \in Nat

\* The reads of the output have their types before and after a step.
LEMMA ReadsType == (TypeOK => ReadsTyped) /\ (TypeOK' => ReadsTyped')
BY DEF TypeOK, ReadsTyped, Values, Remotes

\* An execution that ends forgets what it read.
LEMMA LeavingAgrees ==
    ASSUME TypeOK, ReadsTyped, OutputInv, NEW e \in Exec,
           \A f \in Exec : req[f].id \in Id,
           UNCHANGED <<req, output, remote, job>>,
           \E l \in Stopped : pc' = [pc EXCEPT ![e] = l],
           value' = [value EXCEPT ![e] = NoValue]
    PROVE  OutputInv'
<1>1. ReadsAgree(e)'
  BY DEF TypeOK, ReadsAgree, ReadsTyped, NoValue, Stopped
<1>2. \A f \in Exec : f # e => ReadsAgree(f)'
  BY DEF TypeOK, OutputInv, ReadsAgree
<1>3. \A i \in Id : WrittenByJob(i)'
  BY DEF OutputInv, WrittenByJob
<1> QED
  BY <1>1, <1>2, <1>3 DEF OutputInv

\* Generations only grow, so that what execute() has read of the output never
\* exceeds what the bucket holds.
LEMMA OutputNext == IInv /\ [Next]_vars => OutputInv'
<1> SUFFICES ASSUME IInv, [Next]_vars PROVE OutputInv'
  OBVIOUS
<1>0. /\ TypeOK /\ TypeOK' /\ OutputInv /\ MemoryInv
      /\ ReadsTyped /\ ReadsTyped'
      /\ \A e \in Exec : /\ req[e].id \in Id
                          /\ req[e].receipt \in Path
                          /\ req[e].output \in Path
  BY TypeNext, ReqType, ReadsType DEF IInv, TypeOK, Receipts
<1> DEFINE SameReads(f) ==
        /\ value'[f].before = value[f].before
        /\ value'[f].got = value[f].got
        /\ value'[f].recorded = value[f].recorded
        /\ value'[f].retrieved = value[f].retrieved
<1> DEFINE Frame ==
        /\ UNCHANGED <<req, output, remote>>
        /\ \A f \in Exec :
            /\ job[f] # "none" => job'[f] # "none"
            /\ pc'[f] \in {"download", "stat-after", "publish-output"} =>
                    pc'[f] = pc[f]
            /\ SameReads(f)
<1>1. Frame => OutputInv'
  <2> SUFFICES ASSUME Frame PROVE OutputInv'
    OBVIOUS
  <2>1. \A i \in Id : WrittenByJob(i)'
    BY <1>0 DEF OutputInv, WrittenByJob
  <2>2. \A f \in Exec : ReadsAgree(f)'
    BY <1>0 DEF OutputInv, ReadsAgree
  <2> QED
    BY <2>1, <2>2 DEF OutputInv
<1> USE <1>0 DEF TypeOK, Goto, Leave, FailsTo, Update, files, cloud
<1>2. ASSUME NEW e \in Exec, Validate(e) \/ CheckRemoteOutput(e) \/
                             TakeLease(e) \/ RequireOwner(e)
      PROVE  Frame
  BY <1>2 DEF Validate, CheckRemoteOutput, TakeLease, RequireOwner, Values
<1>3. ASSUME NEW e \in Exec, StageInput(e)
      PROVE  Frame
  BY <1>3 DEF StageInput, Values
<1>4. ASSUME NEW e \in Exec, MarkStaged(e)
      PROVE  Frame
  BY <1>4 DEF MarkStaged, Values
<1>5. ASSUME NEW e \in Exec, MarkSubmitting(e)
      PROVE  Frame
  BY <1>5 DEF MarkSubmitting, Values
<1>6. ASSUME NEW e \in Exec, MarkSubmitted(e)
      PROVE  Frame
  BY <1>6 DEF MarkSubmitted, Values
<1>7. ASSUME NEW e \in Exec, MarkTerminal(e)
      PROVE  Frame
  BY <1>7 DEF MarkTerminal, Values
<1>8. ASSUME NEW e \in Exec, CheckpointFails(e)
      PROVE  Frame
  BY <1>8 DEF CheckpointFails, Values
<1>9. ASSUME NEW e \in Exec, SendRun(e)
      PROVE  Frame
  BY <1>9 DEF SendRun, Values
<1>10. ASSUME NEW e \in Exec, RunReturns(e)
      PROVE  Frame
  BY <1>10 DEF RunReturns, Values
<1>11. ASSUME NEW e \in Exec, RunThrows(e)
      PROVE  Frame
  BY <1>11 DEF RunThrows, Values
<1>12. ASSUME NEW e \in Exec, CancelUnrecorded(e) \/ WaitCancels(e) \/
                             WaitReturns(e) \/ WaitThrows(e)
      PROVE  Frame
  BY <1>12 DEF CancelUnrecorded, WaitCancels, WaitReturns, WaitThrows, Values
<1>13. ASSUME NEW e \in Exec, StatBefore(e)
      PROVE  OutputInv'
  <2>1. /\ UNCHANGED <<req, output, remote, job>>
        /\ pc' = [pc EXCEPT ![e] = "download"]
        /\ value' = [value EXCEPT ![e].before = remote[req[e].id].generation]
        /\ remote[req[e].id].generation # 0
    BY <1>13 DEF StatBefore
  <2> QED
    BY <2>1 DEF OutputInv, ReadsAgree, WrittenByJob, ReadsTyped
<1>14. ASSUME NEW e \in Exec, Download(e)
      PROVE  OutputInv'
  <2>1. /\ UNCHANGED <<req, output, remote, job>>
        /\ pc[e] = "download"
        /\ pc' = [pc EXCEPT ![e] = "stat-after"]
        /\ value' = [value EXCEPT ![e].got = remote[req[e].id].generation]
    BY <1>14 DEF Download
  <2> QED
    BY <2>1 DEF OutputInv, ReadsAgree, WrittenByJob, ReadsTyped
<1>15. ASSUME NEW e \in Exec, StatAfter(e)
      PROVE  OutputInv'
  <2> DEFINE g == remote[req[e].id].generation
  <2>1. /\ UNCHANGED <<req, output, remote, job>>
        /\ pc[e] = "stat-after"
        /\ pc' = [pc EXCEPT ![e] = "publish-output"]
        /\ value' = [value EXCEPT ![e].recorded = value[e].before]
        /\ value[e].before # 0
        /\ value[e].before = g
    BY <1>15 DEF StatAfter, SameObject
  <2>2. value[e].got = value[e].before
    <3>1. value[e].before <= value[e].got /\ value[e].got <= g
      BY <2>1 DEF OutputInv, ReadsAgree
    <3>2. value[e].before \in Nat /\ value[e].got \in Nat /\ g \in Nat
      BY DEF ReadsTyped
    <3> HIDE <1>0 DEF g
    <3> QED
      BY <2>1, <3>1, <3>2
  <2>3. /\ value'[e].before = value[e].before
        /\ value'[e].got = value[e].got
        /\ value'[e].recorded = value[e].before
        /\ value'[e].retrieved = value[e].retrieved
        /\ pc'[e] = "publish-output"
        /\ \A f \in Exec : f # e =>
              value'[f] = value[f] /\ pc'[f] = pc[f]
    BY <2>1 DEF Values
  <2>4. ~value[e].retrieved
    BY <2>1 DEF MemoryInv, AfterVerdict, Stopped
  <2>5. ReadsAgree(e)'
    BY <2>1, <2>2, <2>3, <2>4 DEF ReadsAgree, ReadsTyped
  <2>6. \A f \in Exec : f # e => ReadsAgree(f)'
    BY <2>1, <2>3 DEF OutputInv, ReadsAgree
  <2>7. \A i \in Id : WrittenByJob(i)'
    BY <2>1 DEF OutputInv, WrittenByJob
  <2> QED
    BY <2>5, <2>6, <2>7 DEF OutputInv
<1>16. ASSUME NEW e \in Exec, PublishOutput(e)
      PROVE  OutputInv'
  <2> DEFINE p == req[e].output
  <2>1. /\ UNCHANGED <<req, remote, job>>
        /\ pc[e] = "publish-output"
        /\ pc' = [pc EXCEPT ![e] = "mark-final"]
        /\ value' = [value EXCEPT ![e].retrieved = TRUE]
        /\ output[p] = None
        /\ output' = [output EXCEPT ![p] =
                        [by |-> e, generation |-> value[e].got]]
    BY <1>16 DEF PublishOutput, Publishable
  <2>2. \A f \in Exec : value[f].retrieved => output[req[f].output] # None
    <3>1. \A f \in Exec : [by |-> f, generation |-> value[f].recorded] # None
      <4> HIDE <1>0 DEF TypeOK
      <4>1. \A f \in Exec : value[f].recorded \in Nat
        BY <1>0 DEF ReadsTyped
      <4> QED
        BY <4>1, NoneAssumption DEF Bundles
    <3>2. \A f \in Exec : value[f].retrieved =>
            output[req[f].output] = [by |-> f, generation |-> value[f].recorded]
      BY DEF OutputInv, ReadsAgree
    <3> HIDE <1>0
    <3> QED
      BY <3>1, <3>2
  <2> QED
    BY <2>1, <2>2 DEF OutputInv, ReadsAgree, WrittenByJob, ReadsTyped
<1>17. ASSUME NEW e \in Exec, CheckInput(e) \/ RetrievalFails(e)
      PROVE  Frame
  BY <1>17 DEF CheckInput, RetrievalFails, Values
<1>18. ASSUME NEW e \in Exec, LeaseLost(e)
      PROVE  OutputInv'
  <2>1. /\ UNCHANGED <<req, output, remote, job>>
        /\ \E l \in Stopped : pc' = [pc EXCEPT ![e] = l]
        /\ value' = [value EXCEPT ![e] = NoValue]
    BY <1>18 DEF LeaseLost, Stopped
  <2> QED
    BY <2>1, LeavingAgrees
<1>19. ASSUME NEW e \in Exec, MarkFinal(e) \/ MarkFinalFails(e)
      PROVE  Frame
  BY <1>19 DEF MarkFinal, MarkFinalFails, Values
<1>20. ASSUME NEW e \in Exec, MarkRetry(e)
      PROVE  OutputInv'
  <2>1. /\ UNCHANGED <<req, output, remote, job>>
        /\ \E l \in Stopped : pc' = [pc EXCEPT ![e] = l]
        /\ value' = [value EXCEPT ![e] = NoValue]
    BY <1>20 DEF MarkRetry, Stopped
  <2> QED
    BY <2>1, LeavingAgrees
<1>21. ASSUME NEW e \in Exec, PersistFinal(e) \/ PersistFails(e)
      PROVE  Frame
  BY <1>21 DEF PersistFinal, PersistFails, Values
<1>22. ASSUME NEW e \in Exec, RemoveLease(e)
      PROVE  OutputInv'
  <2>1. /\ UNCHANGED <<req, output, remote, job>>
        /\ \E l \in Stopped : pc' = [pc EXCEPT ![e] = l]
        /\ value' = [value EXCEPT ![e] = NoValue]
    BY <1>22 DEF RemoveLease, Stopped
  <2> QED
    BY <2>1, LeavingAgrees
<1>23. ASSUME NEW e \in Exec, EndFails(e)
      PROVE  OutputInv'
  <2>1. /\ UNCHANGED <<req, output, remote, job>>
        /\ \E l \in Stopped : pc' = [pc EXCEPT ![e] = l]
        /\ value' = [value EXCEPT ![e] = NoValue]
    BY <1>23 DEF EndFails, Stopped
  <2> QED
    BY <2>1, LeavingAgrees
<1>24. ASSUME NEW e \in Exec, Crash(e)
      PROVE  OutputInv'
  <2>1. /\ UNCHANGED <<req, output, remote, job>>
        /\ \E l \in Stopped : pc' = [pc EXCEPT ![e] = l]
        /\ value' = [value EXCEPT ![e] = NoValue]
    BY <1>24 DEF Crash, Stopped
  <2> QED
    BY <2>1, LeavingAgrees
<1>25. ASSUME NEW e \in Exec, RemoveState(e)
      PROVE  Frame
  BY <1>25 DEF RemoveState, Values
<1>26. ASSUME NEW e \in Exec, JobEnds(e)
      PROVE  OutputInv'
  <2> Frame
    BY <1>26 DEF JobEnds, JobOver
  <2> QED
    BY <1>1
<1>27. ASSUME NEW e \in Exec, JobWritesOutput(e)
      PROVE  OutputInv'
  <2> DEFINE i == req[e].id
  <2>1. /\ UNCHANGED <<req, pc, value, output, job>>
        /\ job[e] # "none"
        /\ remote' = [remote EXCEPT ![i] =
                [generation |-> remote[i].generation + 1, by |-> e]]
    BY <1>27 DEF JobWritesOutput, Accepted, JobOver
  <2> QED
    BY <2>1 DEF OutputInv, ReadsAgree, WrittenByJob, ReadsTyped
<1>28. ASSUME NEW e \in Exec, ProviderAccepts(e) \/ JobReadsInput(e)
      PROVE  Frame
  BY <1>28 DEF ProviderAccepts, JobReadsInput, Values
<1>29. ASSUME NEW i \in Id, OverwriteInput(i)
      PROVE  Frame
  BY <1>29, DispatchAssumption DEF OverwriteInput, Values
<1>30. ASSUME NEW p \in Path, OperatorDeletes(p)
      PROVE  Frame
  BY <1>30 DEF OperatorDeletes, Values
<1>31. CASE UNCHANGED vars
  <2> Frame
    BY <1>31 DEF vars, Values
  <2> QED
    BY <1>1
<1> HIDE <1>0 DEF Frame, TypeOK, Goto, Leave, FailsTo, Update, files, cloud
<1> QED
  BY <1>1, <1>2, <1>3, <1>4, <1>5, <1>6, <1>7, <1>8, <1>9, <1>10, <1>11,
     <1>12, <1>13, <1>14, <1>15, <1>16, <1>17, <1>18, <1>19, <1>20, <1>21,
     <1>22, <1>23, <1>24, <1>25, <1>26, <1>27, <1>28, <1>29, <1>30, <1>31,
     DispatchAssumption
     DEF Next, Step, World

\* Only CheckInput leads to the retrieval, and it finds the staged input in its
\* place; nobody puts it back once it was overwritten.
LEMMA InputNext == IInv /\ [Next]_vars => InputInv'
<1> SUFFICES ASSUME IInv, [Next]_vars PROVE InputInv'
  OBVIOUS
<1>0. /\ TypeOK /\ TypeOK' /\ InputInv /\ MemoryInv
      /\ \A e \in Exec : req[e].id \in Id
      /\ None \notin Exec /\ Foreign \notin Exec
  BY TypeNext, ReqType, DispatchAssumption DEF IInv
<1> DEFINE Past(f) == pc[f] \in Retrieving \/ value[f].retrieved
           Frame == /\ UNCHANGED <<req, misread>>
                    /\ \A f \in Exec :
                        /\ job'[f] = "none" => job[f] = "none"
                        /\ input'[req[f].id] = f => input[req[f].id] = f
                        /\ Past(f)' => Past(f)
                        /\ job[f] = "succeeded" => job'[f] = "succeeded"
<1>1. Frame => InputInv'
  BY <1>0 DEF InputInv
<1> USE <1>0 DEF TypeOK, Goto, Leave, FailsTo, Update, files, cloud, Retrieving
<1>2. ASSUME NEW e \in Exec, Validate(e) \/ CheckRemoteOutput(e) \/
                             TakeLease(e) \/ RequireOwner(e)
      PROVE  Frame
  BY <1>2 DEF Validate, CheckRemoteOutput, TakeLease, RequireOwner, NoValue,
     Values
<1>3. ASSUME NEW e \in Exec, StageInput(e)
      PROVE  InputInv'
  <2>1. /\ UNCHANGED <<req, job, misread>>
        /\ pc[e] = "upload" /\ job[e] = "none"
        /\ \A f \in Exec : input'[req[f].id] = f => input[req[f].id] = f \/ f = e
        /\ \A f \in Exec : Past(f)' => Past(f)
    BY <1>3 DEF StageInput, MemoryInv, BeforeRun, Values
  <2> HIDE <1>0 DEF TypeOK, Past
  <2> QED
    BY <1>0, <2>1 DEF InputInv, Past
<1>4. ASSUME NEW e \in Exec, MarkStaged(e) \/ MarkSubmitting(e) \/
                             MarkSubmitted(e) \/ MarkTerminal(e)
      PROVE  Frame
  BY <1>4 DEF MarkStaged, MarkSubmitting, MarkSubmitted, MarkTerminal, Values
<1>5. ASSUME NEW e \in Exec, CheckpointFails(e)
      PROVE  Frame
  BY <1>5 DEF CheckpointFails
<1>6. ASSUME NEW e \in Exec, SendRun(e)
      PROVE  InputInv'
  <2>1. /\ UNCHANGED <<req, value, input, misread>>
        /\ pc[e] = "submit" /\ job[e] = "none"
        /\ job' = [job EXCEPT ![e] = "requested"]
        /\ \A f \in Exec : Past(f)' => Past(f)
    BY <1>6 DEF SendRun, MemoryInv, BeforeRun
  <2>2. ~Past(e)
    BY <2>1 DEF MemoryInv, AfterVerdict, Stopped
  <2> QED
    BY <2>1, <2>2 DEF InputInv
<1>7. ASSUME NEW e \in Exec, RunReturns(e)
      PROVE  Frame
  BY <1>7 DEF RunReturns, Values
<1>8. ASSUME NEW e \in Exec, RunThrows(e) \/ WaitThrows(e)
      PROVE  Frame
  BY <1>8 DEF RunThrows, WaitThrows
<1>9. ASSUME NEW e \in Exec, CancelUnrecorded(e) \/ WaitCancels(e)
      PROVE  Frame
  BY <1>9 DEF CancelUnrecorded, WaitCancels
<1>10. ASSUME NEW e \in Exec, WaitReturns(e)
      PROVE  Frame
  BY <1>10 DEF WaitReturns, Values
<1>11. ASSUME NEW e \in Exec, CheckInput(e)
      PROVE  InputInv'
  <2>1. /\ UNCHANGED <<req, value, input, job, misread>>
        /\ \A f \in Exec : f # e => pc'[f] = pc[f]
        /\ \/ pc'[e] \notin Retrieving
           \/ Succeeded(e) /\ input[req[e].id] = e
    BY <1>11 DEF CheckInput
  <2>2. Succeeded(e) => job[e] = "succeeded"
    BY DEF Succeeded, MemoryInv
  <2> HIDE <1>0 DEF TypeOK, Retrieving
  <2> QED
    BY <1>0, <2>1, <2>2 DEF InputInv
<1>12. ASSUME NEW e \in Exec, StatBefore(e) \/ Download(e) \/ StatAfter(e)
      PROVE  Frame
  BY <1>12 DEF StatBefore, Download, StatAfter, Values
<1>13. ASSUME NEW e \in Exec, PublishOutput(e) \/ RetrievalFails(e)
      PROVE  Frame
  BY <1>13 DEF PublishOutput, RetrievalFails, Values
<1>14. ASSUME NEW e \in Exec, MarkFinal(e) \/ MarkFinalFails(e) \/
                              PersistFinal(e) \/ PersistFails(e)
      PROVE  Frame
  BY <1>14 DEF MarkFinal, MarkFinalFails, PersistFinal, PersistFails
<1>15. ASSUME NEW e \in Exec, LeaseLost(e) \/ MarkRetry(e) \/ RemoveLease(e)
      PROVE  Frame
  BY <1>15 DEF LeaseLost, MarkRetry, RemoveLease, NoValue, Values
<1>16. ASSUME NEW e \in Exec, RemoveState(e)
      PROVE  Frame
  BY <1>16 DEF RemoveState
<1>17. ASSUME NEW e \in Exec, EndFails(e) \/ Crash(e)
      PROVE  Frame
  BY <1>17 DEF EndFails, Crash, NoValue, Values
<1>18. ASSUME NEW e \in Exec, ProviderAccepts(e) \/ JobEnds(e) \/
                              JobWritesOutput(e)
      PROVE  Frame
  BY <1>18 DEF ProviderAccepts, JobEnds, JobWritesOutput, JobOver
<1>19. ASSUME NEW e \in Exec, JobReadsInput(e)
      PROVE  InputInv'
  <2>1. /\ UNCHANGED <<req, pc, value, input, job>>
        /\ job[e] = "active"
        /\ misread' \subseteq misread \cup {e}
        /\ input[req[e].id] = e => misread' = misread
    BY <1>19 DEF JobReadsInput
  <2> HIDE <1>0 DEF TypeOK
  <2> QED
    BY <1>0, <2>1 DEF InputInv
<1>20. ASSUME NEW i \in Id, OverwriteInput(i)
      PROVE  Frame
  BY <1>20 DEF OverwriteInput
<1>21. ASSUME NEW p \in Path, OperatorDeletes(p)
      PROVE  Frame
  BY <1>21 DEF OperatorDeletes
<1>22. CASE UNCHANGED vars
  <2> Frame
    BY <1>22 DEF vars
  <2> QED
    BY <1>1
<1> HIDE <1>0 DEF Frame, TypeOK, Goto, Leave, FailsTo, Update, files, cloud
<1> QED
  BY <1>1, <1>2, <1>3, <1>4, <1>5, <1>6, <1>7, <1>8, <1>9, <1>10, <1>11,
     <1>12, <1>13, <1>14, <1>15, <1>16, <1>17, <1>18, <1>19, <1>20, <1>21,
     <1>22, DispatchAssumption DEF Next, Step, World

\* The writers of a complete receipt's output can only be its own job: a job
\* of another execution would be a second claim on the id.
LEMMA CompleteNext == IInv /\ [Next]_vars => CompleteReceiptIsOwnWork'
<1> SUFFICES ASSUME IInv, [Next]_vars PROVE CompleteReceiptIsOwnWork'
  OBVIOUS
<1>0. /\ TypeOK /\ TypeOK' /\ CompleteReceiptIsOwnWork /\ ClaimInv /\ OutputInv
      /\ VerdictsAreTruthful /\ MemoryInv /\ InputInv
      /\ \A p \in Path : receipt[p] # None => receipt[p].by \in Exec
      /\ \A e \in Exec : /\ req[e].id \in Id
                          /\ req[e].receipt \in Path
                          /\ req[e].output \in Path
  BY TypeNext, ReqType DEF IInv, TypeOK, Receipts
<1> DEFINE Frame ==
        /\ UNCHANGED <<req, receipt, output, misread>>
        /\ \A i \in Id : remote'[i].by = remote[i].by
<1>1. Frame => CompleteReceiptIsOwnWork'
  BY <1>0 DEF CompleteReceiptIsOwnWork
<1> USE <1>0 DEF TypeOK, Goto, Leave, FailsTo, Update, files, cloud
<1>2. ASSUME NEW e \in Exec, Validate(e) \/ CheckRemoteOutput(e) \/
                             TakeLease(e) \/ RequireOwner(e)
      PROVE  Frame
  BY <1>2 DEF Validate, CheckRemoteOutput, TakeLease, RequireOwner
<1>3. ASSUME NEW e \in Exec, StageInput(e)
      PROVE  Frame
  BY <1>3 DEF StageInput
<1>4. ASSUME NEW e \in Exec, MarkStaged(e) \/ MarkSubmitting(e) \/
                             MarkSubmitted(e) \/ MarkTerminal(e) \/
                             CheckpointFails(e)
      PROVE  Frame
  BY <1>4 DEF MarkStaged, MarkSubmitting, MarkSubmitted, MarkTerminal,
     CheckpointFails
<1>5. ASSUME NEW e \in Exec, SendRun(e) \/ RunReturns(e) \/ RunThrows(e)
      PROVE  Frame
  BY <1>5 DEF SendRun, RunReturns, RunThrows
<1>6. ASSUME NEW e \in Exec, CancelUnrecorded(e) \/ WaitCancels(e) \/
                             WaitReturns(e) \/ WaitThrows(e)
      PROVE  Frame
  BY <1>6 DEF CancelUnrecorded, WaitCancels, WaitReturns, WaitThrows
<1>7. ASSUME NEW e \in Exec, PublishOutput(e)
      PROVE  CompleteReceiptIsOwnWork'
  BY <1>7, NoneAssumption DEF PublishOutput, Publishable,
     CompleteReceiptIsOwnWork, Bundles, Receipts
<1>8. ASSUME NEW e \in Exec, CheckInput(e) \/ StatBefore(e) \/ Download(e) \/
                              StatAfter(e) \/ RetrievalFails(e)
      PROVE  Frame
  BY <1>8 DEF CheckInput, StatBefore, Download, StatAfter, RetrievalFails
<1>9. ASSUME NEW e \in Exec, MarkFinal(e) \/ MarkFinalFails(e) \/
                             LeaseLost(e)
      PROVE  Frame
  BY <1>9 DEF MarkFinal, MarkFinalFails, LeaseLost
<1>10. ASSUME NEW e \in Exec, PersistFinal(e)
      PROVE  CompleteReceiptIsOwnWork'
  <2> DEFINE q == req[e].receipt
  <2>1. UNCHANGED <<req, output, remote, job, misread>>
    BY <1>10 DEF PersistFinal
  <2>2. ASSUME ReceiptStatus(e) = "complete"
        PROVE  /\ value[e].recorded # 0
               /\ output[req[e].output] =
                    [by |-> e, generation |-> value[e].recorded]
               /\ remote[req[e].id].by = e
               /\ e \notin misread
    <3>1. value[e].retrieved /\ job[e] = "succeeded"
      BY <2>2 DEF ReceiptStatus, Success, Succeeded, MemoryInv
    <3>2. /\ value[e].recorded # 0
          /\ value[e].recorded <= remote[req[e].id].generation
          /\ output[req[e].output] =
                [by |-> e, generation |-> value[e].recorded]
      BY <3>1 DEF OutputInv, ReadsAgree
    <3>3. remote[req[e].id].generation # 0
      BY <3>2, ReadsType DEF ReadsTyped
    <3>4. WrittenByJob(req[e].id)
      BY DEF OutputInv
    <3>5. remote[req[e].id].by = e
      BY <3>1, <3>3, <3>4 DEF WrittenByJob, ClaimInv, Claims
    <3>6. e \notin misread
      BY <3>1 DEF InputInv
    <3> QED
      BY <3>2, <3>5, <3>6
  <2> QED
    BY <2>1, <2>2, PersistEffect, <1>10 DEF CompleteReceiptIsOwnWork
<1>11. ASSUME NEW e \in Exec, PersistFails(e) \/ MarkRetry(e)
      PROVE  Frame
  BY <1>11 DEF PersistFails, MarkRetry
<1>12. ASSUME NEW e \in Exec, RemoveState(e) \/ RemoveLease(e) \/
                              EndFails(e) \/ Crash(e)
      PROVE  Frame
  BY <1>12 DEF RemoveState, RemoveLease, EndFails, Crash
<1>13. ASSUME NEW e \in Exec, JobWritesOutput(e)
      PROVE  CompleteReceiptIsOwnWork'
  <2>1. /\ UNCHANGED <<req, receipt, output, misread>>
        /\ job[e] # "none"
        /\ \A i \in Id : \/ remote'[i].by = remote[i].by
                         \/ i = req[e].id /\ remote'[i].by = e
    BY <1>13 DEF JobWritesOutput, Accepted, JobOver
  <2>2. \A p \in Path :
            receipt[p] # None /\ receipt[p].status = "complete" =>
                job[receipt[p].by] = "succeeded"
    BY DEF VerdictsAreTruthful, Truthful
  <2>3. \A f \in Exec : job[f] # "none" /\ req[f].id = req[e].id => f = e
    BY <2>1 DEF ClaimInv, Claims
  <2>4. \A p \in Path :
            receipt[p] # None /\ receipt[p].status = "complete" =>
                remote'[req[receipt[p].by].id].by = receipt[p].by
    <3> SUFFICES ASSUME NEW p \in Path, receipt[p] # None,
                        receipt[p].status = "complete"
                 PROVE  remote'[req[receipt[p].by].id].by = receipt[p].by
      OBVIOUS
    <3>1. remote[req[receipt[p].by].id].by = receipt[p].by
      BY DEF CompleteReceiptIsOwnWork
    <3> QED
      BY <2>1, <2>2, <2>3, <3>1
  <2> HIDE <1>0 DEF TypeOK
  <2> QED
    BY <1>0, <2>1, <2>4 DEF CompleteReceiptIsOwnWork
<1>14. ASSUME NEW e \in Exec, ProviderAccepts(e) \/ JobEnds(e)
      PROVE  Frame
  BY <1>14 DEF ProviderAccepts, JobEnds
<1>15. ASSUME NEW i \in Id, OverwriteInput(i)
      PROVE  Frame
  BY <1>15, DispatchAssumption DEF OverwriteInput
<1>16. ASSUME NEW p \in Path, OperatorDeletes(p)
      PROVE  Frame
  BY <1>16 DEF OperatorDeletes
<1>17. ASSUME NEW e \in Exec, JobReadsInput(e)
      PROVE  CompleteReceiptIsOwnWork'
  <2>1. /\ UNCHANGED <<req, receipt, output, remote>>
        /\ job[e] = "active"
        /\ misread' \subseteq misread \cup {e}
    BY <1>17 DEF JobReadsInput
  <2>2. \A p \in Path :
            receipt[p] # None /\ receipt[p].status = "complete" =>
                receipt[p].by # e
    BY <2>1 DEF VerdictsAreTruthful, Truthful
  <2> HIDE <1>0 DEF TypeOK
  <2> QED
    BY <1>0, <2>1, <2>2 DEF CompleteReceiptIsOwnWork
<1>18. CASE UNCHANGED vars
  <2> Frame
    BY <1>18 DEF vars
  <2> QED
    BY <1>1
<1> HIDE <1>0 DEF Frame, TypeOK, Goto, Leave, FailsTo, Update, files, cloud
<1> QED
  BY <1>1, <1>2, <1>3, <1>4, <1>5, <1>6, <1>7, <1>8, <1>9, <1>10, <1>11,
     <1>12, <1>13, <1>14, <1>15, <1>16, <1>17, <1>18, DispatchAssumption DEF
     Next, Step, World

\* The lease of a path with staged work goes away only behind the receipt.
LEMMA BlockedNext == IInv /\ [Next]_vars => PathStaysBlocked'
<1> SUFFICES ASSUME IInv, [Next]_vars PROVE PathStaysBlocked'
  OBVIOUS
<1>0. /\ TypeOK /\ TypeOK' /\ PathStaysBlocked /\ HoldsLease /\ RecordInv
      /\ \A e \in Exec : /\ req[e].id \in Id
                          /\ req[e].receipt \in Path
                          /\ req[e].output \in Path
  BY TypeNext, ReqType DEF IInv, TypeOK, Receipts
<1> DEFINE Frame ==
        /\ UNCHANGED <<req, lease>>
        /\ \A i \in Id : input'[i] \in Exec => input'[i] = input[i]
        /\ \A f \in Exec : ReceiptBy(f) => ReceiptBy(f)'
<1>1. Frame => PathStaysBlocked'
  BY <1>0 DEF PathStaysBlocked
<1> USE <1>0 DEF TypeOK, Goto, Leave, FailsTo, Update, files, cloud
<1>2. ASSUME NEW e \in Exec, TakeLease(e)
      PROVE  PathStaysBlocked'
  <2> DEFINE p == req[e].receipt
  <2>1. CASE lease[p] = None /\ lease' = [lease EXCEPT ![p] = e]
    BY <2>1, <1>2, DispatchAssumption DEF TakeLease, PathStaysBlocked,
       ReceiptBy
  <2>2. CASE UNCHANGED lease
    <3> Frame
      BY <2>2, <1>2 DEF TakeLease, ReceiptBy
    <3> QED
      BY <1>1
  <2> QED
    BY <2>1, <2>2, <1>2 DEF TakeLease, Publishable
<1>3. ASSUME NEW e \in Exec, Validate(e) \/ CheckRemoteOutput(e) \/
                             RequireOwner(e)
      PROVE  Frame
  BY <1>3 DEF Validate, CheckRemoteOutput, RequireOwner, ReceiptBy
<1>4. ASSUME NEW e \in Exec, StageInput(e)
      PROVE  PathStaysBlocked'
  <2>1. UNCHANGED <<req, lease, receipt>>
    BY <1>4 DEF StageInput
  <2>2. MaxDeletions = 0 => lease[req[e].receipt] = e
    BY <1>4 DEF StageInput, HoldsLease, InTransaction, BeforeLease, Stopped
  <2>3. \A i \in Id : input'[i] = input[i] \/ input'[i] = e
    BY <1>4 DEF StageInput
  <2> QED
    BY <2>1, <2>2, <2>3 DEF PathStaysBlocked, ReceiptBy
<1>5. ASSUME NEW e \in Exec, MarkStaged(e) \/ MarkSubmitting(e) \/
                             MarkSubmitted(e) \/ MarkTerminal(e) \/
                             CheckpointFails(e)
      PROVE  Frame
  BY <1>5 DEF MarkStaged, MarkSubmitting, MarkSubmitted, MarkTerminal,
     CheckpointFails, ReceiptBy
<1>6. ASSUME NEW e \in Exec, SendRun(e) \/ RunReturns(e) \/ RunThrows(e)
      PROVE  Frame
  BY <1>6 DEF SendRun, RunReturns, RunThrows, ReceiptBy
<1>7. ASSUME NEW e \in Exec, CancelUnrecorded(e) \/ WaitCancels(e) \/
                             WaitReturns(e) \/ WaitThrows(e)
      PROVE  Frame
  BY <1>7 DEF CancelUnrecorded, WaitCancels, WaitReturns, WaitThrows,
     ReceiptBy
<1>8. ASSUME NEW e \in Exec, CheckInput(e) \/ StatBefore(e) \/ Download(e) \/
                              StatAfter(e) \/ PublishOutput(e) \/
                             RetrievalFails(e)
      PROVE  Frame
  BY <1>8 DEF CheckInput, StatBefore, Download, StatAfter, PublishOutput,
     RetrievalFails, ReceiptBy
<1>9. ASSUME NEW e \in Exec, MarkFinal(e) \/ MarkFinalFails(e) \/
                             LeaseLost(e)
      PROVE  Frame
  BY <1>9 DEF MarkFinal, MarkFinalFails, LeaseLost, ReceiptBy
<1>10. ASSUME NEW e \in Exec, PersistFinal(e)
      PROVE  PathStaysBlocked'
  <2>1. UNCHANGED <<req, lease, input>>
    BY <1>10 DEF PersistFinal
  <2>2. /\ receipt[req[e].receipt] = None
        /\ \A p \in Path : p # req[e].receipt => receipt'[p] = receipt[p]
    BY PersistEffect, <1>10
  <2>3. \A f \in Exec : ReceiptBy(f) => ReceiptBy(f)'
    BY <2>1, <2>2 DEF ReceiptBy
  <2> QED
    BY <2>1, <2>3 DEF PathStaysBlocked
<1>11. ASSUME NEW e \in Exec, PersistFails(e) \/ MarkRetry(e)
      PROVE  Frame
  BY <1>11 DEF PersistFails, MarkRetry, ReceiptBy
<1>12. ASSUME NEW e \in Exec, RemoveLease(e)
      PROVE  PathStaysBlocked'
  <2>1. ReceiptBy(e) /\ UNCHANGED <<req, receipt, input>>
    BY <1>12 DEF RemoveLease, RecordInv
  <2>2. MaxDeletions = 0 => lease[req[e].receipt] = e
    BY <1>12 DEF RemoveLease, HoldsLease, InTransaction, BeforeLease, Stopped
  <2>3. lease' = [lease EXCEPT ![req[e].receipt] = None]
    BY <1>12 DEF RemoveLease
  <2> QED
    BY <2>1, <2>2, <2>3 DEF PathStaysBlocked, ReceiptBy
<1>13. ASSUME NEW e \in Exec, RemoveState(e) \/ EndFails(e) \/ Crash(e)
      PROVE  Frame
  BY <1>13 DEF RemoveState, EndFails, Crash, ReceiptBy
<1>14. ASSUME NEW e \in Exec, ProviderAccepts(e) \/ JobEnds(e) \/
                              JobReadsInput(e) \/ JobWritesOutput(e)
      PROVE  Frame
  BY <1>14 DEF ProviderAccepts, JobEnds, JobReadsInput, JobWritesOutput, ReceiptBy
<1>15. ASSUME NEW i \in Id, OverwriteInput(i)
      PROVE  Frame
  BY <1>15, DispatchAssumption DEF OverwriteInput, ReceiptBy
<1>16. ASSUME NEW p \in Path, OperatorDeletes(p)
      PROVE  PathStaysBlocked'
  BY <1>16, DispatchAssumption DEF OperatorDeletes, PathStaysBlocked
<1>17. CASE UNCHANGED vars
  <2> Frame
    BY <1>17 DEF vars, ReceiptBy
  <2> QED
    BY <1>1
<1> HIDE <1>0 DEF Frame, TypeOK, Goto, Leave, FailsTo, Update, files, cloud
<1> QED
  BY <1>1, <1>2, <1>3, <1>4, <1>5, <1>6, <1>7, <1>8, <1>9, <1>10, <1>11,
     <1>12, <1>13, <1>14, <1>15, <1>16, <1>17, DispatchAssumption DEF
     Next, Step, World

-----------------------------------------------------------------------------
(* The action property and the refinement                                  *)

\* No step replaces or removes a published receipt or output.
LEMMA PublishedNext == IInv /\ [Next]_vars => PublishedKept
<1> SUFFICES ASSUME IInv, [Next]_vars PROVE PublishedKept
  OBVIOUS
<1>0. TypeOK
      /\ \A e \in Exec : /\ req[e].id \in Id
                          /\ req[e].receipt \in Path
                          /\ req[e].output \in Path
  BY TypeNext, ReqType DEF IInv, TypeOK, Receipts
<1> DEFINE Frame ==
        UNCHANGED <<receipt, output>>
<1>1. Frame => PublishedKept
  BY DEF PublishedKept
<1> USE <1>0 DEF TypeOK, Goto, Leave, FailsTo, Update, files, cloud
<1>2. ASSUME NEW e \in Exec, Validate(e) \/ CheckRemoteOutput(e) \/
                             TakeLease(e) \/ RequireOwner(e)
      PROVE  Frame
  BY <1>2 DEF Validate, CheckRemoteOutput, TakeLease, RequireOwner
<1>3. ASSUME NEW e \in Exec, StageInput(e)
      PROVE  Frame
  BY <1>3 DEF StageInput
<1>4. ASSUME NEW e \in Exec, MarkStaged(e) \/ MarkSubmitting(e) \/
                             MarkSubmitted(e) \/ MarkTerminal(e) \/
                             CheckpointFails(e)
      PROVE  Frame
  BY <1>4 DEF MarkStaged, MarkSubmitting, MarkSubmitted, MarkTerminal,
     CheckpointFails
<1>5. ASSUME NEW e \in Exec, SendRun(e) \/ RunReturns(e) \/ RunThrows(e)
      PROVE  Frame
  BY <1>5 DEF SendRun, RunReturns, RunThrows
<1>6. ASSUME NEW e \in Exec, CancelUnrecorded(e) \/ WaitCancels(e) \/
                             WaitReturns(e) \/ WaitThrows(e)
      PROVE  Frame
  BY <1>6 DEF CancelUnrecorded, WaitCancels, WaitReturns, WaitThrows
<1>7. ASSUME NEW e \in Exec, PublishOutput(e)
      PROVE  PublishedKept
  BY <1>7 DEF PublishOutput, Publishable, PublishedKept
<1>8. ASSUME NEW e \in Exec, CheckInput(e) \/ StatBefore(e) \/ Download(e) \/
                              StatAfter(e) \/ RetrievalFails(e)
      PROVE  Frame
  BY <1>8 DEF CheckInput, StatBefore, Download, StatAfter, RetrievalFails
<1>9. ASSUME NEW e \in Exec, MarkFinal(e) \/ MarkFinalFails(e) \/
                             LeaseLost(e)
      PROVE  Frame
  BY <1>9 DEF MarkFinal, MarkFinalFails, LeaseLost
<1>10. ASSUME NEW e \in Exec, PersistFinal(e)
      PROVE  PublishedKept
  <2>1. output' = output
    BY <1>10 DEF PersistFinal
  <2> QED
    BY <2>1, PersistEffect, <1>10 DEF PublishedKept
<1>11. ASSUME NEW e \in Exec, PersistFails(e) \/ MarkRetry(e)
      PROVE  Frame
  BY <1>11 DEF PersistFails, MarkRetry
<1>12. ASSUME NEW e \in Exec, RemoveState(e) \/ RemoveLease(e) \/
                              EndFails(e) \/ Crash(e)
      PROVE  Frame
  BY <1>12 DEF RemoveState, RemoveLease, EndFails, Crash
<1>13. ASSUME NEW e \in Exec, ProviderAccepts(e) \/ JobEnds(e) \/
                              JobReadsInput(e) \/ JobWritesOutput(e)
      PROVE  Frame
  BY <1>13 DEF ProviderAccepts, JobEnds, JobReadsInput, JobWritesOutput
<1>14. ASSUME NEW i \in Id, OverwriteInput(i)
      PROVE  Frame
  BY <1>14, DispatchAssumption DEF OverwriteInput
<1>15. ASSUME NEW p \in Path, OperatorDeletes(p)
      PROVE  Frame
  BY <1>15 DEF OperatorDeletes
<1>16. CASE UNCHANGED vars
  <2> Frame
    BY <1>16 DEF vars
  <2> QED
    BY <1>1
<1> HIDE <1>0 DEF Frame, TypeOK, Goto, Leave, FailsTo, Update, files, cloud
<1> QED
  BY <1>1, <1>2, <1>3, <1>4, <1>5, <1>6, <1>7, <1>8, <1>9, <1>10, <1>11,
     <1>12, <1>13, <1>14, <1>15, <1>16, DispatchAssumption DEF Next, Step,
     World

\* The state of the abstract job of e, and a step of the contract.
AbstractJob(e) == IF job[e] \in {"requested", "active"} THEN "live" ELSE job[e]

ContractStep == Contract!Next \/ UNCHANGED Contract!vars

\* A hold on a path is only taken with the lease and never won back: owns()
\* finds the token of e where e published it.
LEMMA HoldNext ==
    IInv /\ [Next]_vars => \A f \in Exec : Hold(f)' \in Contract!Onward(Hold(f))
<1> SUFFICES ASSUME IInv, [Next]_vars
             PROVE  \A f \in Exec : Hold(f)' \in Contract!Onward(Hold(f))
  OBVIOUS
<1>0. /\ TypeOK /\ TypeOK'
      /\ None \notin Exec
      /\ \A e \in Exec : req[e].receipt \in Path
  BY TypeNext, ReqType, DispatchAssumption DEF IInv
<1> DEFINE Owns(f) == lease[req[f].receipt] = f
           Shown(f) == pc[f] = "publish-receipt" /\ checked[f]
           Frame == /\ req' = req
                    /\ \A f \in Exec :
                        /\ pc'[f] \in BeforeLease => pc[f] \in BeforeLease
                        /\ Owns(f)' => Owns(f) \/ pc[f] \in BeforeLease
                        /\ Shown(f)' => Owns(f) \/ Shown(f)
<1>1. Frame => \A f \in Exec : Hold(f)' \in Contract!Onward(Hold(f))
  BY DEF Hold, Contract!Onward
<1> USE <1>0 DEF TypeOK, Goto, Leave, FailsTo, Update, files, cloud,
        BeforeLease
<1>2. ASSUME NEW e \in Exec, Validate(e) \/ CheckRemoteOutput(e)
      PROVE  Frame
  BY <1>2 DEF Validate, CheckRemoteOutput
<1>3. ASSUME NEW e \in Exec, TakeLease(e)
      PROVE  Frame
  BY <1>3 DEF TakeLease
<1>4. ASSUME NEW e \in Exec, RequireOwner(e)
      PROVE  Frame
  BY <1>4 DEF RequireOwner, OwnsLease
<1>5. ASSUME NEW e \in Exec, StageInput(e)
      PROVE  Frame
  BY <1>5 DEF StageInput
<1>6. ASSUME NEW e \in Exec, MarkStaged(e) \/ MarkSubmitting(e) \/
                             MarkSubmitted(e) \/ MarkTerminal(e) \/
                             CheckpointFails(e)
      PROVE  Frame
  BY <1>6 DEF MarkStaged, MarkSubmitting, MarkSubmitted, MarkTerminal,
     CheckpointFails
<1>7. ASSUME NEW e \in Exec, SendRun(e) \/ RunReturns(e) \/ RunThrows(e)
      PROVE  Frame
  BY <1>7 DEF SendRun, RunReturns, RunThrows
<1>8. ASSUME NEW e \in Exec, CancelUnrecorded(e) \/ WaitCancels(e) \/
                             WaitReturns(e) \/ WaitThrows(e)
      PROVE  Frame
  BY <1>8 DEF CancelUnrecorded, WaitCancels, WaitReturns, WaitThrows
<1>9. ASSUME NEW e \in Exec, CheckInput(e) \/ StatBefore(e) \/ Download(e) \/
                             StatAfter(e) \/ PublishOutput(e) \/
                             RetrievalFails(e)
      PROVE  Frame
  BY <1>9 DEF CheckInput, StatBefore, Download, StatAfter, PublishOutput,
     RetrievalFails
<1>10. ASSUME NEW e \in Exec, MarkFinal(e) \/ MarkFinalFails(e) \/
                              LeaseLost(e)
      PROVE  Frame
  BY <1>10 DEF MarkFinal, MarkFinalFails, LeaseLost
<1>11. ASSUME NEW e \in Exec, PersistFinal(e) \/ PersistFails(e) \/
                              MarkRetry(e)
      PROVE  Frame
  BY <1>11 DEF PersistFinal, PersistFails, MarkRetry
<1>12. ASSUME NEW e \in Exec, RemoveState(e) \/ RemoveLease(e) \/
                              EndFails(e) \/ Crash(e)
      PROVE  Frame
  BY <1>12 DEF RemoveState, RemoveLease, EndFails, Crash
<1>13. ASSUME NEW e \in Exec, ProviderAccepts(e) \/ JobEnds(e) \/
                              JobReadsInput(e) \/ JobWritesOutput(e)
      PROVE  Frame
  BY <1>13 DEF ProviderAccepts, JobEnds, JobReadsInput, JobWritesOutput
<1>14. ASSUME NEW i \in Id, OverwriteInput(i)
      PROVE  Frame
  BY <1>14 DEF OverwriteInput
<1>15. ASSUME NEW p \in Path, OperatorDeletes(p)
      PROVE  Frame
  BY <1>15 DEF OperatorDeletes
<1>16. CASE UNCHANGED vars
  <2> Frame
    BY <1>16 DEF vars
  <2> QED
    BY <1>1
<1> HIDE <1>0 DEF Frame, TypeOK, Goto, Leave, FailsTo, Update, files, cloud
<1> QED
  BY <1>1, <1>2, <1>3, <1>4, <1>5, <1>6, <1>7, <1>8, <1>9, <1>10, <1>11,
     <1>12, <1>13, <1>14, <1>15, <1>16, DispatchAssumption DEF Next, Step,
     World

\* Every step of Dispatch is a step of DispatchContract or leaves it alone:
\* SendRun submits, PersistFinal concludes, and the end of a job finishes it.
LEMMA ContractNext == IInv /\ [Next]_vars => ContractStep
<1> SUFFICES ASSUME IInv, [Next]_vars PROVE ContractStep
  OBVIOUS
<1>0. /\ TypeOK /\ TypeOK' /\ ClaimInv /\ MemoryInv /\ RecordInv
      /\ \A p \in Path : receipt[p] # None => receipt[p].by \in Exec
      /\ \A e \in Exec : /\ req[e].id \in Id
                          /\ req[e].receipt \in Path
                          /\ req[e].output \in Path
  BY TypeNext, ReqType DEF IInv, TypeOK, Receipts
<1> DEFINE Frame ==
        /\ UNCHANGED <<req, receipt>>
        /\ \A f \in Exec : AbstractJob(f)' = AbstractJob(f)
           Holds == [f \in Exec |-> Hold(f)]
<1>a. /\ Holds' = [f \in Exec |-> Holds'[f]]
      /\ \A f \in Exec : Holds'[f] \in Contract!Onward(Holds[f])
  BY HoldNext
<1>1. Frame => ContractStep
  BY <1>a DEF ContractStep, Contract!Next, Contract!TakeOrLose,
     Contract!HoldsMove, AbstractJob
<1>b. ASSUME UNCHANGED <<req, lease>>,
             \A f \in Exec :
                 \/ pc'[f] = pc[f] /\ checked'[f] = checked[f]
                 \/ /\ pc[f] \notin BeforeLease \cup {"publish-receipt"}
                    /\ pc'[f] \notin BeforeLease \cup {"publish-receipt"}
      PROVE  Holds' = Holds
  <2>1. \A f \in Exec : Hold(f)' = Hold(f)
    BY <1>b DEF Hold
  <2> QED
    BY <2>1
<1> USE <1>0 DEF TypeOK, Goto, Leave, FailsTo, Update, files, cloud
<1>2. ASSUME NEW e \in Exec, Validate(e) \/ CheckRemoteOutput(e) \/
                             TakeLease(e) \/ RequireOwner(e)
      PROVE  Frame
  BY <1>2 DEF Validate, CheckRemoteOutput, TakeLease, RequireOwner,
     AbstractJob
<1>3. ASSUME NEW e \in Exec, StageInput(e)
      PROVE  Frame
  BY <1>3 DEF StageInput, AbstractJob
<1>4. ASSUME NEW e \in Exec, MarkStaged(e) \/ MarkSubmitting(e) \/
                             MarkSubmitted(e) \/ MarkTerminal(e) \/
                             CheckpointFails(e)
      PROVE  Frame
  BY <1>4 DEF MarkStaged, MarkSubmitting, MarkSubmitted, MarkTerminal,
     CheckpointFails, AbstractJob
<1>5. ASSUME NEW e \in Exec, SendRun(e)
      PROVE  ContractStep
  <2>1. /\ UNCHANGED <<req, receipt>>
        /\ pc[e] = "submit"
        /\ job' = [job EXCEPT ![e] = "requested"]
    BY <1>5 DEF SendRun
  <2>2. \A f \in Exec : req[f].id = req[e].id => job[f] = "none"
    BY <2>1 DEF ClaimInv, Claims, MemoryInv, BeforeRun
  <2>3. \A p \in Path : receipt[p] # None => receipt[p].by # e
    BY <2>1 DEF RecordInv, AfterReceipt, Stopped
  <2>4. Holds' = Holds
    <3>1. /\ UNCHANGED <<req, lease>>
          /\ pc[e] = "submit" /\ pc'[e] = "run"
          /\ \A f \in Exec : f # e => pc'[f] = pc[f] /\ checked'[f] = checked[f]
      BY <1>5 DEF SendRun
    <3> QED
      BY <1>b, <3>1 DEF BeforeLease
  <2>5. Contract!Submit(e)
    BY <2>1, <2>2, <2>3, <2>4 DEF Contract!Submit
  <2> QED
    BY <2>5 DEF ContractStep, Contract!Next
<1>6. ASSUME NEW e \in Exec, RunReturns(e) \/ RunThrows(e)
      PROVE  Frame
  BY <1>6 DEF RunReturns, RunThrows, AbstractJob
<1>7. ASSUME NEW e \in Exec, CancelUnrecorded(e)
      PROVE  ContractStep
  <2>1. CASE job' = job
    <3> Frame
      BY <2>1, <1>7 DEF CancelUnrecorded, AbstractJob
    <3> QED
      BY <1>1
  <2>2. CASE job' # job
    <3>1. /\ job[e] = "active"
          /\ \E s \in JobOver : job' = [job EXCEPT ![e] = s]
          /\ UNCHANGED <<req, receipt>>
      BY <2>2, <1>7 DEF CancelUnrecorded, JobOver
    <3>2. /\ UNCHANGED <<req, lease>>
          /\ pc[e] = "cancel" /\ pc'[e] = "mark-final"
          /\ \A f \in Exec : f # e => pc'[f] = pc[f] /\ checked'[f] = checked[f]
      BY <1>7 DEF CancelUnrecorded
    <3>3. Holds' = Holds
      BY <1>b, <3>2 DEF BeforeLease
    <3> Contract!Finish(e)
      BY <3>1, <3>3 DEF Contract!Finish, JobOver
    <3> QED
      BY DEF ContractStep, Contract!Next
  <2> QED
    BY <2>1, <2>2
<1>8. ASSUME NEW e \in Exec, WaitCancels(e)
      PROVE  ContractStep
  <2>1. CASE job' = job
    <3> Frame
      BY <2>1, <1>8 DEF WaitCancels, AbstractJob
    <3> QED
      BY <1>1
  <2>2. CASE job' # job
    <3>1. /\ job[e] = "active"
          /\ \E s \in JobOver : job' = [job EXCEPT ![e] = s]
          /\ UNCHANGED <<req, receipt>>
      BY <2>2, <1>8 DEF WaitCancels, JobOver
    <3>2. /\ UNCHANGED <<req, lease>>
          /\ UNCHANGED <<pc, checked>>
      BY <1>8 DEF WaitCancels
    <3>3. Holds' = Holds
      BY <1>b, <3>2 DEF BeforeLease
    <3> Contract!Finish(e)
      BY <3>1, <3>3 DEF Contract!Finish, JobOver
    <3> QED
      BY DEF ContractStep, Contract!Next
  <2> QED
    BY <2>1, <2>2
<1>9. ASSUME NEW e \in Exec, WaitReturns(e) \/ WaitThrows(e)
      PROVE  Frame
  BY <1>9 DEF WaitReturns, WaitThrows, AbstractJob
<1>10. ASSUME NEW e \in Exec, CheckInput(e) \/ StatBefore(e) \/ Download(e) \/
                               StatAfter(e) \/ PublishOutput(e) \/
                              RetrievalFails(e)
      PROVE  Frame
  BY <1>10 DEF CheckInput, StatBefore, Download, StatAfter, PublishOutput,
     RetrievalFails, AbstractJob
<1>11. ASSUME NEW e \in Exec, MarkFinal(e) \/ MarkFinalFails(e) \/
                              LeaseLost(e)
      PROVE  Frame
  BY <1>11 DEF MarkFinal, MarkFinalFails, LeaseLost, AbstractJob
<1>12. ASSUME NEW e \in Exec, PersistFinal(e)
      PROVE  ContractStep
  <2> DEFINE q == req[e].receipt
             s == ReceiptStatus(e)
  <2>1. UNCHANGED <<req, job>> /\ pc[e] \notin Stopped
    BY <1>12 DEF PersistFinal, Stopped
  <2>2. Truthful(e, s) /\ s \in Verdicts
    BY <2>1, StatusTruthful, Labels
  <2>3. /\ s = "complete" => AbstractJob(e) = "succeeded"
        /\ s = "failed" => AbstractJob(e) # "live"
    BY <2>2 DEF Truthful, AbstractJob, JobOver
  <2>4. /\ receipt[q] = None
        /\ receipt'[q] # None
        /\ receipt'[q].by = e
        /\ receipt'[q].status = s
        /\ \A p \in Path : p # q => receipt'[p] = receipt[p]
    BY PersistEffect, <1>12
  <2> HIDE DEF s
  <2> DEFINE v == [p \in Path |->
                    IF receipt[p] = None THEN None
                    ELSE [by |-> receipt[p].by, status |-> receipt[p].status]]
  <2>5. v[q] = None /\ v' = [v EXCEPT ![q] = [by |-> e, status |-> s]]
    <3> HIDE <1>0 DEF q
    <3>1. q \in Path
      BY <1>0 DEF q
    <3> QED
      BY <2>4, <3>1
  <2>6. s \in {"complete", "recovery-required", "failed"}
    BY <2>2 DEF Verdicts
  <2>7. [f \in Exec |-> AbstractJob(f)][e] = AbstractJob(e)
    OBVIOUS
  <2> HIDE DEF v
  <2>8. Holds[e] = "held"
    BY <1>12 DEF PersistFinal, Hold, BeforeLease
  <2>9. Contract!HoldsMove
    BY <1>a DEF Contract!HoldsMove
  <2>10. Contract!Conclude(e)
    BY <2>1, <2>3, <2>5, <2>6, <2>7, <2>8, <2>9 DEF Contract!Conclude,
       AbstractJob, v
  <2> QED
    BY <2>10 DEF ContractStep, Contract!Next
<1>13. ASSUME NEW e \in Exec, PersistFails(e) \/ MarkRetry(e)
      PROVE  Frame
  BY <1>13 DEF PersistFails, MarkRetry, AbstractJob
<1>14. ASSUME NEW e \in Exec, RemoveState(e) \/ RemoveLease(e) \/
                              EndFails(e) \/ Crash(e)
      PROVE  Frame
  BY <1>14 DEF RemoveState, RemoveLease, EndFails, Crash, AbstractJob
<1>15. ASSUME NEW e \in Exec, JobEnds(e)
      PROVE  ContractStep
  <2>1. CASE job' = job
    <3> Frame
      BY <2>1, <1>15 DEF JobEnds, AbstractJob
    <3> QED
      BY <1>1
  <2>2. CASE job' # job
    <3>1. /\ job[e] = "active"
          /\ \E s \in JobOver : job' = [job EXCEPT ![e] = s]
          /\ UNCHANGED <<req, receipt>>
      BY <2>2, <1>15 DEF JobEnds, JobOver
    <3>2. /\ UNCHANGED <<req, lease>>
          /\ UNCHANGED <<pc, checked>>
      BY <1>15 DEF JobEnds
    <3>3. Holds' = Holds
      BY <1>b, <3>2 DEF BeforeLease
    <3> Contract!Finish(e)
      BY <3>1, <3>3 DEF Contract!Finish, JobOver
    <3> QED
      BY DEF ContractStep, Contract!Next
  <2> QED
    BY <2>1, <2>2
<1>16. ASSUME NEW e \in Exec, ProviderAccepts(e) \/
                              JobReadsInput(e) \/ JobWritesOutput(e)
      PROVE  Frame
  BY <1>16 DEF ProviderAccepts, JobReadsInput, JobWritesOutput, AbstractJob
<1>17. ASSUME NEW i \in Id, OverwriteInput(i)
      PROVE  Frame
  BY <1>17, DispatchAssumption DEF OverwriteInput, AbstractJob
<1>18. ASSUME NEW p \in Path, OperatorDeletes(p)
      PROVE  Frame
  BY <1>18 DEF OperatorDeletes, AbstractJob
<1>19. CASE UNCHANGED vars
  <2> Frame
    BY <1>19 DEF vars, AbstractJob
  <2> QED
    BY <1>1
<1> HIDE <1>0, <1>a DEF Frame, TypeOK, Goto, Leave, FailsTo, Update, files, cloud
<1> QED
  BY <1>1, <1>2, <1>3, <1>4, <1>5, <1>6, <1>7, <1>8, <1>9, <1>10, <1>11,
     <1>12, <1>13, <1>14, <1>15, <1>16, <1>17, <1>18, <1>19,
     DispatchAssumption DEF Next, Step, World

\* The initial states of Dispatch are initial for the contract.
LEMMA ContractInit == Init => Contract!Init
BY DEF Init, Contract!Init, Hold, BeforeLease

-----------------------------------------------------------------------------
(* The theorems                                                            *)

\* Nothing is staged, leased or written initially.
LEMMA InvariantInit == Init => IInv
<1> SUFFICES ASSUME Init PROVE IInv
  OBVIOUS
<1>1. TypeOK
  <2>1. NoValue \in Values /\ "validate" \in Pcs /\ "none" \in JobStates
    BY Labels
  <2>2. remote \in [Id -> Remotes]
    BY DEF Init, Remotes
  <2>3. deletions \in 0 .. MaxDeletions
    BY DispatchAssumption DEF Init
  <2> QED
    BY <2>1, <2>2, <2>3 DEF Init, TypeOK
<1>2. ClaimInv /\ MemoryInv /\ SubmissionIsRecorded /\ PathStaysBlocked
  BY <1>1, ReqType, DispatchAssumption DEF Init, ClaimInv, Claims,
     MemoryInv, NoValue, BeforeRun, BeforeLease, Stopped,
     SubmissionIsRecorded, PathStaysBlocked
<1>3. /\ RecordInv /\ HoldsLease /\ VerdictsAreTruthful
      /\ CompleteReceiptIsOwnWork
  BY NoneAssumption DEF Init, RecordInv, HoldsLease, InTransaction,
     BeforeLease, Verdicts, VerdictsAreTruthful, Truthful,
     CompleteReceiptIsOwnWork
<1>4. OutputInv
  BY <1>1, ReqType DEF Init, OutputInv, WrittenByJob, ReadsAgree, NoValue
<1>5. InputInv
  BY DEF Init, InputInv, Retrieving, NoValue
<1> QED
  BY <1>1, <1>2, <1>3, <1>4, <1>5 DEF IInv

\* The parts of the invariant are inductive together.
LEMMA InvariantNext == IInv /\ [Next]_vars => IInv'
<1> SUFFICES ASSUME IInv, [Next]_vars PROVE IInv'
  OBVIOUS
<1>1. TypeOK'
  BY TypeNext DEF IInv
<1>2. ClaimInv' /\ MemoryInv' /\ RecordInv'
  BY ClaimNext, MemoryNext, RecordNext
<1>3. OutputInv' /\ HoldsLease' /\ SubmissionIsRecorded'
  BY OutputNext, LeaseNext, SubmissionNext
<1>4. VerdictsAreTruthful' /\ CompleteReceiptIsOwnWork' /\ PathStaysBlocked'
  BY VerdictNext, CompleteNext, BlockedNext
<1>5. InputInv'
  BY InputNext
<1> QED
  BY <1>1, <1>2, <1>3, <1>4, <1>5 DEF IInv

\* The inductive invariant holds in every reachable state.
LEMMA Invariant == Spec => []IInv
BY InvariantInit, InvariantNext, PTL DEF Spec

\* Every variable keeps its type, whatever the calls of execute() do.
THEOREM TypeCorrect == Spec => []TypeOK
<1>1. IInv => TypeOK
  BY DEF IInv
<1> QED
  BY <1>1, Invariant, PTL

\* No two executions of one request id both ask for a job, with any number of
\* them and any crashes and deletions: the create-only upload of core::execute
\* is the claim, and no step gives it up.
THEOREM OneJobPerRequest == Spec => []AtMostOneJobPerRequest
<1>1. IInv => AtMostOneJobPerRequest
  BY DEF IInv, ClaimInv, Claims, AtMostOneJobPerRequest
<1> QED
  BY <1>1, Invariant, PTL

\* A submission that may have happened stays on record, through crashes, lost
\* leases and failed writes of execution_lease::update and persist_final.
THEOREM SubmissionRecorded == Spec => []SubmissionIsRecorded
<1>1. IInv => SubmissionIsRecorded
  BY DEF IInv
<1> QED
  BY <1>1, Invariant, PTL

\* The status that core::execute writes is true of the job and stays true.
THEOREM VerdictsTruthful == Spec => []VerdictsAreTruthful
<1>1. IInv => VerdictsAreTruthful
  BY DEF IInv
<1> QED
  BY <1>1, Invariant, PTL

\* A complete receipt vouches for the local output and for the input: the two
\* stats around the download pin the bytes, whatever attempts of the job write
\* meanwhile, and the stat of the input behind the job's end shows that no
\* attempt has read another than the one staged.
THEOREM CompleteReceiptOwnWork == Spec => []CompleteReceiptIsOwnWork
<1>1. IInv => CompleteReceiptIsOwnWork
  BY DEF IInv
<1> QED
  BY <1>1, Invariant, PTL

\* With no operator at work, a receipt path with staged work stays blocked.
THEOREM PathBlocked == Spec => []PathStaysBlocked
<1>1. IInv => PathStaysBlocked
  BY DEF IInv
<1> QED
  BY <1>1, Invariant, PTL

\* With no operator at work, execution_lease excludes other executions of the
\* receipt path from TakeLease to RemoveLease.
THEOREM LeaseExclusive == Spec => []LeaseIsExclusive
<1>1. IInv => LeaseIsExclusive
  BY DEF IInv, HoldsLease, LeaseIsExclusive
<1> QED
  BY <1>1, Invariant, PTL

\* publish_no_clobber is the only writer of receipts and outputs, so that what
\* it has published stays, even against stale executions.
THEOREM PublishedFinal == Spec => PublishedIsFinal
<1>1. IInv /\ [Next]_vars => [PublishedKept]_vars
  BY PublishedNext
<1> QED
  BY <1>1, Invariant, PTL DEF Spec, PublishedIsFinal

\* core::execute, run by any number of processes, implements the contract: one
\* job per request id, one lasting and true verdict per receipt path, none from
\* an execution that had lost its lease when owns() looked.
THEOREM Refinement == Spec => KeepsContract
<1>1. IInv /\ [Next]_vars => [Contract!Next]_Contract!vars
  BY ContractNext DEF ContractStep
<1> QED
  BY <1>1, ContractInit, Invariant, PTL DEF Spec, KeepsContract, Contract!Spec
=============================================================================
