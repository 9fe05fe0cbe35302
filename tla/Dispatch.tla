------------------------------ MODULE Dispatch ------------------------------
(***************************************************************************)
(* The artifact transaction of apps/dispatch.cpp: dispatch::core::execute  *)
(* run by several processes that may share a request id (and so the two    *)
(* remote objects) or a receipt path (and so the `.pending` lease), with   *)
(* every local and remote call able to fail, a process able to stop at any *)
(* point, a provider that accepts a create request late, and an operator   *)
(* who may delete a `.pending` file.                                       *)
(*                                                                         *)
(* One action stands for one file-system or provider call together with    *)
(* the assignments up to the next one.  Local steps between two calls, the *)
(* temporary files (each process has its own) and the texts of messages,   *)
(* warnings and progress lines are left out.                               *)
(***************************************************************************)
EXTENDS Naturals

CONSTANTS
    Exec,           \* executions: one call of core::execute each
    Id,             \* request ids; they name the remote input and output
    Path,           \* local paths a receipt or an output bundle may take
    Assignments,    \* which request each execution may have been given
    MaxGeneration,  \* bound: generations of a remote output object
    Shared,         \* bound: ids whose staged input others may overwrite
    MaxDeletions,   \* bound: `.pending` files an operator deletes
    None, Foreign   \* no file, object or owner; a writer outside dispatch

ASSUME DispatchAssumption ==
    /\ Assignments \subseteq
           [Exec -> [id : Id, receipt : Path, output : Path]]
    /\ MaxGeneration \in Nat
    /\ Shared \subseteq Id
    /\ MaxDeletions \in Nat
    /\ None \notin Exec /\ Foreign \notin Exec /\ None # Foreign

VARIABLES
    req,        \* req[e]: the request that prepare() pinned for e
    pc,         \* pc[e]: the call e makes next
    checked,    \* checked[e]: require_owner() has passed for that call
    value,      \* value[e]: what e remembers (locals of execute)
    lease,      \* lease[p]: execution_id stored in p.pending, or None
    recovery,   \* recovery[e]: status in .pending.EXECUTION_ID, or None
    receipt,    \* receipt[p]: the final receipt at p, or None
    output,     \* output[p]: the local output bundle at p, or None
    input,      \* input[i]: who wrote the remote input object of i, or None
    remote,     \* remote[i]: generation and writer of the remote output
    job,        \* job[e]: the provider job that e's run() asked for
    misread,    \* history: executions whose job has read another input
    deletions   \* `.pending` files deleted by an operator so far

files  == <<lease, recovery, receipt, output, deletions>>
cloud  == <<input, remote, job, misread>>
vars   == <<req, pc, checked, value, lease, recovery, receipt, output,
            input, remote, job, misread, deletions>>

-----------------------------------------------------------------------------
(* States                                                                  *)

\* A cancelled job counts as failed: execute() only asks result.success().
JobOver == {"succeeded", "failed"}
Accepted == {"active"} \cup JobOver
JobStates == {"none", "requested"} \cup Accepted

Verdicts == {"complete", "recovery-required", "failed"}
Checkpoints == {"input-staged", "submitting", "submitted", "terminal"}

\* The calls in front of which require_owner() or owns() runs: the five
\* writes of the recovery state, the final receipt, and the two removals.
GuardedPcs == {"mark-staged", "mark-submitting", "mark-submitted",
               "mark-terminal", "mark-final", "mark-retry",
               "publish-receipt", "remove-state", "remove-lease"}
BeforeLease == {"validate", "check-output", "take-lease"}
Stopped == {"refused", "done", "crashed"}
Pcs == GuardedPcs \cup BeforeLease \cup Stopped \cup
       {"upload", "submit", "run", "cancel", "wait", "check-input",
        "stat-before", "download", "stat-after", "publish-output"}

\* seen is job_state once wait() has returned; before, got and recorded are
\* generations of the output, 0 for none: of the first stat, of the bytes
\* downloaded, and value.output_generation.
Values == [staged : BOOLEAN, started : BOOLEAN, submitted : BOOLEAN,
           seen : {"unknown"} \cup JobOver, before : Nat, got : Nat,
           recorded : Nat, retrieved : BOOLEAN]
NoValue == [staged |-> FALSE, started |-> FALSE, submitted |-> FALSE,
            seen |-> "unknown", before |-> 0, got |-> 0, recorded |-> 0,
            retrieved |-> FALSE]

Receipts == [by : Exec, status : Verdicts, generation : Nat]
Bundles == [by : Exec, generation : Nat]
Remotes == [generation : Nat, by : Exec \cup {None}]

\* None is no token, no status and no file's content.
ASSUME NoneAssumption ==
    /\ None \notin Checkpoints \cup Verdicts
    /\ None \notin Receipts \cup Bundles
    /\ None \notin [by : Exec, status : Verdicts]

TypeOK ==
    /\ req \in Assignments
    /\ pc \in [Exec -> Pcs]
    /\ checked \in [Exec -> BOOLEAN]
    /\ value \in [Exec -> Values]
    /\ lease \in [Path -> Exec \cup {None}]
    /\ recovery \in [Exec -> {None} \cup Checkpoints \cup Verdicts]
    /\ receipt \in [Path -> {None} \cup Receipts]
    /\ output \in [Path -> {None} \cup Bundles]
    /\ input \in [Id -> Exec \cup {None, Foreign}]
    /\ remote \in [Id -> Remotes]
    /\ job \in [Exec -> JobStates]
    /\ misread \subseteq Exec
    /\ deletions \in 0 .. MaxDeletions

Init ==
    /\ req \in Assignments
    /\ pc = [e \in Exec |-> "validate"]
    /\ checked = [e \in Exec |-> FALSE]
    /\ value = [e \in Exec |-> NoValue]
    /\ lease = [p \in Path |-> None]
    /\ recovery = [e \in Exec |-> None]
    /\ receipt = [p \in Path |-> None]
    /\ output = [p \in Path |-> None]
    /\ input = [i \in Id |-> None]
    /\ remote = [i \in Id |-> [generation |-> 0, by |-> None]]
    /\ job = [e \in Exec |-> "none"]
    /\ misread = {}
    /\ deletions = 0

-----------------------------------------------------------------------------
(* Helpers                                                                 *)

Terminal(e) == value[e].seen # "unknown"
Succeeded(e) == value[e].seen = "succeeded"

\* Slip: a plain rename, which replaces what is there.
PublishableByRename(existing) == TRUE

\* publish_no_clobber: a hard link is refused when the name is taken.
Publishable(existing) == existing = None

\* Slip: the upload without its precondition.
CreateOrReplace(existing) == TRUE

\* if_generation_match = "0": the provider stores the object only when the
\* name is free.
CreateOnly(existing) == existing = None

\* pending_owner: the lease file holds this execution's token.
OwnsLease(e) == lease[req[e].receipt] = e

\* Slip: only asks whether the object exists both times.
BothExist(first, second) == first # 0 /\ second # 0

\* same_object on two reads of the output.
SameObject(first, second) == first # 0 /\ first = second

\* value.success, and receipt_status after the catch block has set
\* transaction_phase.
Success(e) == Succeeded(e) /\ value[e].retrieved
RecoveryRequiredWithHandle(e) == value[e].submitted /\ ~Terminal(e)    \* slip
RecoveryRequiredWithout(e) == ~value[e].submitted /\ value[e].started  \* slip
RecoveryRequired(e) ==
    \/ value[e].submitted /\ ~Terminal(e)
    \/ ~value[e].submitted /\ value[e].started
ReceiptStatusOfJob(e) == value[e].seen                                 \* slip
ReceiptStatus(e) ==
    IF Success(e) THEN "complete"
    ELSE IF RecoveryRequired(e) THEN "recovery-required" ELSE "failed"

Goto(e, next) == /\ pc' = [pc EXCEPT ![e] = next]
                 /\ checked' = [checked EXCEPT ![e] = FALSE]

\* The call at pc fails: execute() unwinds to `next`.
FailsTo(e, at, next) == /\ pc[e] = at
                        /\ Goto(e, next)
                        /\ UNCHANGED <<req, value, files, cloud>>

\* execute() ends, or its process does: the locals are gone.
Leave(e, how) == /\ Goto(e, how)
                 /\ value' = [value EXCEPT ![e] = NoValue]

-----------------------------------------------------------------------------
(* Before the lease: every failure leaves execute() by an exception, with  *)
(* no receipt.                                                             *)

\* validate_local_request: output, receipt and p.pending must not exist.
Validate(e) ==
    /\ pc[e] = "validate"
    /\ LET r == req[e] IN
       \/ /\ output[r.output] = None
          /\ receipt[r.receipt] = None
          /\ lease[r.receipt] = None
          /\ Goto(e, "check-output")
       \/ Goto(e, "refused")
    /\ UNCHANGED <<req, value, files, cloud>>

\* The refreshed plan may exceed the approved price and the stat may fail:
\* both refuse, as does an output object that exists already.
CheckRemoteOutput(e) ==
    /\ pc[e] = "check-output"
    /\ \/ /\ remote[req[e].id].generation = 0
          /\ Goto(e, "take-lease")
       \/ Goto(e, "refused")
    /\ UNCHANGED <<req, value, files, cloud>>

TakeLease(e) ==
    /\ pc[e] = "take-lease"
    /\ LET p == req[e].receipt IN
       \/ /\ Publishable(lease[p])
          /\ lease' = [lease EXCEPT ![p] = e]
          /\ Goto(e, "upload")
       \/ /\ Goto(e, "refused")
          /\ UNCHANGED lease
    /\ UNCHANGED <<req, value, recovery, receipt, output, deletions, cloud>>

-----------------------------------------------------------------------------
(* lease.update and lease.release: require_owner, then the write.  A       *)
(* process may lose its lease between the two.                             *)

RequireOwner(e) ==
    /\ pc[e] \in GuardedPcs
    /\ ~checked[e]
    /\ OwnsLease(e)
    /\ checked' = [checked EXCEPT ![e] = TRUE]
    /\ UNCHANGED <<req, pc, value, files, cloud>>

\* The body of update: publish or replace the recovery state, whose name
\* holds the execution token.  This is the rename of POSIX builds; on Windows
\* ReplaceFileW may also leave the former state under a backup's name.
Update(e, at, status) ==
    /\ pc[e] = at
    /\ checked[e]
    /\ recovery' = [recovery EXCEPT ![e] = status]
    /\ UNCHANGED <<req, lease, receipt, output, deletions, cloud>>

\* Slip: the "submitting" checkpoint is left out.
MarkStagedOnly(e) ==
    /\ Update(e, "mark-staged", "input-staged")
    /\ Goto(e, "submit")
    /\ value' = [value EXCEPT ![e].started = TRUE]

MarkStaged(e) == /\ Update(e, "mark-staged", "input-staged")
                 /\ Goto(e, "mark-submitting")
                 /\ UNCHANGED value

\* The last write before run(): from here on the submission may have happened.
MarkSubmitting(e) ==
    /\ Update(e, "mark-submitting", "submitting")
    /\ Goto(e, "submit")
    /\ value' = [value EXCEPT ![e].started = TRUE]

MarkSubmitted(e) == /\ Update(e, "mark-submitted", "submitted")
                    /\ Goto(e, "wait")
                    /\ UNCHANGED value

MarkTerminal(e) == /\ Update(e, "mark-terminal", "terminal")
                   /\ Goto(e, "check-input")
                   /\ UNCHANGED value

\* A checkpoint that fails: the lease is not ours any more, or I/O failed.
CheckpointFails(e) ==
    \/ FailsTo(e, "mark-staged", "mark-final")
    \/ FailsTo(e, "mark-submitting", "mark-final")
    \/ FailsTo(e, "mark-submitted", "cancel")
    \/ FailsTo(e, "mark-terminal", "mark-final")

-----------------------------------------------------------------------------
(* The transaction body                                                    *)

\* The snapshot, its hash and the create-only upload.  The provider may store
\* the object and the answer be lost or lack metadata: put_file then throws.
StageInput(e) ==
    /\ pc[e] = "upload"
    /\ LET i == req[e].id IN
       \/ /\ CreateOnly(input[i])
          /\ input' = [input EXCEPT ![i] = e]
          /\ \/ /\ Goto(e, "mark-staged")
                /\ value' = [value EXCEPT ![e].staged = TRUE]
             \/ /\ Goto(e, "mark-final")
                /\ UNCHANGED value
       \/ /\ Goto(e, "mark-final")
          /\ UNCHANGED <<input, value>>
    /\ UNCHANGED <<req, files, remote, job, misread>>

\* bound.run sends its create request.
SendRun(e) ==
    /\ pc[e] = "submit"
    /\ job' = [job EXCEPT ![e] = "requested"]
    /\ Goto(e, "run")
    /\ UNCHANGED <<req, value, files, input, remote, misread>>

\* run() returns a handle once the provider has accepted, or throws: it
\* refused before sending, or the outcome is unknown.
RunReturns(e) ==
    /\ pc[e] = "run"
    /\ job[e] \in Accepted
    /\ value' = [value EXCEPT ![e].submitted = TRUE]
    /\ Goto(e, "mark-submitted")
    /\ UNCHANGED <<req, files, cloud>>

RunThrows(e) == \/ FailsTo(e, "submit", "mark-final")
                \/ FailsTo(e, "run", "mark-final")

\* submitted->cancel() after the "submitted" checkpoint failed: it works or
\* it throws, and execute() unwinds.
CancelUnrecorded(e) ==
    /\ pc[e] = "cancel"
    /\ \/ job[e] = "active" /\ job' = [job EXCEPT ![e] = "failed"]
       \/ UNCHANGED job
    /\ Goto(e, "mark-final")
    /\ UNCHANGED <<req, value, files, input, remote, misread>>

\* wait() cancels the job at the deadline, or on its way out of a failure.
WaitCancels(e) ==
    /\ pc[e] = "wait"
    /\ job[e] = "active"
    /\ job' = [job EXCEPT ![e] = "failed"]
    /\ UNCHANGED <<req, pc, checked, value, files, input, remote, misread>>

WaitReturns(e) ==
    /\ pc[e] = "wait"
    /\ job[e] \in JobOver
    /\ value' = [value EXCEPT ![e].seen = job[e]]
    /\ Goto(e, "mark-terminal")
    /\ UNCHANGED <<req, files, cloud>>

WaitThrows(e) == FailsTo(e, "wait", "mark-final")

\* Slip: asks only whether the staged input still exists.
CheckInputExists(e) ==
    /\ pc[e] = "check-input"
    /\ IF Succeeded(e)
       THEN \/ input[req[e].id] # None /\ Goto(e, "stat-before")
            \/ Goto(e, "mark-final")
       ELSE Goto(e, "mark-final")
    /\ UNCHANGED <<req, value, files, cloud>>

\* The staged input must still be the object that was uploaded; a failure
\* counts only when the job succeeded.
CheckInput(e) ==
    /\ pc[e] = "check-input"
    /\ IF Succeeded(e)
       THEN \/ input[req[e].id] = e /\ Goto(e, "stat-before")
            \/ Goto(e, "mark-final")
       ELSE Goto(e, "mark-final")
    /\ UNCHANGED <<req, value, files, cloud>>

StatBefore(e) ==
    /\ pc[e] = "stat-before"
    /\ LET g == remote[req[e].id].generation IN
       /\ g # 0
       /\ value' = [value EXCEPT ![e].before = g]
    /\ Goto(e, "download")
    /\ UNCHANGED <<req, files, cloud>>

Download(e) ==
    /\ pc[e] = "download"
    /\ value' = [value EXCEPT ![e].got = remote[req[e].id].generation]
    /\ Goto(e, "stat-after")
    /\ UNCHANGED <<req, files, cloud>>

StatAfter(e) ==
    /\ pc[e] = "stat-after"
    /\ SameObject(value[e].before, remote[req[e].id].generation)
    /\ value' = [value EXCEPT ![e].recorded = value[e].before]
    /\ Goto(e, "publish-output")
    /\ UNCHANGED <<req, files, cloud>>

PublishOutput(e) ==
    /\ pc[e] = "publish-output"
    /\ LET p == req[e].output IN
       /\ Publishable(output[p])
       /\ output' = [output EXCEPT ![p] =
                        [by |-> e, generation |-> value[e].got]]
    /\ value' = [value EXCEPT ![e].retrieved = TRUE]
    /\ Goto(e, "mark-final")
    /\ UNCHANGED <<req, lease, recovery, receipt, deletions, cloud>>

RetrievalFails(e) ==
    \E at \in {"stat-before", "download", "stat-after", "publish-output"} :
        FailsTo(e, at, "mark-final")

-----------------------------------------------------------------------------
(* The end of execute(): last checkpoint, final receipt, release           *)

MarkFinal(e) == /\ Update(e, "mark-final", ReceiptStatus(e))
                /\ Goto(e, "publish-receipt")
                /\ UNCHANGED value

\* The failure of the last checkpoint only adds a warning.
MarkFinalFails(e) == FailsTo(e, "mark-final", "publish-receipt")

\* owns() is false, which it also is when the lease cannot be read: no
\* receipt.
LeaseLost(e) == /\ pc[e] = "publish-receipt"
                /\ ~checked[e]
                /\ Leave(e, "done")
                /\ UNCHANGED <<req, files, cloud>>

\* Slip: the receipt is published with no look at the lease.
PersistFinalUnowned(e) ==
    /\ pc[e] = "publish-receipt"
    /\ LET p == req[e].receipt IN
       /\ Publishable(receipt[p])
       /\ receipt' = [receipt EXCEPT ![p] =
            [by |-> e, status |-> ReceiptStatus(e),
             generation |-> value[e].recorded]]
    /\ Goto(e, "remove-state")
    /\ UNCHANGED <<req, value, lease, recovery, output, deletions, cloud>>

PersistFinal(e) ==
    /\ pc[e] = "publish-receipt"
    /\ checked[e]
    /\ LET p == req[e].receipt IN
       /\ Publishable(receipt[p])
       /\ receipt' = [receipt EXCEPT ![p] =
            [by |-> e, status |-> ReceiptStatus(e),
             generation |-> value[e].recorded]]
    /\ Goto(e, "remove-state")
    /\ UNCHANGED <<req, value, lease, recovery, output, deletions, cloud>>

\* Slip: the pending files are removed although no receipt was written.
PersistFailsAndReleases(e) ==
    checked[e] /\ FailsTo(e, "publish-receipt", "remove-state")

PersistFails(e) == checked[e] /\ FailsTo(e, "publish-receipt", "mark-retry")

MarkRetry(e) == /\ Update(e, "mark-retry", ReceiptStatus(e))
                /\ Leave(e, "done")

RemoveState(e) ==
    /\ pc[e] = "remove-state"
    /\ checked[e]
    /\ recovery' = [recovery EXCEPT ![e] = None]
    /\ Goto(e, "remove-lease")
    /\ UNCHANGED <<req, value, lease, receipt, output, deletions, cloud>>

\* The removal names a path: whoever's lease is there goes.
RemoveLease(e) ==
    /\ pc[e] = "remove-lease"
    /\ checked[e]
    /\ lease' = [lease EXCEPT ![req[e].receipt] = None]
    /\ Leave(e, "done")
    /\ UNCHANGED <<req, recovery, receipt, output, deletions, cloud>>

EndFails(e) == /\ pc[e] \in {"mark-retry", "remove-state", "remove-lease"}
               /\ Leave(e, "done")
               /\ UNCHANGED <<req, files, cloud>>

-----------------------------------------------------------------------------
(* The world around an execution                                           *)

Crash(e) ==
    /\ pc[e] \notin Stopped
    /\ Leave(e, "crashed")
    /\ UNCHANGED <<req, files, cloud>>

\* The provider accepts a create request, perhaps long after it was sent,
\* or never gets it.
ProviderAccepts(e) ==
    /\ job[e] = "requested"
    /\ job' = [job EXCEPT ![e] = "active"]
    /\ UNCHANGED <<req, pc, checked, value, files, input, remote, misread>>

JobEnds(e) ==
    /\ job[e] = "active"
    /\ \E s \in JobOver : job' = [job EXCEPT ![e] = s]
    /\ UNCHANGED <<req, pc, checked, value, files, input, remote, misread>>

\* A container attempt of the job fetches its input.  An attempt does so when
\* it starts, and none starts once the job is over.
JobReadsInput(e) ==
    /\ job[e] = "active"
    /\ misread' = misread \cup IF input[req[e].id] = e THEN {} ELSE {e}
    /\ UNCHANGED <<req, pc, checked, value, files, input, remote, job>>

\* A container attempt of the job writes the output, possibly a second time
\* and after the job was reported over (a retried or preempted attempt).
JobWritesOutput(e) ==
    /\ job[e] \in Accepted
    /\ LET i == req[e].id IN
       /\ remote[i].generation < MaxGeneration
       /\ remote' = [remote EXCEPT ![i] =
            [generation |-> remote[i].generation + 1, by |-> e]]
    /\ UNCHANGED <<req, pc, checked, value, files, input, job, misread>>

\* Someone else overwrites a staged input.
OverwriteInput(i) ==
    /\ input[i] \in Exec
    /\ input' = [input EXCEPT ![i] = Foreign]
    /\ UNCHANGED <<req, pc, checked, value, files, remote, job, misread>>

\* An operator deletes p.pending, with or without a live owner.
OperatorDeletes(p) ==
    /\ deletions < MaxDeletions
    /\ deletions' = deletions + 1
    /\ lease[p] # None
    /\ lease' = [lease EXCEPT ![p] = None]
    /\ UNCHANGED <<req, pc, checked, value, recovery, receipt, output, cloud>>

-----------------------------------------------------------------------------

Step(e) ==
    \/ Validate(e) \/ CheckRemoteOutput(e) \/ TakeLease(e)
    \/ RequireOwner(e) \/ StageInput(e)
    \/ MarkStaged(e) \/ MarkSubmitting(e) \/ MarkSubmitted(e) \/ MarkTerminal(e)
    \/ CheckpointFails(e)
    \/ SendRun(e) \/ RunReturns(e) \/ RunThrows(e)
    \/ CancelUnrecorded(e) \/ WaitCancels(e) \/ WaitReturns(e) \/ WaitThrows(e)
    \/ CheckInput(e) \/ StatBefore(e) \/ Download(e) \/ StatAfter(e)
    \/ PublishOutput(e) \/ RetrievalFails(e)
    \/ MarkFinal(e) \/ MarkFinalFails(e) \/ LeaseLost(e)
    \/ PersistFinal(e) \/ PersistFails(e) \/ MarkRetry(e)
    \/ RemoveState(e) \/ RemoveLease(e) \/ EndFails(e)

World ==
    \/ \E e \in Exec : \/ Crash(e) \/ ProviderAccepts(e) \/ JobEnds(e)
                       \/ JobReadsInput(e) \/ JobWritesOutput(e)
    \/ \E i \in Shared : OverwriteInput(i)
    \/ \E p \in Path : OperatorDeletes(p)

Next == (\E e \in Exec : Step(e)) \/ World

Spec == Init /\ [][Next]_vars

-----------------------------------------------------------------------------
(* Properties                                                              *)

\* Two executions never both ask the provider for a job of the same request
\* id, whatever leases, crashes and operators do: the create-only upload in
\* core::execute decides which one may.
AtMostOneJobPerRequest ==
    \A e, f \in Exec :
        /\ req[e].id = req[f].id
        /\ job[e] # "none"
        /\ job[f] # "none"
        => e = f

ReceiptBy(e) == LET p == req[e].receipt IN
                receipt[p] # None /\ receipt[p].by = e

\* Write-ahead: once a create request may have left, a file that says so is on
\* disk and stays there: the recovery state at "submitting" or later, or the
\* final receipt.  A crash at any point leaves it for the operator.
SubmissionIsRecorded ==
    \A e \in Exec : job[e] # "none" =>
        \/ ReceiptBy(e)
        \/ recovery[e] \in (Checkpoints \ {"input-staged"}) \cup Verdicts

\* A record on disk never calls a transaction failed while its job may still
\* run, and calls it complete only when its job succeeded: a failure after
\* submission is "recovery-required" until wait() has a terminal result.
Truthful(e, status) ==
    /\ status = "complete" => job[e] = "succeeded"
    /\ status = "failed" => job[e] \in {"none"} \cup JobOver

VerdictsAreTruthful ==
    /\ \A e \in Exec : Truthful(e, recovery[e])
    /\ \A p \in Path : receipt[p] # None =>
            Truthful(receipt[p].by, receipt[p].status)

\* A complete receipt names the generation of the bytes in the local output,
\* the execution that retrieved them is the one that ran the job, no other
\* execution's job wrote that remote object, and no attempt of the job has read
\* an input other than the one staged for it, although both objects may be
\* rewritten at any time, also between two looks at them.
CompleteReceiptIsOwnWork ==
    \A p \in Path :
        receipt[p] # None /\ receipt[p].status = "complete" =>
            LET e == receipt[p].by
                g == receipt[p].generation
            IN /\ g # 0
               /\ output[req[e].output] = [by |-> e, generation |-> g]
               /\ remote[req[e].id].by = e
               /\ e \notin misread

\* A published receipt or output is never replaced or removed by any
\* execution, stale or not.
PublishedKept ==
    \A p \in Path : /\ receipt[p] # None => receipt'[p] = receipt[p]
                    /\ output[p] # None => output'[p] = output[p]

PublishedIsFinal == [][PublishedKept]_vars

\* Without an operator, while the input that an execution staged is in the
\* bucket its receipt path stays blocked for later executions: by its lease,
\* crashed or not, until its own receipt blocks it.
PathStaysBlocked ==
    MaxDeletions = 0 =>
        \A e \in Exec : input[req[e].id] = e =>
            lease[req[e].receipt] = e \/ ReceiptBy(e)

\* Without an operator, two executions of the same receipt path are never
\* both between taking and releasing the lease.
InTransaction(e) == pc[e] \notin BeforeLease \cup Stopped

LeaseIsExclusive ==
    MaxDeletions = 0 =>
        \A e, f \in Exec :
            /\ req[e].receipt = req[f].receipt
            /\ InTransaction(e)
            /\ InTransaction(f)
            => e = f

-----------------------------------------------------------------------------
(* Refinement                                                              *)

\* An execution holds its path from the lease on, for as long as the lease is
\* its own; the look of owns() covers the publication right behind it.
Hold(e) ==
    IF pc[e] \in BeforeLease THEN "none"
    ELSE IF \/ lease[req[e].receipt] = e
            \/ pc[e] = "publish-receipt" /\ checked[e]
         THEN "held" ELSE "lost"

Contract == INSTANCE DispatchContract WITH
    id <- [e \in Exec |-> req[e].id],
    place <- [e \in Exec |-> req[e].receipt],
    jobs <- [e \in Exec |-> IF job[e] \in {"requested", "active"}
                            THEN "live" ELSE job[e]],
    hold <- [e \in Exec |-> Hold(e)],
    verdict <- [p \in Path |->
        IF receipt[p] = None THEN None
        ELSE [by |-> receipt[p].by, status |-> receipt[p].status]]

\* execute() keeps the contract of DispatchContract: at most one job per
\* request id, one lasting and true verdict per receipt path, none by an
\* execution whose hold on the path was lost before its last look, and no job
\* asked for after its own verdict.
KeepsContract == Contract!Spec
=============================================================================
