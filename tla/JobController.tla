--------------------------- MODULE JobController ---------------------------
(***************************************************************************)
(* The controller of one submitted job: wait() and cancel() of             *)
(* include/cldmux/client.hpp (class job) with cancel_job, delete_job and   *)
(* make_result of job.hpp, called one after the other as the class asks.   *)
(* A request to the provider can be refused, be carried out later, or go   *)
(* unanswered, carried out or not; every read can fail.  A log poll is one *)
(* step that may call the sink.                                            *)
(***************************************************************************)
EXTENDS Naturals

CONSTANTS
    MaxCalls,   \* bound: calls of wait() and cancel()
    None

VARIABLES
    provider,
    autoDelete,         \* job_spec::auto_delete
    job,                \* the job at the provider
    record,             \* what delete_job releases: AWS definition, Azure or GCP job
    asked,              \* requests the provider may still carry out
    pc,                 \* what the controller does next
    after,              \* why it cancels or ends
    calls,              \* calls so far
    seen,               \* the terminal state in the JSON last read
    action,             \* the AWS request: "cancel" or "terminate"
    uncertain,          \* the last request went unanswered
    cancelRequested,    \* job_data::cancel_requested
    cached,             \* job_data::cached, its state
    answer,             \* how the last call ended
    cleanups            \* calls of delete_job

cloud == <<provider, autoDelete, job, record>>
memory == <<seen, action, uncertain, cancelRequested, cached, answer, cleanups>>
vars == <<cloud, asked, pc, after, calls, memory>>

Live == {"queued", "running"}
Over == {"succeeded", "failed", "stopped"}
Results == {"succeeded", "failed", "cancelled"}
Cancelling == {"observe", "request", "confirm"}
Cleaning == {"terminate", "terminating", "remove", "removing"}
Requests == {"cancel", "terminate", "complete", "remove"}

ASSUME ControllerAssumption == /\ MaxCalls \in Nat
                               /\ None \notin Results \cup Over \cup {"threw"}

\* The types of the variables; a result is one of the three final states.
TypeOK == /\ provider \in {"aws", "azure", "gcp"}
          /\ autoDelete \in BOOLEAN
          /\ job \in Live \cup Over
          /\ record \in {"active", "completed", "gone"}
          /\ asked \subseteq Requests
          /\ pc \in {"idle", "poll", "look", "drain", "result"} \cup Cancelling \cup Cleaning
          /\ after \in {None, "end", "deadline", "sink", "control", "cancel"}
          /\ calls \in 0..MaxCalls
          /\ seen \in {None} \cup Over
          /\ action \in {"cancel", "terminate"}
          /\ uncertain \in BOOLEAN /\ cancelRequested \in BOOLEAN
          /\ cached \in {None} \cup Results
          /\ answer \in {None, "threw"} \cup Results
          /\ cleanups \in Nat

Init == /\ provider \in {"aws", "azure", "gcp"}
        /\ autoDelete \in BOOLEAN
        /\ job = "queued" /\ record = "active" /\ asked = {}
        /\ pc = "idle" /\ after = None /\ calls = 0
        /\ seen = None /\ action = "terminate"
        /\ uncertain = FALSE /\ cancelRequested = FALSE
        /\ cached = None /\ answer = None /\ cleanups = 0
-----------------------------------------------------------------------------
(* The provider.                                                           *)

JobStarts == /\ job = "queued" /\ job' = "running"
             /\ UNCHANGED <<provider, autoDelete, record, asked, pc, after, calls, memory>>

\* Somebody else can cancel a GCP job.
JobEnds == /\ job \in Live
           /\ job' \in {"succeeded", "failed"} \cup {s \in {"stopped"} : provider = "gcp"}
           /\ UNCHANGED <<provider, autoDelete, record, asked, pc, after, calls, memory>>

\* CancelJob of AWS stops only a job that has not started; the end of the
\* Azure or GCP record stops its job too.
Stops(r) == CASE r = "cancel" -> {"queued"}
              [] r = "terminate" \/ (r # "cancel" /\ provider # "aws") -> Live
              [] OTHER -> {}

CarryOut(r) ==
    /\ r \in asked
    /\ asked' = asked \ {r}
    /\ job' = IF job \in Stops(r) THEN "stopped" ELSE job
    /\ record' = CASE r = "complete" /\ record = "active" -> "completed"
                   [] r = "remove" -> "gone"
                   [] OTHER -> record
    /\ UNCHANGED <<provider, autoDelete, pc, after, calls, memory>>

World == JobStarts \/ JobEnds \/ \E r \in Requests : CarryOut(r)

\* A job whose record is gone is not found; AWS keeps terminal jobs.
Readable == provider = "aws" \/ record # "gone"
-----------------------------------------------------------------------------
(* Steps that several paths share.                                         *)

\* The condition for clean-up: Azure has to release its pool in any case.
CleansUp == autoDelete \/ provider = "azure"

\* update(): the final state the caller sees.  Azure reports only that a task
\* did not succeed.
NormalRaw(state) == state                                               \* slip
Normal(state) == CASE state = "succeeded" -> "succeeded"
                   [] state = "stopped" /\ provider # "azure" -> "cancelled"
                   [] state # "succeeded" /\ provider = "azure" /\ cancelRequested -> "cancelled"
                   [] OTHER -> "failed"

Cancel(why) == pc' = "observe" /\ after' = why

\* The call ends with `how`.
Ends(how) == pc' = "idle" /\ after' = None /\ answer' = how

\* The outer handler of wait(): one more try to cancel unless a result is
\* cached, then the original exception goes on.
ControlFails == IF CleansUp /\ cached = None THEN Cancel("control") /\ UNCHANGED answer
                                             ELSE Ends("threw")

\* A request is answered; or it is not, and was taken or not.
Send(r) == \/ asked' = asked \cup {r} /\ uncertain' = FALSE
           \/ asked' \in {asked, asked \cup {r}} /\ uncertain' = TRUE

Finish(result) == CASE after = "sink" -> IF result = None THEN ControlFails ELSE Ends("threw")
                    [] after = "control" -> Ends("threw")
                    [] OTHER -> Ends(result)
-----------------------------------------------------------------------------
(* wait().                                                                 *)

CallWait == /\ pc = "idle" /\ cached = None /\ calls < MaxCalls
            /\ pc' = "poll" /\ calls' = calls + 1
            /\ UNCHANGED <<cloud, asked, after, memory>>

\* wait() and cancel() leave a cached result alone.
CallAgain == /\ pc = "idle" /\ cached # None /\ calls < MaxCalls
             /\ calls' = calls + 1 /\ answer' = cached
             /\ UNCHANGED <<cloud, asked, pc, after, seen, action, uncertain,
                            cancelRequested, cached, cleanups>>

Poll == /\ pc = "poll" /\ pc' = "look"
        /\ UNCHANGED <<cloud, asked, after, calls, memory>>

SinkThrows == /\ pc \in {"poll", "drain"} /\ after # "cancel"
              /\ IF CleansUp THEN Cancel("sink") /\ UNCHANGED answer ELSE Ends("threw")
              /\ UNCHANGED <<cloud, asked, calls, seen, action, uncertain,
                             cancelRequested, cached, cleanups>>

Look == /\ pc = "look" /\ Readable
        /\ IF job \in Over THEN pc' = "drain" /\ after' = "end" /\ seen' = job
                           ELSE pc' = "poll" /\ UNCHANGED <<after, seen>>
        /\ UNCHANGED <<cloud, asked, calls, action, uncertain, cancelRequested,
                       cached, answer, cleanups>>

LookFails == /\ pc = "look" /\ ControlFails
             /\ UNCHANGED <<cloud, asked, calls, seen, action, uncertain,
                            cancelRequested, cached, cleanups>>

\* The controller deadline passes before the next look succeeds.
DeadlinePasses == /\ pc \in {"poll", "look"} /\ Cancel("deadline")
                  /\ UNCHANGED <<cloud, asked, calls, memory>>

\* Log polling ends after a quiet period or at its own time limit.
Drain == /\ pc = "drain" /\ pc' = "result"
         /\ UNCHANGED <<cloud, asked, after, calls, memory>>

\* make_result(), cached before the clean-up starts.
StartsCleanUp == IF provider = "azure" THEN "terminate" ELSE "remove"
MakeResultUncached ==                                                   \* slip
    /\ pc = "result"
    /\ cached' = IF after = "sink" THEN cached ELSE Normal(seen)
    /\ IF CleansUp
       THEN pc' = StartsCleanUp /\ cleanups' = cleanups + 1 /\ UNCHANGED <<after, answer>>
       ELSE Finish(cached') /\ UNCHANGED cleanups
    /\ UNCHANGED <<cloud, asked, calls, seen, action, uncertain, cancelRequested>>
MakeResult ==
    /\ pc = "result"
    /\ cached' = Normal(seen)
    /\ IF CleansUp
       THEN pc' = StartsCleanUp /\ cleanups' = cleanups + 1 /\ UNCHANGED <<after, answer>>
       ELSE Finish(cached') /\ UNCHANGED cleanups
    /\ UNCHANGED <<cloud, asked, calls, seen, action, uncertain, cancelRequested>>
-----------------------------------------------------------------------------
(* cancel() and cancel_job().                                              *)

CallCancel == /\ pc = "idle" /\ cached = None /\ calls < MaxCalls
              /\ Cancel("cancel") /\ calls' = calls + 1
              /\ UNCHANGED <<cloud, asked, memory>>

\* The job is over: the deadline and cancel() drain the logs first.
CancelDone == /\ job \in Over /\ seen' = job
              /\ pc' = IF after \in {"deadline", "cancel"} THEN "drain" ELSE "result"

Observe == /\ pc = "observe" /\ Readable
           /\ \/ CancelDone /\ UNCHANGED action
              \/ /\ job \in Live /\ pc' = "request"
                 /\ action' = IF provider = "aws" /\ job = "queued" THEN "cancel" ELSE "terminate"
                 /\ UNCHANGED seen
           /\ UNCHANGED <<cloud, asked, after, calls, uncertain, cancelRequested,
                          cached, answer, cleanups>>

RequestForgotten == /\ pc = "request" /\ pc' = "confirm"                \* slip
                    /\ Send(action)
                    /\ cancelRequested' = (cancelRequested \/ (provider # "gcp" /\ ~uncertain'))
                    /\ UNCHANGED <<cloud, after, calls, seen, action, cached, answer, cleanups>>
Request == /\ pc = "request" /\ pc' = "confirm"
           /\ Send(action)
           /\ cancelRequested' = (cancelRequested \/ provider # "gcp")
           /\ UNCHANGED <<cloud, after, calls, seen, action, cached, answer, cleanups>>

\* GCP refuses the request: the job is over, or is being cancelled already.
GcpRefuses == /\ pc = "request" /\ provider = "gcp" /\ Readable
              /\ \/ CancelDone
                 \/ "terminate" \in asked /\ pc' = "confirm" /\ UNCHANGED seen
              /\ UNCHANGED <<cloud, asked, after, calls, action, uncertain,
                             cancelRequested, cached, answer, cleanups>>

\* AWS turns to TerminateJob once the job has started; an unanswered AWS or
\* Azure request is repeated once the job is seen alive.
Escalates == provider = "aws" /\ action = "cancel" /\ job = "running"
Confirm == /\ pc = "confirm" /\ Readable
           /\ \/ CancelDone /\ UNCHANGED action
              \/ /\ job \in Live /\ provider # "gcp" /\ (Escalates \/ uncertain)
                 /\ pc' = "request" /\ UNCHANGED seen
                 /\ action' = IF Escalates THEN "terminate" ELSE action
           /\ UNCHANGED <<cloud, asked, after, calls, uncertain, cancelRequested,
                          cached, answer, cleanups>>

\* cancel_job() throws: a read failed, the request was refused, or the
\* clean-up deadline passed.
AfterCancelFails == CASE after = "deadline" -> ControlFails
                      [] after = "sink" -> Cancel("control") /\ UNCHANGED answer
                      [] OTHER -> Ends("threw")
CancelFailsAtOnce == /\ pc \in Cancelling \ {"confirm"}                 \* slip
                     /\ AfterCancelFails
                     /\ UNCHANGED <<cloud, asked, calls, seen, action, uncertain,
                                    cancelRequested, cached, cleanups>>
CancelFailsAndCleansUp == /\ pc \in Cancelling                          \* slip
                          /\ IF after = "control"
                             THEN pc' = StartsCleanUp /\ UNCHANGED <<after, answer>>
                             ELSE AfterCancelFails
                          /\ UNCHANGED <<cloud, asked, calls, seen, action, uncertain,
                                         cancelRequested, cached, cleanups>>
CancelFails == /\ pc \in Cancelling
               /\ AfterCancelFails
               /\ UNCHANGED <<cloud, asked, calls, seen, action, uncertain,
                              cancelRequested, cached, cleanups>>
-----------------------------------------------------------------------------
(* delete_job().                                                           *)

\* Azure: end the job so that its pool is released.
Terminate == /\ pc = "terminate" /\ record # "gone"
             /\ Send("complete") /\ pc' = "terminating"
             /\ UNCHANGED <<cloud, after, calls, seen, action, cancelRequested,
                            cached, answer, cleanups>>

\* An unanswered request is repeated; a completed job is deleted on request.
Terminating == /\ pc = "terminating"
               /\ \/ record = "active" /\ uncertain /\ pc' = "terminate"
                  \/ record = "completed" /\ autoDelete /\ pc' = "remove"
               /\ UNCHANGED <<cloud, asked, after, calls, memory>>

Remove == /\ pc = "remove" /\ record # "gone"
          /\ Send("remove")
          /\ IF provider = "aws" THEN Finish(cached) ELSE pc' = "removing" /\ UNCHANGED <<after, answer>>
          /\ UNCHANGED <<cloud, calls, seen, action, cancelRequested, cached, cleanups>>

\* Azure repeats the deletion of a job that is still there.
Removing == /\ pc = "removing" /\ provider = "azure" /\ record # "gone"
            /\ Send("remove")
            /\ UNCHANGED <<cloud, pc, after, calls, seen, action, cancelRequested,
                           cached, answer, cleanups>>

CleanUpDone == /\ \/ pc \in Cleaning /\ record = "gone"
                  \/ pc = "terminating" /\ record = "completed" /\ ~autoDelete
               /\ Finish(cached)
               /\ UNCHANGED <<cloud, asked, calls, seen, action, uncertain,
                              cancelRequested, cached, cleanups>>

\* A refusal, a failed read or the deadline: a warning, or nothing when the
\* call throws anyway.
CleanUpFails == /\ pc \in Cleaning
                /\ Finish(cached)
                /\ UNCHANGED <<cloud, asked, calls, seen, action, uncertain,
                               cancelRequested, cached, cleanups>>
-----------------------------------------------------------------------------
GivesUp == DeadlinePasses \/ CancelFails \/ CleanUpFails

Controller == Poll \/ SinkThrows \/ Look \/ LookFails \/ Drain \/ MakeResult
                \/ Observe \/ Request \/ GcpRefuses \/ Confirm
                \/ Terminate \/ Terminating \/ Remove \/ Removing \/ CleanUpDone

Caller == CallWait \/ CallAgain \/ CallCancel

Next == Caller \/ Controller \/ GivesUp \/ World

\* The thread runs and the clock moves: every loop compares it with a deadline.
Spec == Init /\ [][Next]_vars /\ WF_vars(Controller) /\ WF_vars(GivesUp)
-----------------------------------------------------------------------------
(* Properties.                                                             *)

\* The cached result is the job's own end.  Azure alone may call a task that
\* failed by itself cancelled, when a cancellation had been asked for.
ResultIsTrue ==
    /\ cached = "succeeded" => job = "succeeded"
    /\ cached = "failed" => job = "failed"
    /\ cached = "cancelled" => \/ job = "stopped"
                               \/ provider = "azure" /\ job = "failed" /\ cancelRequested

\* Nothing a job needs is released, or asked to be, before the job is over,
\* and an Azure job record is deleted only once its termination was seen.
ReleasedOnlyAfterEnd ==
    /\ record # "active" \/ asked \cap {"complete", "remove"} # {} => job \in Over
    /\ provider = "azure" /\ "remove" \in asked => record # "active"

\* However calls, sinks and requests fail, clean-up is tried once per job, and
\* was tried when a result is handed out.
CleanedUpOnce ==
    /\ cleanups <= 1
    /\ pc = "idle" /\ cached # None => cleanups = (IF CleansUp THEN 1 ELSE 0)

\* wait() and cancel() end, whatever the provider does.
CallsEnd == pc # "idle" ~> pc = "idle"

Contract == INSTANCE JobContract WITH
    end <- IF job \in Over THEN job ELSE None,
    result <- cached,
    released <- record # "active"

\* The controller keeps the contract of JobContract: one result for a job,
\* which no later call, exception or late request changes, and no answer but
\* that result.
KeepsJobContract == Contract!Spec
=============================================================================
