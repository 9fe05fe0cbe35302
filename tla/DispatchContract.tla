-------------------------- MODULE DispatchContract --------------------------
(***************************************************************************)
(* What a dispatch transaction promises, with no word about files, leases  *)
(* or retries: a request id is run at most once, a receipt path gets at    *)
(* most one verdict and keeps it, from an execution whose hold on the path *)
(* was never lost, and the verdict is true of the job when it is given and *)
(* stays true, since no job starts after its verdict.                      *)
(***************************************************************************)
EXTENDS Naturals

CONSTANTS Exec, Path, None

VARIABLES
    id,         \* id[e]: request id of e
    place,      \* place[e]: receipt path of e
    jobs,       \* jobs[e]: "none", "live", "succeeded" or "failed"
    hold,       \* hold[e]: of e on its path, "none" yet, "held" or "lost"
    verdict     \* verdict[p]: the record [by, status] at p, or None

vars == <<id, place, jobs, hold, verdict>>

Init == /\ jobs = [e \in Exec |-> "none"]
        /\ hold = [e \in Exec |-> "none"]
        /\ verdict = [p \in Path |-> None]

\* e asks for its job: nobody has asked for one with that id.
Submit(e) == /\ \A f \in Exec : id[f] = id[e] => jobs[f] = "none"
             /\ \A p \in Path : verdict[p] = None \/ verdict[p].by # e
             /\ jobs' = [jobs EXCEPT ![e] = "live"]
             /\ UNCHANGED <<id, place, hold, verdict>>

Finish(e) == /\ jobs[e] = "live"
             /\ \E s \in {"succeeded", "failed"} :
                    jobs' = [jobs EXCEPT ![e] = s]
             /\ UNCHANGED <<id, place, hold, verdict>>

\* A hold is taken once, and whoever has lost it never has it again.
Onward(h) == CASE h = "none" -> {"none", "held", "lost"}
               [] h = "held" -> {"held", "lost"}
               [] OTHER -> {"lost"}
HoldsMove == /\ hold' = [e \in Exec |-> hold'[e]]
             /\ \A e \in Exec : hold'[e] \in Onward(hold[e])

\* e, whose hold on the path stands, gives its verdict where none is.  A live
\* job allows only "recovery-required".
Conclude(e) ==
    /\ hold[e] = "held"
    /\ verdict[place[e]] = None
    /\ \E s \in {"complete", "recovery-required", "failed"} :
        /\ s = "complete" => jobs[e] = "succeeded"
        /\ s = "failed" => jobs[e] # "live"
        /\ verdict' = [verdict EXCEPT ![place[e]] = [by |-> e, status |-> s]]
    /\ HoldsMove
    /\ UNCHANGED <<id, place, jobs>>

TakeOrLose == HoldsMove /\ UNCHANGED <<id, place, jobs, verdict>>

Next == (\E e \in Exec : Submit(e) \/ Finish(e) \/ Conclude(e)) \/ TakeOrLose

Spec == Init /\ [][Next]_vars
=============================================================================
