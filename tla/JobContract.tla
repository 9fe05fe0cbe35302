----------------------------- MODULE JobContract -----------------------------
(***************************************************************************)
(* What class job of client.hpp promises the caller of wait() and cancel() *)
(* about one job, with no word about polls, retries and handlers: the job  *)
(* gets one result and keeps it, it is the job's own end, a call answers   *)
(* with that result or throws, and what the job needs is released behind   *)
(* its end only.                                                           *)
(***************************************************************************)
CONSTANT None

VARIABLES
    end,        \* how the job ended at the provider, None while it lives
    result,     \* what its handle holds, None until it knows
    answer,     \* what the last call that ended told: a result or "threw"
    released    \* the job definition, or the Azure or GCP job, is given up

vars == <<end, result, answer, released>>

\* What may be told of an end: one that a cancellation overtakes may be called
\* cancelled though the job had failed by itself.
Told(how) == CASE how = "succeeded" -> {"succeeded"}
               [] how = "failed" -> {"failed", "cancelled"}
               [] OTHER -> {"cancelled"}

Init == end = None /\ result = None /\ answer = None /\ ~released

End == /\ end = None
       /\ end' \in {"succeeded", "failed", "stopped"}
       /\ UNCHANGED <<result, answer, released>>

\* The handle learns its result, and may answer with it at once.
Conclude == /\ end # None /\ result = None
            /\ result' \in Told(end)
            /\ answer' \in {answer, "threw", result'}
            /\ UNCHANGED <<end, released>>

Answer == /\ answer' \in {"threw"} \cup {r \in {result} : r # None}
          /\ UNCHANGED <<end, result, released>>

Release == /\ end # None
           /\ released' = TRUE
           /\ UNCHANGED <<end, result, answer>>

Next == End \/ Conclude \/ Answer \/ Release

Spec == Init /\ [][Next]_vars
=============================================================================
