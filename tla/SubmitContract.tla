--------------------------- MODULE SubmitContract ---------------------------
(***************************************************************************)
(* What client::run promises its caller about one submission, whatever the *)
(* provider: it answers in bounded time, a handle it returns names work    *)
(* the provider accepted, and such work is never withdrawn.  A throw       *)
(* promises nothing: the work may run already, or start later.             *)
(***************************************************************************)

VARIABLES
    running,    \* whether the provider holds work of this submission
    answer      \* "pending", "returned" or "threw"

vars == <<running, answer>>

Init == ~running /\ answer = "pending"

Start == /\ running' = TRUE
         /\ UNCHANGED answer

Withdraw == /\ answer = "threw"
            /\ running' = FALSE
            /\ UNCHANGED answer

Return == /\ answer = "pending"
          /\ answer' = "returned"
          /\ running' = TRUE

Throw == /\ answer = "pending"
         /\ answer' = "threw"
         /\ running' \in {running, TRUE}

Next == Start \/ Withdraw \/ Return \/ Throw

\* run() waits for no provider without a limit.
Spec == Init /\ [][Next]_vars /\ WF_vars(Throw)
=============================================================================
