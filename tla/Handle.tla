------------------------------- MODULE Handle -------------------------------
(***************************************************************************)
(* What the storage and compute handles of a client share: the provider    *)
(* they are bound to and the calls made through them, one per process      *)
(* (storage and compute in client.hpp, aws_call and azure_service_call in  *)
(* provider.hpp under include/cldmux).                                     *)
(***************************************************************************)
EXTENDS Naturals

CONSTANTS
    Service,      \* the providers of a run of the model
    Caller,       \* processes, one call each
    Calls,        \* per process: the calls it may make
    None,         \* no file, no checksum, no condition, no machine
    LastAttempt   \* the attempt after which a call gives up

ASSUME HandleAssumption ==
    /\ Service \subseteq {"gcp", "aws", "azure"} /\ LastAttempt \in Nat
    /\ None \notin Nat /\ None \notin Caller

VARIABLES
    service,     \* the provider the client is bound to
    call         \* per process: where its call is and its locals

\* pinned is the version a download or the machine an action is bound to, scan
\* what the pages of a look-up have found and what they have still to cover.
Unread == [found |-> {}, left |-> {}]
Idle == [pc |-> "idle", args |-> None, attempt |-> 0, pinned |-> 0, scan |-> Unread,
         crc |-> None, temp |-> None, backup |-> None, result |-> None]

HandleInit == service \in Service /\ call = [c \in Caller |-> Idle]

Go(c, new) == call' = [call EXCEPT ![c] = new] /\ UNCHANGED service

Done(l, result) == [l EXCEPT !.pc = "done", !.result = result]
Failed(l) == [l EXCEPT !.pc = "failed", !.temp = None]
Refused(l) == [l EXCEPT !.pc = "refused", !.temp = None]
Ended == {"done", "failed", "refused", "crashed"}

\* aws_call and azure_service_call send a request again after a failure
\* without a status, an answer that is lost or an error of the service.
\* Core::call of Google's handles does not.
Again(l, pc) == IF service # "gcp" /\ l.attempt < LastAttempt
                THEN [l EXCEPT !.pc = pc, !.attempt = @ + 1, !.temp = None]
                ELSE Failed(l)

\* A process dies: what it made or wrote stays as it is.
Crash(c) == call[c].pc \notin Ended \cup {"idle"} /\ Go(c, [call[c] EXCEPT !.pc = "crashed"])
=============================================================================
