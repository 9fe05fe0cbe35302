------------------------------ MODULE Transport ------------------------------
(***************************************************************************)
(* Requests with retries, a deadline and shared tokens: detail::call and   *)
(* public_call (pricing.hpp), Core::call (providers/gcp.hpp), aws_call and *)
(* azure_service_call (provider.hpp), and Credentials (config.hpp), all    *)
(* under include/cldmux/detail.  Several threads call at a time.  Time is  *)
(* counted in ticks: what is left of a timer, a deadline or a token.       *)
(***************************************************************************)
EXTENDS Naturals

CONSTANTS
    Caller,         \* threads, one call each
    Start,          \* the kinds, replay flags and deadlines they call with
    LastAttempt,    \* the attempt after which a call gives up
    RequestTimeout, \* ticks a request may take
    MaxTokens,      \* bound: tokens of a service
    Life, Early,    \* ticks a token lives; ticks before its end it is replaced
    Never           \* no deadline

Service == {"gcp", "azure"}
Kind == {"gcp", "azure", "aws", "public"}

\* GCP and public calls are always retried, public ones have no deadline.
ASSUME TransportAssumption ==
    /\ LastAttempt \in Nat \ {0} /\ RequestTimeout \in Nat \ {0} /\ MaxTokens \in Nat
    /\ Early \in Nat /\ Life \in Nat /\ Early < Life /\ Never \notin Nat
    /\ \A b \in Start : \A c \in Caller :
           /\ b[c].kind \in Kind /\ b[c].retry \in BOOLEAN /\ b[c].left \in Nat \cup {Never}
           /\ b[c].kind \in {"gcp", "public"} => b[c].retry
           /\ b[c].kind = "public" => b[c].left = Never

\* A pause is a number of ticks.  (True of any attempt, but by induction.)
ASSUME PauseAssumption == \A n \in 0..LastAttempt : 2 ^ n \in Nat

VARIABLES
    cached,     \* per service: the token in Credentials::State, 0 for none
    ttl,        \* per service: ticks the cached token lives
    minted,     \* per service: tokens the callback has made
    call        \* per caller: where it is, its arguments and its locals

credentials == <<cached, ttl, minted>>
vars == <<cached, ttl, minted, call>>

\* left: ticks to the deadline; limit: the time-out of the attempt; timer:
\* ticks to the end of the request or pause; resent: Core::call has sent again
\* in this attempt; refused: the last token refused; unsure: requests sent
\* that the service may have carried out.
Before(begin) == [pc |-> "idle", kind |-> begin.kind, retry |-> begin.retry, left |-> begin.left,
                  attempt |-> 0, limit |-> 0, timer |-> 0,
                  token |-> 0, resent |-> FALSE, refused |-> 0, unsure |-> 0]

Init == /\ cached = [s \in Service |-> 0] /\ ttl = [s \in Service |-> 0]
        /\ minted = [s \in Service |-> 0]
        /\ \E begin \in Start : call = [c \in Caller |-> Before(begin[c])]

Running == {"check", "token", "send", "wait", "pause"}
Ended == {"done", "failed"}

\* The types of the variables; no call makes more attempts than it may.
Calls == [pc : {"idle"} \cup Running \cup Ended, kind : Kind, retry : BOOLEAN,
          left : Nat \cup {Never}, attempt : 0..LastAttempt, limit : 0..RequestTimeout,
          timer : Nat, token : Nat, resent : BOOLEAN, refused : Nat, unsure : Nat]
TypeOK == /\ call \in [Caller -> Calls]
          /\ cached \in [Service -> Nat] /\ minted \in [Service -> Nat]
          /\ ttl \in [Service -> 0..Life] /\ \A s \in Service : cached[s] <= minted[s]
-----------------------------------------------------------------------------
(* Credentials                                                             *)

\* access_token(): the cached token, or a new one when there is none or its
\* end is near.  The callback runs under the lock.
AccessToken(c) ==
    LET s == call[c].kind IN
    IF cached[s] = 0 \/ ttl[s] <= Early
    THEN /\ minted[s] < MaxTokens
         /\ minted' = [minted EXCEPT ![s] = @ + 1]
         /\ cached' = [cached EXCEPT ![s] = minted[s] + 1] /\ ttl' = [ttl EXCEPT ![s] = Life]
         /\ call' = [call EXCEPT ![c].pc = "send", ![c].token = minted[s] + 1]
    ELSE /\ call' = [call EXCEPT ![c].pc = "send", ![c].token = cached[s]]
         /\ UNCHANGED credentials

\* invalidate(): drops whatever token is cached by now.
InvalidateLater(s) == UNCHANGED <<cached, ttl>>                         \* slip
Invalidate(s) == cached' = [cached EXCEPT ![s] = 0] /\ ttl' = [ttl EXCEPT ![s] = 0]
-----------------------------------------------------------------------------
(* The steps of an attempt, on the record of the caller.                   *)

\* What a deadline leaves of a time.
Cut(r, ticks) == IF r.left # Never /\ r.left < ticks THEN r.left ELSE ticks

End(r, how) == [Before(r) EXCEPT !.pc = how, !.unsure = r.unsure]

\* The request goes out; until the answer it is not known what becomes of it.
Begin(r, ticks) == [r EXCEPT !.pc = "wait", !.timer = ticks, !.unsure = @ + 1]

\* The pause before the next attempt: 100 ms, doubled with every attempt,
\* within the deadline.
PauseBeyond(r) == [r EXCEPT !.pc = "pause", !.timer = 2 ^ r.attempt]    \* slip
Pause(r) == LET ticks == Cut(r, 2 ^ r.attempt)
            IN  IF ticks > 0 THEN [r EXCEPT !.pc = "pause", !.timer = ticks] ELSE End(r, "failed")

\* The catch block, for a status it counts as retryable.
RetriesAlways(r) == r.attempt < LastAttempt                             \* slip
RetriesOnceMore(r) == r.retry /\ r.attempt <= LastAttempt               \* slip
Retries(r) == r.retry /\ r.attempt < LastAttempt
Catch(r) == IF Retries(r) THEN Pause(r) ELSE End(r, "failed")

Becomes(c, r) == call' = [call EXCEPT ![c] = r]
-----------------------------------------------------------------------------
Call(c) == /\ call[c].pc = "idle" /\ Becomes(c, [call[c] EXCEPT !.pc = "check"])
           /\ UNCHANGED credentials

\* The time-out of an attempt is cut to the time left; none left ends the call.
Check(c) ==
    LET r == call[c]
        limit == Cut(r, RequestTimeout)
    IN  /\ r.pc = "check"
        /\ Becomes(c, IF r.left = 0 THEN End(r, "failed")
                      ELSE IF r.kind \in Service THEN [r EXCEPT !.pc = "token", !.limit = limit]
                      ELSE Begin([r EXCEPT !.limit = limit], limit))
        /\ UNCHANGED credentials

TakeToken(c) == call[c].pc = "token" /\ AccessToken(c)

\* The callback throws: Core::call runs inside the try of detail::call, which
\* ends on a status that is not retryable; Azure asks for its token outside.
TokenFails(c) ==
    /\ call[c].pc = "token"
    /\ \/ Becomes(c, End(call[c], "failed"))
       \/ call[c].kind = "gcp" /\ Becomes(c, Catch(call[c]))
    /\ UNCHANGED credentials

Send(c) == /\ call[c].pc = "send" /\ Becomes(c, Begin(call[c], call[c].limit))
           /\ UNCHANGED credentials

\* The answer: success, an error for good, or one that may pass (no status,
\* 408, 429, 5xx).
Answer(c) == /\ call[c].pc = "wait"
             /\ \E r \in {End(call[c], "done"), End(call[c], "failed"), Catch(call[c])} : Becomes(c, r)
             /\ UNCHANGED credentials

\* 401: GCP sends again once in every attempt, with the same time-out; Azure
\* goes on to the second attempt without a pause, also when it must not retry.
Refuse(c) ==
    LET r == [call[c] EXCEPT !.unsure = @ - 1, !.refused = call[c].token]
    IN  /\ r.pc = "wait" /\ r.kind \in Service
        /\ IF r.kind = "gcp" /\ ~r.resent
           THEN Invalidate("gcp") /\ Becomes(c, [r EXCEPT !.pc = "token", !.resent = TRUE])
           ELSE IF r.kind = "azure" /\ r.attempt = 0
           THEN Invalidate("azure") /\ Becomes(c, [r EXCEPT !.pc = "check", !.attempt = 1])
           ELSE Becomes(c, End(r, "failed")) /\ UNCHANGED <<cached, ttl>>
        /\ UNCHANGED minted

SameAttempt(r) == [r EXCEPT !.pc = "check", !.resent = FALSE]           \* slip
NextAttempt(r) == [r EXCEPT !.pc = "check", !.attempt = @ + 1, !.resent = FALSE]
Wake(c) == /\ call[c].pc = "pause" /\ call[c].timer = 0
           /\ Becomes(c, NextAttempt(call[c]))
           /\ UNCHANGED credentials

\* libcurl ends a request when its time-out passes; a pause ends in time.
Less(n) == IF n \in {0, Never} THEN n ELSE n - 1
Tick == /\ \E c \in Caller : call[c].pc \in Running
        /\ \A c \in Caller : call[c].pc \in {"wait", "pause"} => call[c].timer > 0
        /\ call' = [c \in Caller |-> IF call[c].pc \in Running
                                     THEN [call[c] EXCEPT !.timer = Less(@), !.left = Less(@)]
                                     ELSE call[c]]
        /\ ttl' = [s \in Service |-> Less(ttl[s])]
        /\ UNCHANGED <<cached, minted>>
-----------------------------------------------------------------------------
Step(c) == Check(c) \/ TakeToken(c) \/ TokenFails(c) \/ Send(c) \/ Answer(c) \/ Refuse(c) \/ Wake(c)

Next == (\E c \in Caller : Call(c) \/ Step(c)) \/ Tick

\* A thread runs, its callback returns, and time passes.
Spec == Init /\ [][Next]_vars /\ (\A c \in Caller : WF_vars(Step(c))) /\ WF_vars(Tick)
-----------------------------------------------------------------------------
\* A request that must not be replayed reaches the service once, but for
\* copies it refused with 401; any other is sent at most once an attempt.
SentOnce == \A c \in Caller : call[c].unsure <= IF call[c].retry THEN LastAttempt + 1 ELSE 1

\* The request after a 401 carries a token made after the refused one, whoever
\* refreshed or invalidated the shared cache in between.
NewTokenAfterRefusal ==
    \A c \in Caller : call[c].pc = "wait" /\ call[c].refused # 0 => call[c].token > call[c].refused

\* No AWS request and no pause goes on beyond the deadline of its call.
KeepsDeadline ==
    \A c \in Caller : /\ call[c].left # Never
                      /\ call[c].pc = "pause" \/ (call[c].pc = "wait" /\ call[c].kind = "aws")
                      => call[c].timer <= call[c].left

\* Every call returns.
CallsReturn == \A c \in Caller : call[c].pc = "check" ~> call[c].pc \in Ended
=============================================================================
