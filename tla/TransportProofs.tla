--------------------------- MODULE TransportProofs ---------------------------
(***************************************************************************)
(* What Transport promises of requests, tokens and deadlines, for any      *)
(* number of threads, attempts and ticks.  A call that has ended or sleeps *)
(* is bounded by what it has sent, one that is about to send by the        *)
(* attempts behind it, and a token that was refused is older than the one  *)
(* cached, whoever put that there.                                         *)
(***************************************************************************)
EXTENDS Transport, TLAPS

\* The attempts of a call that may have left a request with the service.
Attempts(r) == IF r.retry THEN r.attempt ELSE 0

\* A call about to send has left at most one request for each attempt behind
\* it, one that has sent at most one more; only a call that may replay pauses.
Counted(r) ==
    /\ r.pc \in {"idle", "check", "token", "send"} => r.unsure <= Attempts(r)
    /\ r.pc = "wait" => r.unsure \in 1..Attempts(r) + 1
    /\ r.pc = "pause" => r.retry /\ r.attempt < LastAttempt /\ r.unsure <= r.attempt + 1
    /\ r.pc \in Ended => r.unsure <= IF r.retry THEN LastAttempt + 1 ELSE 1
RequestsAreCounted == \A c \in Caller : Counted(call[c])

\* Only GCP and Azure calls ask for tokens.
Asks(r) == r.pc \in {"token", "send"} => r.kind \in Service
OnlyServicesAsk == \A c \in Caller : Asks(call[c])

\* What KeepsDeadline says of one call.
Timed(r) ==
    r.left # Never /\ (r.pc = "pause" \/ (r.pc = "wait" /\ r.kind = "aws")) => r.timer <= r.left

\* A token that was refused is no longer cached, and what is cached is newer;
\* so is the token the call goes on with.
Renewed(r, held, made) ==
    /\ r.kind \in Service => r.token <= made[r.kind]
    /\ r.refused # 0 =>
           /\ r.kind \in Service /\ r.refused <= made[r.kind]
           /\ held[r.kind] = 0 \/ held[r.kind] > r.refused
           /\ r.pc \in {"send", "wait"} => r.token > r.refused
RefusedAreOlder == \A c \in Caller : Renewed(call[c], cached, minted)

\* The inductive invariant.
IInv == TypeOK /\ RequestsAreCounted /\ OnlyServicesAsk /\ KeepsDeadline /\ RefusedAreOlder

Sound(r) == r \in Calls /\ Counted(r) /\ Asks(r) /\ Timed(r)
-----------------------------------------------------------------------------
(* The steps of an attempt.                                                *)

\* A call that ends forgets everything but what it has sent.
LEMMA EndSound ==
    ASSUME NEW r \in Calls, NEW how \in Ended, NEW held, NEW made \in [Service -> Nat],
           r.unsure <= IF r.retry THEN LastAttempt + 1 ELSE 1
    PROVE  Sound(End(r, how)) /\ Renewed(End(r, how), held, made)
<1> DEFINE e == End(r, how)
<1>1. /\ e.pc = how /\ e.unsure = r.unsure /\ e.retry = r.retry /\ e.refused = 0
      /\ e.token = 0 /\ e.kind = r.kind
  BY DEF End, Before, Calls
<1>2. e \in Calls
  <2>1. /\ r.kind \in Kind /\ r.retry \in BOOLEAN /\ r.left \in Nat \cup {Never}
        /\ r.unsure \in Nat
    BY DEF Calls
  <2>2. 0 \in 0..LastAttempt /\ 0 \in 0..RequestTimeout
    BY TransportAssumption
  <2>3. Before(r) \in Calls
    BY <2>1, <2>2 DEF Before, Calls
  <2> QED
    BY <2>1, <2>3 DEF End, Calls
<1> HIDE DEF e
<1>3. Counted(e) /\ Asks(e) /\ Timed(e)
  BY <1>1 DEF Counted, Asks, Timed, Ended
<1>4. Renewed(e, held, made)
  BY <1>1 DEF Renewed
<1> QED
  BY <1>2, <1>3, <1>4 DEF Sound, e

\* What is left of a time within the deadline.
LEMMA CutBounds ==
    ASSUME NEW r \in Calls, NEW ticks \in Nat
    PROVE  /\ Cut(r, ticks) \in 0..ticks
           /\ r.left # Never => Cut(r, ticks) <= r.left
BY TransportAssumption DEF Cut, Calls

\* A call goes on after a failure only with an attempt and some time left.
LEMMA CatchSound ==
    ASSUME NEW r \in Calls, NEW held, NEW made \in [Service -> Nat],
           r.unsure <= Attempts(r) + 1, Renewed(r, held, made)
    PROVE  Sound(Catch(r)) /\ Renewed(Catch(r), held, made)
<1>1. r.unsure <= IF r.retry THEN LastAttempt + 1 ELSE 1
  BY TransportAssumption DEF Attempts, Calls
<1>2. CASE Catch(r) = End(r, "failed")
  BY <1>1, <1>2, EndSound DEF Ended
<1>3. CASE Catch(r) # End(r, "failed")
  <2> DEFINE ticks == Cut(r, 2 ^ r.attempt)
             p == [r EXCEPT !.pc = "pause", !.timer = ticks]
  <2>1. Retries(r) /\ Catch(r) = p
    BY <1>3 DEF Catch, Pause
  <2>2. /\ ticks \in Nat
        /\ r.left # Never => ticks <= r.left
    <3>1. 2 ^ r.attempt \in Nat
      BY PauseAssumption DEF Calls
    <3> QED
      BY <3>1, CutBounds
  <2>3. /\ p \in Calls /\ p.pc = "pause" /\ p.timer = ticks /\ p.left = r.left
        /\ p.retry = r.retry /\ p.attempt = r.attempt /\ p.unsure = r.unsure
        /\ p.kind = r.kind /\ p.token = r.token /\ p.refused = r.refused
    <3> HIDE DEF ticks
    <3> QED
      BY <2>2 DEF Calls, Running
  <2>4. Counted(p) /\ Asks(p) /\ Timed(p)
    <3> HIDE DEF ticks, p
    <3> QED
      BY <2>1, <2>2, <2>3 DEF Counted, Asks, Timed, Retries, Attempts, Ended
  <2>5. Renewed(p, held, made)
    <3> HIDE DEF p
    <3> QED
      BY <2>3 DEF Renewed
  <2> QED
    BY <2>1, <2>3, <2>4, <2>5 DEF Sound
<1> QED
  BY <1>2, <1>3

\* A request that goes out adds one to what the service may have seen.
LEMMA BeginSound ==
    ASSUME NEW r \in Calls, NEW ticks \in Nat, NEW held, NEW made,
           r.unsure <= Attempts(r), Renewed(r, held, made),
           r.refused # 0 => r.token > r.refused,
           r.left # Never /\ r.kind = "aws" => ticks <= r.left
    PROVE  Sound(Begin(r, ticks)) /\ Renewed(Begin(r, ticks), held, made)
<1> DEFINE b == Begin(r, ticks)
<1>0. r.unsure + 1 \in Nat
  BY DEF Calls
<1>a. b \in Calls
  BY <1>0 DEF Begin, Calls, Running
<1>1. /\ b \in Calls /\ b.pc = "wait" /\ b.timer = ticks /\ b.unsure = r.unsure + 1
      /\ b.left = r.left /\ b.retry = r.retry /\ b.attempt = r.attempt /\ b.kind = r.kind
      /\ b.token = r.token /\ b.refused = r.refused
  BY <1>a DEF Begin, Calls
<1>2. Counted(b) /\ Asks(b) /\ Timed(b)
  <2> HIDE DEF b
  <2>1. r.unsure \in Nat /\ r.attempt \in Nat
    BY DEF Calls
  <2> QED
    BY <1>1, <2>1 DEF Counted, Asks, Timed, Attempts, Ended
<1>3. Renewed(b, held, made)
  <2> HIDE DEF b
  <2> QED
    BY <1>1 DEF Renewed
<1> QED
  BY <1>1, <1>2, <1>3 DEF Sound
-----------------------------------------------------------------------------
(* The invariant.                                                          *)

LEMMA InvariantInit == Init => IInv
<1> SUFFICES ASSUME Init PROVE IInv
  OBVIOUS
<1>1. PICK begin \in Start : call = [c \in Caller |-> Before(begin[c])]
  BY DEF Init
<1>2. ASSUME NEW c \in Caller
      PROVE  /\ call[c] \in Calls /\ call[c].pc = "idle" /\ call[c].unsure = 0
             /\ call[c].refused = 0 /\ call[c].token = 0 /\ call[c].attempt = 0
  BY <1>1, TransportAssumption DEF Before, Calls
<1>3. TypeOK
  BY <1>1, <1>2, TransportAssumption DEF TypeOK, Init
<1>4. RequestsAreCounted
  <2> SUFFICES ASSUME NEW c \in Caller PROVE Counted(call[c])
    BY DEF RequestsAreCounted
  <2> QED
    BY <1>2 DEF Counted, Attempts, Ended
<1>5. OnlyServicesAsk /\ KeepsDeadline
  BY <1>2 DEF OnlyServicesAsk, Asks, KeepsDeadline
<1>6. RefusedAreOlder
  <2> SUFFICES ASSUME NEW c \in Caller PROVE Renewed(call[c], cached, minted)
    BY DEF RefusedAreOlder
  <2> QED
    BY <1>2, <1>3 DEF Renewed, TypeOK
<1> QED
  BY <1>3, <1>4, <1>5, <1>6 DEF IInv

\* A step of one caller that leaves the tokens alone, or makes or drops one.
LEMMA CallerStep ==
    ASSUME IInv, NEW c \in Caller, NEW r, Becomes(c, r), Sound(r), Renewed(r, cached', minted'),
           \/ UNCHANGED credentials
           \/ \E s \in Service : Invalidate(s) /\ UNCHANGED minted
           \/ \E s \in Service :
                    /\ minted' = [minted EXCEPT ![s] = @ + 1]
                    /\ cached' = [cached EXCEPT ![s] = minted[s] + 1]
                    /\ ttl' = [ttl EXCEPT ![s] = Life]
    PROVE  IInv'
<1>1. /\ call' = [call EXCEPT ![c] = r]
      /\ call' \in [Caller -> Calls] /\ call'[c] = r
      /\ \A d \in Caller : d # c => call'[d] = call[d]
  BY DEF Becomes, IInv, TypeOK, Sound
<1>2. /\ cached' \in [Service -> Nat] /\ minted' \in [Service -> Nat]
      /\ ttl' \in [Service -> 0..Life]
      /\ \A s \in Service : /\ cached'[s] <= minted'[s] /\ minted[s] <= minted'[s]
                            /\ cached'[s] \in {0, cached[s], minted[s] + 1}
  BY TransportAssumption DEF IInv, TypeOK, credentials, Invalidate
<1>3. TypeOK'
  BY <1>1, <1>2 DEF TypeOK
<1>4. RequestsAreCounted'
  BY <1>1 DEF IInv, RequestsAreCounted, Sound
<1>5. OnlyServicesAsk'
  BY <1>1 DEF IInv, OnlyServicesAsk, Sound
<1>6. KeepsDeadline'
  BY <1>1 DEF IInv, KeepsDeadline, Sound, Timed
<1>7. RefusedAreOlder'
  <2> SUFFICES ASSUME NEW d \in Caller PROVE Renewed(call'[d], cached', minted')
    BY DEF RefusedAreOlder
  <2>1. CASE d = c
    BY <1>1, <2>1
  <2>2. CASE d # c
    <3>1. call'[d] = call[d] /\ call[d] \in Calls /\ Renewed(call[d], cached, minted)
      BY <1>1, <2>2 DEF IInv, TypeOK, RefusedAreOlder
    <3>2. /\ cached \in [Service -> Nat] /\ minted \in [Service -> Nat]
      BY DEF IInv, TypeOK
    <3> QED
      BY <1>2, <3>1, <3>2 DEF Renewed, Calls
  <2> QED
    BY <2>1, <2>2
<1> QED
  BY <1>3, <1>4, <1>5, <1>6, <1>7 DEF IInv

\* What the invariant says of one caller.
LEMMA OfCaller ==
    ASSUME IInv, NEW c \in Caller
    PROVE  /\ Sound(call[c]) /\ Renewed(call[c], cached, minted)
           /\ call[c].unsure \in Nat /\ call[c].attempt \in 0..LastAttempt
           /\ cached \in [Service -> Nat] /\ minted \in [Service -> Nat]
<1>1. call[c] \in Calls
  BY DEF IInv, TypeOK
<1>2. Timed(call[c])
  BY DEF IInv, KeepsDeadline, Timed
<1> QED
  BY <1>1, <1>2
     DEF IInv, TypeOK, RequestsAreCounted, OnlyServicesAsk, RefusedAreOlder, Sound, Calls

LEMMA CallStep == ASSUME IInv, NEW c \in Caller, Call(c) PROVE IInv'
<1> DEFINE r == [call[c] EXCEPT !.pc = "check"]
<1>1. /\ r \in Calls /\ r.pc = "check" /\ r.unsure = call[c].unsure /\ r.retry = call[c].retry
      /\ r.attempt = call[c].attempt /\ r.kind = call[c].kind /\ r.token = call[c].token
      /\ r.refused = call[c].refused
  BY OfCaller DEF Sound, Calls, Running
<1> HIDE DEF r
<1>2. Sound(r) /\ Renewed(r, cached, minted)
  BY <1>1, OfCaller DEF Call, Sound, Counted, Asks, Timed, Renewed, Attempts, Ended
<1> QED
  BY <1>2, CallerStep DEF Call, credentials, r

LEMMA CheckStep == ASSUME IInv, NEW c \in Caller, Check(c) PROVE IInv'
<1> DEFINE r == call[c]
           limit == Cut(r, RequestTimeout)
           t == [r EXCEPT !.pc = "token", !.limit = limit]
           q == [r EXCEPT !.limit = limit]
<1>0. /\ r \in Calls /\ r.pc = "check" /\ r.unsure <= Attempts(r) /\ Renewed(r, cached, minted)
      /\ minted \in [Service -> Nat] /\ UNCHANGED credentials
  BY OfCaller DEF Sound, Counted, Check
<1>1. /\ limit \in 0..RequestTimeout /\ limit \in Nat
      /\ r.left # Never => limit <= r.left
  BY <1>0, CutBounds, TransportAssumption
<1> HIDE DEF limit
<1>2. CASE Becomes(c, End(r, "failed"))
  <2>1. r.unsure <= IF r.retry THEN LastAttempt + 1 ELSE 1
    BY <1>0, TransportAssumption DEF Attempts, Calls
  <2>2. Sound(End(r, "failed")) /\ Renewed(End(r, "failed"), cached, minted)
    BY <1>0, <2>1, EndSound DEF Ended
  <2> QED
    BY <1>0, <1>2, <2>2, CallerStep DEF credentials
<1>3. CASE r.kind \in Service /\ Becomes(c, t)
  <2>1. /\ t \in Calls /\ t.pc = "token" /\ t.unsure = r.unsure /\ t.retry = r.retry
        /\ t.attempt = r.attempt /\ t.kind = r.kind /\ t.token = r.token /\ t.refused = r.refused
    BY <1>0, <1>1 DEF Calls, Running
  <2> HIDE DEF t
  <2>2. Sound(t) /\ Renewed(t, cached, minted)
    BY <1>0, <1>3, <2>1 DEF Sound, Counted, Asks, Timed, Renewed, Attempts, Ended
  <2> QED
    BY <1>0, <1>3, <2>2, CallerStep DEF credentials
<1>4. CASE r.kind \notin Service /\ Becomes(c, Begin(q, limit))
  <2>1. /\ q \in Calls /\ q.pc = "check" /\ q.unsure = r.unsure /\ q.retry = r.retry
        /\ q.attempt = r.attempt /\ q.kind = r.kind /\ q.token = r.token /\ q.refused = r.refused
        /\ q.left = r.left
    BY <1>0, <1>1 DEF Calls
  <2> HIDE DEF q
  <2>2. /\ q.refused = 0 /\ Renewed(q, cached, minted) /\ q.unsure <= Attempts(q)
    BY <1>0, <1>4, <2>1 DEF Renewed, Attempts
  <2>3. Sound(Begin(q, limit)) /\ Renewed(Begin(q, limit), cached, minted)
    BY <1>1, <2>1, <2>2, BeginSound
  <2> QED
    BY <1>0, <1>4, <2>3, CallerStep DEF credentials
<1> QED
  BY <1>2, <1>3, <1>4 DEF Check, limit

LEMMA TakeTokenStep == ASSUME IInv, NEW c \in Caller, TakeToken(c) PROVE IInv'
<1> DEFINE s == call[c].kind
           Taken(n) == [call[c] EXCEPT !.pc = "send", !.token = n]
<1>0. /\ call[c] \in Calls /\ s \in Service /\ call[c].pc = "token"
      /\ call[c].unsure <= Attempts(call[c]) /\ Renewed(call[c], cached, minted)
      /\ call \in [Caller -> Calls] /\ cached \in [Service -> Nat] /\ minted \in [Service -> Nat]
  BY OfCaller DEF Sound, Counted, Asks, TakeToken, IInv, TypeOK
\* A token newer than the one refused.
<1>1. ASSUME NEW n \in Nat, n <= minted'[s], n > call[c].refused \/ call[c].refused = 0,
             call' = [call EXCEPT ![c].pc = "send", ![c].token = n],
             call[c].refused # 0 => /\ call[c].refused <= minted'[s]
                                    /\ cached'[s] = 0 \/ cached'[s] > call[c].refused
      PROVE  Becomes(c, Taken(n)) /\ Sound(Taken(n)) /\ Renewed(Taken(n), cached', minted')
  <2>1. /\ Taken(n) \in Calls /\ Taken(n).pc = "send" /\ Taken(n).token = n
        /\ Taken(n).unsure = call[c].unsure /\ Taken(n).retry = call[c].retry
        /\ Taken(n).attempt = call[c].attempt /\ Taken(n).kind = s
        /\ Taken(n).refused = call[c].refused
    BY <1>0 DEF Calls, Running
  <2>2. call'= [call EXCEPT ![c] = Taken(n)]
    BY <1>0, <1>1
  <2> HIDE DEF Taken
  <2>3. Sound(Taken(n))
    BY <1>0, <2>1 DEF Sound, Counted, Asks, Timed, Attempts, Ended
  <2>4. Renewed(Taken(n), cached', minted')
    BY <1>0, <1>1, <2>1 DEF Renewed
  <2> QED
    BY <2>2, <2>3, <2>4 DEF Becomes
<1>2. CASE cached[s] = 0 \/ ttl[s] <= Early
  <2>1. /\ minted' = [minted EXCEPT ![s] = @ + 1]
        /\ cached' = [cached EXCEPT ![s] = minted[s] + 1]
        /\ ttl' = [ttl EXCEPT ![s] = Life]
        /\ call' = [call EXCEPT ![c].pc = "send", ![c].token = minted[s] + 1]
    BY <1>2 DEF TakeToken, AccessToken
  <2>2. /\ minted[s] + 1 \in Nat /\ minted'[s] = minted[s] + 1 /\ cached'[s] = minted[s] + 1
        /\ call[c].refused # 0 => call[c].refused <= minted[s]
        /\ call[c].refused \in Nat
    BY <1>0, <2>1 DEF Renewed, Calls
  <2>a. /\ minted[s] + 1 <= minted'[s]
        /\ minted[s] + 1 > call[c].refused \/ call[c].refused = 0
        /\ call[c].refused # 0 => call[c].refused <= minted'[s] /\ cached'[s] > call[c].refused
    BY <1>0, <2>2
  <2>3. Becomes(c, Taken(minted[s] + 1)) /\ Sound(Taken(minted[s] + 1))
        /\ Renewed(Taken(minted[s] + 1), cached', minted')
    <3> HIDE DEF Taken
    <3> QED
      BY <1>1, <2>1, <2>2, <2>a
  <2> HIDE DEF Taken
  <2> QED
    BY <1>0, <2>1, <2>3, CallerStep
<1>3. CASE ~(cached[s] = 0 \/ ttl[s] <= Early)
  <2>1. UNCHANGED credentials /\ call' = [call EXCEPT ![c].pc = "send", ![c].token = cached[s]]
    BY <1>3 DEF TakeToken, AccessToken
  <2>2. /\ cached[s] \in Nat /\ cached[s] <= minted[s] /\ cached' = cached /\ minted' = minted
        /\ call[c].refused # 0 => call[c].refused <= minted[s] /\ cached[s] > call[c].refused
    BY <1>0, <1>3, <2>1 DEF Renewed, IInv, TypeOK, credentials
  <2>3. Becomes(c, Taken(cached[s])) /\ Sound(Taken(cached[s]))
        /\ Renewed(Taken(cached[s]), cached', minted')
    BY <1>1, <2>1, <2>2
  <2> HIDE DEF Taken
  <2> QED
    BY <2>1, <2>3, CallerStep
<1> QED
  BY <1>2, <1>3

LEMMA TokenFailsStep == ASSUME IInv, NEW c \in Caller, TokenFails(c) PROVE IInv'
<1>0. /\ call[c] \in Calls /\ call[c].unsure <= Attempts(call[c]) /\ Attempts(call[c]) \in Nat
      /\ call[c].unsure \in Nat /\ Renewed(call[c], cached, minted)
      /\ minted \in [Service -> Nat] /\ cached' = cached /\ minted' = minted /\ UNCHANGED credentials
  BY OfCaller DEF Sound, Counted, TokenFails, credentials, Attempts
<1>1. call[c].unsure <= IF call[c].retry THEN LastAttempt + 1 ELSE 1
  BY <1>0, TransportAssumption DEF Attempts, Calls
<1>a. call[c].unsure <= Attempts(call[c]) + 1 /\ Renewed(call[c], cached', minted')
  BY <1>0
<1>2. /\ Sound(Catch(call[c])) /\ Renewed(Catch(call[c]), cached', minted')
      /\ Sound(End(call[c], "failed")) /\ Renewed(End(call[c], "failed"), cached', minted')
  BY <1>0, <1>a, <1>1, CatchSound, EndSound DEF Ended
<1>3. PICK r \in {Catch(call[c]), End(call[c], "failed")} : Becomes(c, r)
  BY DEF TokenFails
<1> QED
  BY <1>0, <1>2, <1>3, CallerStep

LEMMA SendStep == ASSUME IInv, NEW c \in Caller, Send(c) PROVE IInv'
<1>0. /\ call[c] \in Calls /\ call[c].unsure <= Attempts(call[c]) /\ call[c].limit \in Nat
      /\ Renewed(call[c], cached, minted) /\ call[c].kind \in Service /\ call[c].pc = "send"
      /\ cached' = cached /\ minted' = minted /\ UNCHANGED credentials
  BY OfCaller, TransportAssumption DEF Sound, Counted, Asks, Send, credentials, Calls
<1>1. call[c].refused # 0 => call[c].token > call[c].refused
  BY <1>0 DEF Renewed
<1>2. /\ Sound(Begin(call[c], call[c].limit))
      /\ Renewed(Begin(call[c], call[c].limit), cached', minted')
  BY <1>0, <1>1, BeginSound DEF Service
<1> QED
  BY <1>0, <1>2, CallerStep DEF Send

LEMMA WakeStep == ASSUME IInv, NEW c \in Caller, Wake(c) PROVE IInv'
<1> DEFINE r == NextAttempt(call[c])
<1>0. /\ call[c] \in Calls /\ Renewed(call[c], cached, minted) /\ call[c].retry
      /\ call[c].attempt < LastAttempt /\ call[c].unsure <= call[c].attempt + 1
      /\ cached' = cached /\ minted' = minted /\ UNCHANGED credentials
  BY OfCaller DEF Sound, Counted, Wake, credentials
<1>1. call[c].attempt + 1 \in 0..LastAttempt
  BY <1>0, TransportAssumption DEF Calls
<1>2. /\ r \in Calls /\ r.pc = "check" /\ r.attempt = call[c].attempt + 1
      /\ r.unsure = call[c].unsure /\ r.retry = call[c].retry /\ r.kind = call[c].kind
      /\ r.token = call[c].token /\ r.refused = call[c].refused
  BY <1>0, <1>1 DEF NextAttempt, Calls, Running
<1> HIDE DEF r
<1>3. Sound(r) /\ Renewed(r, cached', minted')
  BY <1>0, <1>2 DEF Sound, Counted, Asks, Timed, Renewed, Attempts, Ended
<1> QED
  BY <1>0, <1>3, CallerStep DEF Wake, r

\* A request that was refused was not carried out; the token it carried is
\* the newest refused and leaves the cache, or the call ends.
LEMMA RefuseStep == ASSUME IInv, NEW c \in Caller, Refuse(c) PROVE IInv'
<1> DEFINE r == [call[c] EXCEPT !.unsure = @ - 1, !.refused = call[c].token]
           again == [r EXCEPT !.pc = "token", !.resent = TRUE]
           second == [r EXCEPT !.pc = "check", !.attempt = 1]
<1>0. /\ call[c] \in Calls /\ call[c].pc = "wait" /\ Renewed(call[c], cached, minted)
      /\ call[c].unsure \in 1..Attempts(call[c]) + 1 /\ call[c].unsure \in Nat
      /\ call[c].attempt \in 0..LastAttempt /\ call[c].token \in Nat
      /\ cached \in [Service -> Nat] /\ minted \in [Service -> Nat] /\ minted' = minted
  BY OfCaller DEF Sound, Counted, Refuse, Calls
<1>1. call[c].unsure - 1 \in Nat
  BY <1>0 DEF Attempts
<1>2. /\ r \in Calls /\ r.pc = "wait" /\ r.unsure = call[c].unsure - 1
      /\ r.refused = call[c].token /\ r.token = call[c].token /\ r.kind = call[c].kind
      /\ r.attempt = call[c].attempt /\ r.retry = call[c].retry /\ r.resent = call[c].resent
  BY <1>0, <1>1 DEF Calls
<1> HIDE DEF r
<1>3. r.kind \in Service /\ r.unsure <= Attempts(r) /\ r.token <= minted[r.kind]
  BY <1>0, <1>2 DEF Refuse, r, Attempts, Renewed
<1>4. CASE r.kind = "gcp" /\ Invalidate("gcp") /\ Becomes(c, again)
  <2>1. /\ again \in Calls /\ again.pc = "token" /\ again.unsure = r.unsure
        /\ again.retry = r.retry /\ again.attempt = r.attempt /\ again.kind = r.kind
        /\ again.token = r.token /\ again.refused = r.refused
    BY <1>2 DEF Calls, Running
  <2> HIDE DEF again
  <2>2. Sound(again)
    BY <1>3, <2>1 DEF Sound, Counted, Asks, Timed, Attempts, Ended
  <2>3. cached'["gcp"] = 0
    BY <1>0, <1>4 DEF Invalidate, Service
  <2>4. Renewed(again, cached', minted')
    BY <1>0, <1>2, <1>3, <1>4, <2>1, <2>3 DEF Renewed
  <2> QED
    BY <1>0, <1>4, <2>2, <2>4, CallerStep DEF Service
<1>5. CASE r.kind = "azure" /\ r.attempt = 0 /\ Invalidate("azure") /\ Becomes(c, second)
  <2>0. 1 \in 0..LastAttempt
    BY TransportAssumption
  <2>a. second \in Calls
    BY <1>2, <2>0 DEF Calls, Running
  <2>1. /\ second \in Calls /\ second.pc = "check" /\ second.unsure = r.unsure
        /\ second.retry = r.retry /\ second.attempt = 1 /\ second.kind = r.kind
        /\ second.token = r.token /\ second.refused = r.refused
    BY <1>2, <2>a DEF Calls
  <2> HIDE DEF second
  <2>2. r.unsure = 0
    <3>1. r.unsure <= 0
      BY <1>3, <1>5 DEF Attempts
    <3>2. r.unsure \in Nat
      BY <1>2 DEF Calls
    <3> QED
      BY <3>1, <3>2
  <2>b. Sound(second)
    BY <2>1, <2>2 DEF Sound, Counted, Asks, Timed, Attempts, Ended
  <2>3. cached'["azure"] = 0
    BY <1>0, <1>5 DEF Invalidate, Service
  <2>4. Renewed(second, cached', minted')
    BY <1>0, <1>2, <1>3, <1>5, <2>1, <2>3 DEF Renewed
  <2> QED
    BY <1>0, <1>5, <2>b, <2>4, CallerStep DEF Service
<1>6. CASE Becomes(c, End(r, "failed")) /\ UNCHANGED <<cached, ttl>>
  <2>1. r.unsure <= IF r.retry THEN LastAttempt + 1 ELSE 1
    BY <1>0, <1>2, <1>3, TransportAssumption DEF Attempts
  <2>2. Sound(End(r, "failed")) /\ Renewed(End(r, "failed"), cached', minted')
    BY <1>0, <1>2, <2>1, EndSound DEF Ended
  <2> QED
    BY <1>0, <1>6, <2>2, CallerStep DEF credentials
<1> QED
  BY <1>4, <1>5, <1>6 DEF Refuse, r

LEMMA AnswerStep == ASSUME IInv, NEW c \in Caller, Answer(c) PROVE IInv'
<1>0. /\ call[c] \in Calls /\ call[c].unsure <= Attempts(call[c]) + 1
      /\ Renewed(call[c], cached, minted) /\ minted \in [Service -> Nat]
      /\ cached' = cached /\ minted' = minted /\ UNCHANGED credentials
  BY OfCaller DEF Sound, Counted, Answer, credentials, Attempts
<1>1. call[c].unsure <= IF call[c].retry THEN LastAttempt + 1 ELSE 1
  BY <1>0, TransportAssumption DEF Attempts, Calls
<1>2. \A r \in {End(call[c], "done"), End(call[c], "failed"), Catch(call[c])} :
          Sound(r) /\ Renewed(r, cached', minted')
  BY <1>0, <1>1, CatchSound, EndSound DEF Ended
<1> QED
  BY <1>0, <1>2, CallerStep DEF Answer

\* Time passes for a request or a pause only where its timer has not run out,
\* and for its deadline as well.
LEMMA TickStep == ASSUME IInv, Tick PROVE IInv'
<1> DEFINE Later(r) == IF r.pc \in Running THEN [r EXCEPT !.timer = Less(@), !.left = Less(@)] ELSE r
<1>1. /\ \A c \in Caller : call[c].pc \in {"wait", "pause"} => call[c].timer > 0
      /\ call' = [c \in Caller |-> Later(call[c])]
      /\ ttl' = [s \in Service |-> Less(ttl[s])] /\ cached' = cached /\ minted' = minted
  BY DEF Tick
<1>2. ASSUME NEW c \in Caller
      PROVE  /\ Sound(call'[c]) /\ Renewed(call'[c], cached', minted')
  <2> DEFINE r == call[c]
             l == Later(r)
  <2>1. Sound(r) /\ Renewed(r, cached, minted) /\ r \in Calls /\ call'[c] = l
    BY <1>1, OfCaller DEF Sound
  <2>2. CASE r.pc \notin Running
    BY <1>1, <2>1, <2>2
  <2>3. CASE r.pc \in Running
    <3>1. Less(r.timer) \in Nat /\ Less(r.left) \in Nat \cup {Never}
      BY <2>1, TransportAssumption DEF Less, Calls
    <3>2. /\ l \in Calls /\ l.pc = r.pc /\ l.timer = Less(r.timer) /\ l.left = Less(r.left)
          /\ l.kind = r.kind /\ l.retry = r.retry /\ l.attempt = r.attempt /\ l.token = r.token
          /\ l.refused = r.refused /\ l.unsure = r.unsure
      BY <2>1, <2>3, <3>1 DEF Calls
    <3>3. Counted(l) /\ Asks(l) /\ Renewed(l, cached', minted')
      <4> HIDE DEF l
      <4> QED
        BY <1>1, <2>1, <3>2 DEF Sound, Counted, Asks, Renewed, Attempts
    <3>4. Timed(l)
      <4> SUFFICES ASSUME l.left # Never, l.pc = "pause" \/ (l.pc = "wait" /\ l.kind = "aws")
                   PROVE  l.timer <= l.left
        BY DEF Timed
      <4> HIDE DEF l
      <4>1. r.left # Never /\ r.timer > 0 /\ r.timer <= r.left /\ r.timer \in Nat /\ r.left \in Nat
        BY <1>1, <2>1, <3>2 DEF Sound, Timed, Less, Calls
      <4> QED
        BY <3>2, <4>1, TransportAssumption DEF Less
    <3> QED
      BY <2>1, <3>2, <3>3, <3>4 DEF Sound
  <2> QED
    BY <2>2, <2>3
<1>3. TypeOK'
  <2>1. ttl' \in [Service -> 0..Life]
    <3>1. \A n \in 0..Life : Less(n) \in 0..Life
      BY TransportAssumption DEF Less
    <3> QED
      BY <1>1, <3>1 DEF IInv, TypeOK
  <2>2. call' \in [Caller -> Calls]
    <3>1. call' = [c \in Caller |-> call'[c]] /\ \A c \in Caller : call'[c] \in Calls
      BY <1>1, <1>2 DEF Sound
    <3> QED
      BY <3>1
  <2> QED
    BY <1>1, <2>1, <2>2 DEF IInv, TypeOK
<1>4. RequestsAreCounted' /\ OnlyServicesAsk'
  BY <1>2 DEF RequestsAreCounted, OnlyServicesAsk, Sound
<1>5. KeepsDeadline' /\ RefusedAreOlder'
  BY <1>2 DEF KeepsDeadline, RefusedAreOlder, Sound, Timed
<1> QED
  BY <1>3, <1>4, <1>5 DEF IInv

LEMMA InvariantNext == IInv /\ [Next]_vars => IInv'
<1> SUFFICES ASSUME IInv, [Next]_vars PROVE IInv'
  OBVIOUS
<1>1. ASSUME NEW c \in Caller, Call(c) \/ Step(c) PROVE IInv'
  BY <1>1, CallStep, CheckStep, TakeTokenStep, TokenFailsStep, SendStep, AnswerStep, RefuseStep,
     WakeStep DEF Step
<1>2. ASSUME Tick PROVE IInv'
  BY <1>2, TickStep
<1>3. CASE UNCHANGED vars
  BY <1>3 DEF vars, credentials, IInv, TypeOK, RequestsAreCounted, OnlyServicesAsk, KeepsDeadline,
              RefusedAreOlder
<1> QED
  BY <1>1, <1>2, <1>3 DEF Next

THEOREM Invariant == Spec => []IInv
<1> QED
  BY InvariantInit, InvariantNext, PTL DEF Spec
-----------------------------------------------------------------------------
(* What follows for the requests of a client.                              *)

\* The variables keep their types: in particular no call makes more attempts
\* than LastAttempt, and the cached token is one that was made.
THEOREM TypeCorrect == Spec => []TypeOK
<1>1. IInv => TypeOK
  BY DEF IInv
<1> QED
  BY <1>1, Invariant, PTL

\* A request that must not be replayed (RunInstances, a create of Azure) reaches
\* the service once but for copies it refused with 401; any other at most once
\* an attempt, however often Core::call sends again within an attempt.
THEOREM AtMostOnce == Spec => []SentOnce
<1>1. ASSUME IInv PROVE SentOnce
  <2> SUFFICES ASSUME NEW c \in Caller
               PROVE  call[c].unsure <= IF call[c].retry THEN LastAttempt + 1 ELSE 1
    BY DEF SentOnce
  <2>1. /\ call[c] \in Calls /\ Counted(call[c])
    BY <1>1 DEF IInv, TypeOK, RequestsAreCounted
  <2>2. call[c].attempt \in 0..LastAttempt /\ call[c].unsure \in Nat
    BY <2>1 DEF Calls
  <2>3. call[c].pc \in {"idle", "check", "token", "send", "wait", "pause"} \cup Ended
    BY <2>1 DEF Calls, Running
  <2> QED
    BY <2>1, <2>2, <2>3, TransportAssumption DEF Counted, Attempts
<1> QED
  BY <1>1, Invariant, PTL

\* After a 401 the next request carries a token made after the refused one,
\* although every caller may refresh or invalidate the shared cache between
\* the refusal and the next access_token().
THEOREM NewToken == Spec => []NewTokenAfterRefusal
<1>1. IInv => NewTokenAfterRefusal
  BY DEF IInv, NewTokenAfterRefusal, RefusedAreOlder, Renewed
<1> QED
  BY <1>1, Invariant, PTL

\* An AWS request and any pause end with the deadline of their call.
THEOREM WithinDeadline == Spec => []KeepsDeadline
<1>1. IInv => KeepsDeadline
  BY DEF IInv
<1> QED
  BY <1>1, Invariant, PTL
=============================================================================
