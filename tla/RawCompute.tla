----------------------------- MODULE RawCompute -----------------------------
(***************************************************************************)
(* One machine name used by several processes: create, start, stop,        *)
(* destroy and operation::wait (compute in client.hpp, Cloud, Vm and       *)
(* Operation in gcp.hpp, aws.hpp and azure.hpp of detail/providers, all    *)
(* under include/cldmux).  Google and Azure keep a name to one machine;    *)
(* for EC2 it is a tag that several machines may carry, and a machine is   *)
(* not listed as soon as it exists.                                        *)
(***************************************************************************)
EXTENDS Handle, Sequences, FiniteSets

CONSTANT Earlier   \* machines there may be at the start: sequences of states

\* A call by name, or by the number of the machine where it has one of its own.
Control == {"create", "start", "stop", "destroy"}
ControlArgs == [op : Control, id : Nat \cup {None}]

ASSUME RawComputeAssumption ==
    /\ \A c \in Caller : \A a \in Calls[c] :
           a.op \in Control => a \in ControlArgs /\ (a.op = "create" => a.id = None)
    /\ Earlier \subseteq Seq({"running", "stopped"})

VARIABLES
    machines,    \* every machine there ever was, with the token that made it
    outcome,     \* per process: what became of the operation it was answered
    seen,        \* history: the machines listed while a process looked
    reached      \* history: who could have read the state it waits for

history == <<seen, reached>>
computeVars == <<machines, outcome, history>>

Machine(state, token, c) ==
    [state |-> state, token |-> token, by |-> c, op |-> None, listed |-> service # "aws"]

\* On EC2 creates of other controllers may just have raced: there may be two
\* machines of the name, and each may be listed or not yet.
ComputeInit ==
    /\ HandleInit
    /\ \E states \in Earlier : \E shown \in SUBSET DOMAIN states :
          /\ service # "aws" => Len(states) <= 1 /\ shown = DOMAIN states
          /\ machines = [m \in DOMAIN states |->
                            [Machine(states[m], None, None) EXCEPT !.listed = m \in shown]]
    /\ outcome = [c \in Caller |-> "none"]
    /\ seen = [c \in Caller |-> [listed |-> {}, once |-> {}]] /\ reached = {}

Live == {m \in DOMAIN machines : machines[m].state # "gone"}
Target(op) == CASE op \in {"create", "start"} -> "running" [] op = "stop" -> "stopped"
                [] OTHER -> "gone"

Holds(c, l) == Go(c, l) /\ UNCHANGED <<machines, outcome>>

BeginControl(c) ==
    /\ call[c].pc = "idle"
    /\ \E a \in Calls[c] :
          /\ a.op \in Control /\ (service # "aws" => a.id = None)
          /\ Holds(c, [Idle EXCEPT !.args = a, !.scan.left = DOMAIN machines,
                          !.pc = IF service = "aws" THEN "lookup"
                                 ELSE IF a.op = "create" THEN "create" ELSE "act"])
-----------------------------------------------------------------------------
(* EC2 names                                                               *)

\* Terminated machines no longer carry the name.
Named == {m \in Live : machines[m].listed}

FirstFound(found, m) == m \in found   \* slip
Unambiguous(found, m) == found = {m}

\* A create goes on when the name is free, an action on the only machine of
\* the name.
Resolved(c, l, found) ==
    \/ l.args.op = "create" /\ found = {} /\ Holds(c, [l EXCEPT !.pc = "create", !.scan = Unread])
    \/ /\ l.args.op # "create"
       /\ \E m \in found : /\ Unambiguous(found, m)
                           /\ Holds(c, [l EXCEPT !.pc = "act", !.pinned = m, !.scan = Unread])

\* A page of aws_named_instances(), before a create or an action: the pages
\* cover the machines there were when the look-up began, each as it is when
\* its page is read.  Two of the name end the look-up.
LookupPage(c) ==
    LET l == call[c]
    IN  /\ l.pc = "lookup" /\ l.args.id = None
        /\ \E part \in SUBSET l.scan.left :
               LET found == l.scan.found \cup (part \cap Named)
               IN  \/ /\ \A m, n \in found : m = n
                      /\ Holds(c, [l EXCEPT !.scan.found = found, !.scan.left = @ \ part])
                   \/ part = l.scan.left /\ Resolved(c, l, found)

\* A number is asked for by itself, terminated or not.
LookupId(c) ==
    LET l == call[c]
    IN  /\ l.pc = "lookup" /\ l.args.id # None
        /\ Resolved(c, l, {m \in DOMAIN machines : m = l.args.id /\ machines[m].listed})

\* The name is taken or missing or ambiguous, the pages do not end, or a read
\* fails for good; one that is sent again changes nothing but the time.
LookupFails(c) == call[c].pc = "lookup" /\ Holds(c, Failed([call[c] EXCEPT !.scan = Unread]))

-----------------------------------------------------------------------------
(* Requests that change a machine                                          *)

\* The client token is drawn once, and RunInstances sent again with it; the
\* creates of the others are sent once.
FreshToken(c, l) == <<c, l.attempt>>   \* slip
Token(c, l) == <<c, 0>>
Resent(l, pc) == IF service = "aws" THEN Again(l, pc) ELSE Failed(l)

\* The operation waits for its outcome; an answer of Azure may name no
\* operation to ask.
Waiting(l, m) == {[l EXCEPT !.pc = "wait", !.pinned = m]} \cup
                 (IF service = "azure" THEN {[l EXCEPT !.pc = "power", !.pinned = m]} ELSE {})
Answer(c, l, m, pc) == \E new \in Waiting(l, m) \cup {Resent(l, pc)} : Go(c, new)

\* A create is carried out unless the name is taken: the one of Google and
\* Azure, on EC2 the client token.
Create(c) ==
    LET l == call[c]
        mine == {m \in DOMAIN machines : machines[m].token = Token(c, l)}
        new == Len(machines) + 1
    IN  /\ l.pc = "create"
        /\ \/ /\ IF service = "aws" THEN mine = {} ELSE Live = {}
              /\ machines' = Append(machines, [Machine("pending", Token(c, l), c) EXCEPT !.op = c])
              /\ outcome' = [outcome EXCEPT ![c] = "running"]
              /\ Answer(c, l, new, "create")
           \/ /\ service = "aws"
              /\ \E m \in mine : Answer(c, l, m, "create")
              /\ UNCHANGED <<machines, outcome>>
           \/ service # "aws" /\ Live # {} /\ Holds(c, Refused(l))
           \/ Holds(c, Resent(l, "create"))

\* What the service makes of an action, in the states that allow it.
Becomes(op, state) ==
    CASE op = "start" /\ state = "stopped" -> "pending"
      [] op = "start" /\ state \in {"pending", "running"} -> state
      [] op = "stop" /\ state \in {"pending", "running"} -> "stopping"
      [] op = "stop" /\ state \in {"stopping", "stopped"} -> state
      [] op = "destroy" /\ state \notin {"gone", "deleting"} -> "deleting"
      [] OTHER -> None

\* An action on the machine that was looked up, or on the one of the name.
\* The operation it overtakes ends without its outcome.
Subject(l) == IF service = "aws" THEN {l.pinned} ELSE Live
Act(c) ==
    LET l == call[c]
    IN  /\ l.pc = "act"
        /\ \/ \E m \in Subject(l) :
                 LET state == Becomes(l.args.op, machines[m].state)
                 IN  /\ state # None
                     /\ machines' = [machines EXCEPT ![m].state = state, ![m].op = c]
                     /\ outcome' = [d \in Caller |->
                                       CASE d = c -> "running"
                                         [] d # c /\ d = machines[m].op -> "failed"
                                         [] OTHER -> outcome[d]]
                     /\ Answer(c, l, m, "act")
           \/ Holds(c, Failed(l))
           \/ Holds(c, Resent(l, "act"))

-----------------------------------------------------------------------------
(* Waiting                                                                 *)

\* The power state of a name at Azure, where nothing is 404.
Power(state) == IF state = "gone" THEN Live = {} ELSE \E m \in Live : machines[m].state = state

OperationOver(c) == outcome[c] # "running"   \* slip
\* DONE without an error, Succeeded.
OperationDone(c) == outcome[c] = "done"

\* A poll: of the machine on EC2, where one that is not listed yet is asked
\* for again, of the operation elsewhere.
Poll(c) ==
    LET l == call[c]
    IN  /\ l.pc = "wait"
        /\ \/ /\ service = "aws"
              /\ machines[l.pinned].listed /\ machines[l.pinned].state = Target(l.args.op)
              /\ Holds(c, Done(l, l.pinned))
           \/ /\ service # "aws" /\ OperationDone(c)
              /\ Holds(c, IF service = "gcp" \/ l.args.op = "destroy" THEN Done(l, l.pinned)
                          ELSE [l EXCEPT !.pc = "power"])
           \/ service # "aws" /\ outcome[c] = "failed" /\ Holds(c, Failed(l))

\* Azure: the operation is over, and the power state has to follow.
PollPower(c) ==
    LET l == call[c]
    IN  /\ l.pc = "power"
        /\ \/ Power(Target(l.args.op)) /\ Holds(c, Done(l, l.pinned))
           \/ Live = {} /\ l.args.op # "destroy" /\ Holds(c, Failed(l))

\* The deadline passes, or a poll fails for good.
WaitFails(c) == call[c].pc \in {"wait", "power"} /\ Holds(c, Failed(call[c]))

-----------------------------------------------------------------------------
(* The service                                                             *)

\* A machine comes to rest, and so does the operation on it.
Rests(state) == CASE state = "pending" -> {<<"running", "done">>, <<"stopped", "failed">>, <<"gone", "failed">>}
                  [] state = "stopping" -> {<<"stopped", "done">>, <<"running", "failed">>}
                  [] state = "deleting" -> {<<"gone", "done">>, <<"running", "failed">>}
                  [] OTHER -> {<<state, "done">>}
Settle(m) ==
    /\ machines[m].op # None
    /\ \E rest \in Rests(machines[m].state) :
          /\ machines' = [machines EXCEPT ![m].state = rest[1], ![m].op = None]
          /\ outcome' = [outcome EXCEPT ![machines[m].op] = rest[2]]
    /\ UNCHANGED <<service, call>>

\* A machine is listed some time after it was made, and for some time after
\* it has gone.
List(m) ==
    /\ service = "aws"
    /\ machines[m].listed = (machines[m].state = "gone")
    /\ machines' = [machines EXCEPT ![m].listed = ~@]
    /\ UNCHANGED <<service, call, outcome>>

Step == \/ \E c \in Caller : \/ BeginControl(c)
                             \/ LookupPage(c) \/ LookupId(c) \/ LookupFails(c)
                             \/ Create(c) \/ Act(c)
                             \/ Poll(c) \/ PollPower(c) \/ WaitFails(c)
                             \/ Crash(c) /\ UNCHANGED <<machines, outcome>>
        \/ \E m \in DOMAIN machines : Settle(m) \/ List(m)

Looking(c) == service = "aws" /\ call[c].pc = "lookup" /\ call[c].args.id = None
AtTarget(c) ==
    LET l == call[c]
    IN  /\ l.pc \in {"wait", "power"}
        /\ IF service = "aws" THEN machines[l.pinned].state = Target(l.args.op)
           ELSE Power(Target(l.args.op))

\* The histories: what was listed all the time that a process looked a name
\* up, and what was listed at some time of it.
Sight(c) ==
    IF ~Looking(c)' THEN seen[c]
    ELSE IF Looking(c)
         THEN [listed |-> seen[c].listed \cap Named', once |-> seen[c].once \cup Named']
         ELSE [listed |-> Named', once |-> Named']
Recorded == /\ seen' = [c \in Caller |-> Sight(c)]
            /\ reached' = reached \cup {c \in Caller : AtTarget(c)'}

ComputeNext == Step /\ Recorded

ComputeSpec == ComputeInit /\ [][ComputeNext]_<<service, call, computeVars>>
-----------------------------------------------------------------------------
(* Properties                                                              *)

\* One create makes one machine at most, although RunInstances is sent again
\* after an answer that was lost and is carried out each time it arrives.
OneMachinePerCreate ==
    \A m, n \in DOMAIN machines : machines[m].by = machines[n].by /\ machines[m].by # None => m = n

\* A look-up that may find the name free, or held by this machine alone.
NoneListed(sight) == sight.listed = {}
OnlyListed(sight, m) == sight.listed \subseteq {m} /\ m \in sight.once

\* Of what EC2 lists (a machine that is not listed yet is not seen, whatever the
\* comment at aws.hpp:159-161 says of later actions), a name resolves to nothing but what it stands for, page
\* by page and with machines coming and going between the pages: a process
\* creates a machine only if none of the name was listed all the time that it
\* looked, and acts by name on a machine only if no other was, and that one was
\* listed at a moment of it.
NamesFailClosed ==
    service = "aws" => \A c \in Caller, m \in DOMAIN machines :
        /\ machines[m].by = c => NoneListed(seen[c])
        /\ machines[m].op = c /\ call[c].args.id = None /\ call[c].args.op # "create" =>
               OnlyListed(seen[c], m)

\* An operation that was waited for has had its effect: the machine, or the
\* one of the name where the name is what is asked for, was in the state asked
\* for after the request was accepted, whatever other processes did to it.
WaitIsTrue ==
    \A c \in Caller : call[c].pc = "done" /\ call[c].args.op \in Control => c \in reached
=============================================================================
