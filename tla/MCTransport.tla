----------------------------- MODULE MCTransport -----------------------------
(* The instance of Transport for TLC: two threads that share the tokens of  *)
(* one service, or an AWS and a public call, with every replay flag and     *)
(* deadline the code allows.                                                *)
EXTENDS Transport

CONSTANTS c1, c2

MCCaller == {c1, c2}

Args(kind) == [kind : {kind}, retry : IF kind = "gcp" THEN {TRUE} ELSE BOOLEAN, left : {2, Never}]
Other(kind) == [kind |-> IF kind = "aws" THEN "public" ELSE kind, retry |-> TRUE, left |-> Never]
MCStart == {[c \in MCCaller |-> IF c = c1 THEN a ELSE Other(a.kind)] :
                a \in Args("gcp") \cup Args("azure") \cup Args("aws")}
=============================================================================
