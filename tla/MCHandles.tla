----------------------------- MODULE MCHandles -----------------------------
(* The instance of Handles for TLC: two processes, each with every kind of  *)
(* call, on an object and its file or on the machines of one name.          *)
EXTENDS Handles

CONSTANTS c1, c2, d1, d2

Args(op, data, sent, crc, expects) ==
    [op |-> op, data |-> data, sent |-> sent, crc |-> crc, expects |-> expects]
Gets == {Args(op, d1, d1, TRUE, None) : op \in {"get", "get_file"}}
Controls == [op : Control, id : {None}] \cup [op : {"stop", "destroy"}, id : {1}]
MCCaller == {c1, c2}
MCCalls ==
    [c \in MCCaller |->
        Gets \cup Controls
        \cup (IF c = c1 THEN {Args("put", d1, d1, TRUE, 0), Args("put", d1, d2, TRUE, None)}
              ELSE {Args("put", d2, d2, FALSE, 1), Args("put", d2, d2, TRUE, None),
                    Args("remove", d1, d1, TRUE, None)})]
MCEarlier == {<<>>, <<"running">>, <<"stopped">>, <<"running", "stopped">>}

\* The handles share no state: a behaviour starts with machines or with an
\* object and a file, and no need to have both.  Of two machines of one name
\* the second is not listed yet, and may be before anything else happens.
MCInit == /\ Init
          /\ machines = <<>> \/ (versions = <<>> /\ dest = None)
          /\ \A m \in DOMAIN machines : machines[m].listed = (service # "aws" \/ m = 1)
MCSpec == MCInit /\ [][Next]_vars
=============================================================================
