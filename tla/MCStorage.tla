------------------------------ MODULE MCStorage ------------------------------
(* The instance of Storage for TLC: two processes, each with a download or  *)
(* an upload, conditional or not, of a file that may change meanwhile.      *)
EXTENDS Storage

CONSTANTS c1, c2, d1, d2

Args(op, data, sent, crc, expects) ==
    [op |-> op, data |-> data, sent |-> sent, crc |-> crc, expects |-> expects]
Gets == {Args(op, d1, d1, TRUE, None) : op \in {"get", "get_file"}}
MCCaller == {c1, c2}
MCCalls ==
    [c \in MCCaller |->
        Gets \cup (IF c = c1 THEN {Args("put", d1, d1, TRUE, 0), Args("put", d1, d2, TRUE, None)}
                   ELSE {Args("put", d2, d2, FALSE, 1), Args("put", d2, d2, TRUE, None),
                         Args("remove", d1, d1, TRUE, None)})]
=============================================================================
