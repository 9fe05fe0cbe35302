----------------------------- MODULE MCDispatch -----------------------------
(* Instances of Dispatch for TLC.                                          *)
EXTENDS Dispatch, TLC

CONSTANTS e1, e2, i1, i2, p1, p2

Request(i, p) == [id |-> i, receipt |-> p, output |-> p]

\* The executions share the request id and the receipt path, the request id
\* alone, or the receipt path alone.
Between(r, s) == {[e \in Exec |-> r], [e \in Exec |-> IF e = e1 THEN r ELSE s],
                  [e \in Exec |-> IF e = e1 THEN s ELSE r]}
MCSharedPath == Between(Request(i1, p1), Request(i2, p1))
MCAssignments == MCSharedPath \cup Between(Request(i1, p1), Request(i1, p2))

MCSymmetry == Permutations(Exec)
=============================================================================
