---------------------------- MODULE MCSubmission ----------------------------
(* The instance of Submission for TLC: enough names for three resources of  *)
(* a kind, one more than the copies of one request can make.               *)
EXTENDS Submission

CONSTANTS n1, n2, n3

MCName == {n1, n2, n3}
=============================================================================
