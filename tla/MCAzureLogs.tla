----------------------------- MODULE MCAzureLogs -----------------------------
(* The instance of AzureLogs for TLC: a file of three ranges beside a short *)
(* one, each with room for a line feed anywhere.                            *)
EXTENDS AzureLogs

MCMaxLength == [stdout |-> 3, stderr |-> 1]
=============================================================================
