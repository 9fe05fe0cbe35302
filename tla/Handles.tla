------------------------------- MODULE Handles -------------------------------
(***************************************************************************)
(* The handles of a client together: each process moves an object or       *)
(* controls a machine, at the side of others that do either (storage and   *)
(* compute of class client in include/cldmux/client.hpp).                  *)
(***************************************************************************)
EXTENDS Storage, RawCompute

vars == <<service, call, storageVars, computeVars>>

Init == StorageInit /\ ComputeInit
Next == \/ StorageNext /\ UNCHANGED computeVars
        \/ ComputeNext /\ UNCHANGED storageVars
Spec == Init /\ [][Next]_vars
=============================================================================
