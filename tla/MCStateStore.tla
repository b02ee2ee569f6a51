---------------------------- MODULE MCStateStore ----------------------------
(* One Task of two units.                                                   *)
EXTENDS StateStore

OneGang == [t \in Task |-> Lease]
=============================================================================
