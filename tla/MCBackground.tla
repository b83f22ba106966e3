---------------------------- MODULE MCBackground ----------------------------
(***************************************************************************)
(* An instance of Background for TLC: one dashboard and one worker.        *)
(***************************************************************************)
EXTENDS Background

MCTenantOf == [m \in Messages |-> CHOOSE t \in Tenants : TRUE]
=============================================================================
