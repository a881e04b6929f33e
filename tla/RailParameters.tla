-------------------------- MODULE RailParameters ---------------------------
(***************************************************************************)
(* The identities every module of the Instagram first-contact rail shares. *)
(***************************************************************************)
EXTENDS Naturals, FiniteSets

CONSTANTS
    Jobs,     \* locked manifests; a manifest has at most one job, named by it
    Workers,  \* every process that can take a lease or reserve a permission
    Nobody    \* a null owner column

ASSUME OwnerAssumption == Nobody \notin Workers
=============================================================================
