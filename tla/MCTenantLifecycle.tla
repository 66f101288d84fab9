-------------------------- MODULE MCTenantLifecycle --------------------------
(***************************************************************************)
(* TenantLifecycle with two manager requests, one visitor and one admin:   *)
(* an erasure can run after, before or with another request, and one chat  *)
(* turn and one page can be written at any point of it.                    *)
(***************************************************************************)
EXTENDS TenantLifecycle
=============================================================================
