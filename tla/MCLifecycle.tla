---------------------------- MODULE MCLifecycle ----------------------------
(* Three workloads that keep sending requests.                             *)
EXTENDS Lifecycle
=============================================================================
