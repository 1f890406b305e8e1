---------------------------- MODULE MCLifecycle -----------------------------
(* Both commands on small instances.                                        *)
EXTENDS Lifecycle
=============================================================================
