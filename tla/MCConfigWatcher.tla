-------------------------- MODULE MCConfigWatcher --------------------------
(* ConfigWatcher on small instances: a nil server between two others, and   *)
(* no symmetry, because of the liveness property.                           *)
EXTENDS ConfigWatcher
=============================================================================
