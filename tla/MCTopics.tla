------------------------------ MODULE MCTopics ------------------------------
(* Topics for all short names.                                              *)
EXTENDS Topics
=============================================================================
