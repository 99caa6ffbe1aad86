--------------------- MODULE MCRevisionEvictionPolicy ---------------------
(* Model-checking instance: histories of up to 4 distinct versions, in any *)
(* order, and revisionsCount 1..3, values set in the cfg.                 *)
EXTENDS RevisionEvictionPolicy
=============================================================================
