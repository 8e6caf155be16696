-------------------------- MODULE MCEvictionManager --------------------------
(* Storages that come and go under one or two eviction loops. *)
EXTENDS EvictionManager
=============================================================================
