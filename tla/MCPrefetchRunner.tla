-------------------------- MODULE MCPrefetchRunner --------------------------
(* Two prefetching threads, the cancel thread and one client on a buffer. *)
EXTENDS PrefetchRunner
=============================================================================
