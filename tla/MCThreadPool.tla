---------------------------- MODULE MCThreadPool ----------------------------
(* Two producers and two workers over a ring of three cells: posts evict,  *)
(* both workers hold messages at once, and the destructor starts anywhere. *)
EXTENDS ThreadPool
=============================================================================
