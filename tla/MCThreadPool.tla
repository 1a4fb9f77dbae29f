---------------------------- MODULE MCThreadPool ----------------------------
(* An instance of ThreadPool for TLC: a listener and a few agents. *)
EXTENDS ThreadPool

=============================================================================
