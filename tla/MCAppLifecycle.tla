---------------------------- MODULE MCAppLifecycle ----------------------------
(* The process with no hook, port or listener failing, one, or two. *)
EXTENDS AppLifecycle
=============================================================================
