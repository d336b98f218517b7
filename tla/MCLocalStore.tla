---------------------------- MODULE MCLocalStore ----------------------------
(* LocalStore on small instances. *)
EXTENDS LocalStore
=============================================================================
