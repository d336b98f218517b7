----------------------------- MODULE MCTransfer -----------------------------
(* Transfer, and Progress over it, on small instances. *)
EXTENDS Progress
=============================================================================
