----------------------------- MODULE MCCatalog -----------------------------
(* Catalog on small instances; no symmetry, for the liveness. *)
EXTENDS Catalog
=============================================================================
