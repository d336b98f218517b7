------------------------- MODULE MCRingAttachments -------------------------
(* RingAttachments on small instances. *)
EXTENDS RingAttachments, TLC

\* Blobs are interchangeable, and so are named rings and request slots.
Symmetry == Permutations(Blobs) \cup Permutations(Rings) \cup Permutations(Reqs)
=============================================================================
