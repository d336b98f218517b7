---------------------------- MODULE MCBlobStore ----------------------------
(* BlobStore on small instances: every collection holds every file. *)
EXTENDS BlobStore, TLC

MCMembers == [c \in Colls |-> Files]

\* Names and request slots are interchangeable, and so are files.
Symmetry == Permutations(Names) \cup Permutations(Slots) \cup Permutations(Files)
=============================================================================
