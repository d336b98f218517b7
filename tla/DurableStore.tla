---------------------------- MODULE DurableStore ----------------------------
(***************************************************************************)
(* What the daemon's local store promises: its rows, the catalog grants    *)
(* and the address book, survive every start and every stop, and change    *)
(* only by a write of an open store.                                       *)
(***************************************************************************)
CONSTANTS
  Rows  \* the possible contents

VARIABLES
  rows,
  open

Init ==
  /\ rows \in Rows
  /\ open = FALSE

Start ==
  /\ ~open
  /\ open' = TRUE
  /\ UNCHANGED rows

Write ==
  /\ open
  /\ rows' \in Rows
  /\ UNCHANGED open

Stop ==
  /\ open
  /\ open' = FALSE
  /\ UNCHANGED rows

Next == Start \/ Write \/ Stop

Spec == Init /\ [][Next]_<<rows, open>>
=============================================================================
