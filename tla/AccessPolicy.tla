---------------------------- MODULE AccessPolicy ----------------------------
(***************************************************************************)
(* What the blob commands promise about ring associations, with no store   *)
(* transaction in sight: a request says which rings it wants to add to or  *)
(* cut from one blob; an addition takes effect one ring at a time, a cut   *)
(* takes effect at one instant and removes exactly the rings named, unless *)
(* requests for the blob overlap: then it may leave any associations; a    *)
(* fault (an error or a killed daemon) never adds an association, and only *)
(* takes any away from a blob that is being cut.                           *)
(***************************************************************************)
EXTENDS Naturals

CONSTANTS
  Reqs,      \* identities of the requests in flight
  Blobs,     \* blob hashes
  AllRings,  \* ring names, the open ring included
  None       \* no request

VARIABLES
  policy,    \* policy[h]: the rings blob h is associated with
  doing,     \* doing[q]: what request q intends, or None
  contested, \* blobs whose requests overlap, or did until the last one
  faults     \* number of faults so far

policyVars == <<policy, doing, contested, faults>>

Intent == [blob : Blobs, add : SUBSET AllRings, cut : SUBSET AllRings]

PolicyInit ==
  /\ policy = [h \in Blobs |-> {}]
  /\ doing = [q \in Reqs |-> None]
  /\ contested = {}
  /\ faults = 0

Busy(h) == \E q \in Reqs : doing[q] # None /\ doing[q].blob = h

Begin(q) ==
  /\ doing[q] = None
  /\ \E i \in Intent :
       /\ doing' = [doing EXCEPT ![q] = i]
       /\ contested' = IF Busy(i.blob) THEN contested \cup {i.blob}
                       ELSE contested \ {i.blob}
  /\ UNCHANGED <<policy, faults>>

Add(q) ==
  /\ doing[q] # None
  /\ \E r \in doing[q].add :
       policy' = [policy EXCEPT ![doing[q].blob] = @ \cup {r}]
  /\ UNCHANGED <<doing, contested, faults>>

Cut(q) ==
  /\ doing[q] # None
  /\ IF doing[q].blob \in contested
     THEN \E left \in SUBSET AllRings :
            policy' = [policy EXCEPT ![doing[q].blob] = left]
     ELSE policy' = [policy EXCEPT ![doing[q].blob] = @ \ doing[q].cut]
  /\ UNCHANGED <<doing, contested, faults>>

End(q) ==
  /\ doing[q] # None
  /\ doing' = [doing EXCEPT ![q] = None]
  /\ UNCHANGED <<policy, contested, faults>>

\* Requests Q die. Only a blob one of them was cutting may lose associations.
Fault(Q) ==
  /\ faults' = faults + 1
  /\ doing' = [q \in Reqs |-> IF q \in Q THEN None ELSE doing[q]]
  /\ policy' \in [Blobs -> SUBSET AllRings]
  /\ \A h \in Blobs :
       /\ policy'[h] \subseteq policy[h]
       /\ policy'[h] # policy[h]
            => \E q \in Q : /\ doing[q] # None
                            /\ doing[q].blob = h
                            /\ doing[q].cut # {}
  /\ UNCHANGED contested

PolicyNext ==
  \/ \E q \in Reqs : Begin(q) \/ Add(q) \/ Cut(q) \/ End(q)
  \/ \E Q \in SUBSET Reqs : Fault(Q)

PolicySpec == PolicyInit /\ [][PolicyNext]_policyVars
=============================================================================
