----------------------- MODULE RingAttachmentsProofs -----------------------
(***************************************************************************)
(* Proofs about RingAttachments, for any blobs, rings, number of handlers  *)
(* in flight and number of faults. The last part says what is left to a    *)
(* race of two handlers.                                                   *)
(***************************************************************************)
EXTENDS RingAttachments, TLAPS

(***************************************************************************)
(* Types. Every arriving request is a well-formed Request, and every step  *)
(* of a handler leaves one behind.                                         *)
(***************************************************************************)

LEMMA LaunchType ==
  ASSUME TypeOK, NEW q \in Reqs, NEW r \in Request, Launch(q, r)
  PROVE  /\ req' \in [Reqs -> Request \cup {None}]
         /\ asked' \in [Blobs -> SUBSET AllRings]
         /\ wanted' \in [Blobs -> SUBSET AllRings]
         /\ contested' \in SUBSET Blobs
         /\ purged' \in SUBSET Blobs
<1>1. r.blob \in Blobs /\ r.add \subseteq AllRings
  BY DEF Request
<1>2. QED
  BY <1>1 DEF TypeOK, Launch

(***************************************************************************)
(* The shape of a request on arrival, which is all the proofs need to know *)
(* of the five handlers' first steps.                                      *)
(***************************************************************************)
Fresh(r) ==
  /\ r.todo \subseteq AllRings
  /\ r.todo \subseteq r.add
  /\ r.open \/ r.pc = "open" => Open \in r.add
  /\ r.op = "attach" => r.cut = {} /\ r.pc \in {"attach", "open", "done"}
  /\ r.op # "attach" => /\ r.add = {} /\ r.todo = {} /\ ~r.open
                        /\ r.pc \in {"read", "clear"}
  /\ r.op = "remove" \/ (r.op = "detach" /\ r.pc = "clear")
       => r.cut = AllRings /\ r.pc = "clear"

LEMMA ArrivesShape ==
  ASSUME TypeOK, NEW q \in Reqs, Arrives(q)
  PROVE  \E r \in Request : Launch(q, r) /\ Fresh(r) /\ stored' \in SUBSET Blobs
<1>1. PICK h \in Blobs :
        \/ \E R \in SUBSET AllRings, open \in BOOLEAN : HandleImport(q, h, R, open)
        \/ \E R \in SUBSET AllRings, open \in BOOLEAN : HandleAttach(q, h, R, open)
        \/ \E R \in SUBSET AllRings, open \in BOOLEAN : HandleDetach(q, h, R, open)
        \/ HandleDetachAll(q, h)
        \/ HandleBlobRemove(q, h)
  BY DEF Arrives
<1>2. ASSUME NEW R \in SUBSET AllRings, NEW open \in BOOLEAN
      PROVE  Chosen(R, open) \in SUBSET AllRings
  BY DEF Chosen, AllRings
<1>3. ASSUME NEW R \in SUBSET AllRings, NEW open \in BOOLEAN,
             HandleImport(q, h, R, open)
      PROVE  \E r \in Request : Launch(q, r) /\ Fresh(r) /\ stored' \in SUBSET Blobs
  <2> DEFINE c == Chosen(R, open)
             r == [op |-> "attach", blob |-> h, add |-> c, cut |-> {},
                   open |-> FALSE, todo |-> c,
                   pc |-> IF c = {} THEN "done" ELSE "attach"]
  <2>1. r \in Request /\ Fresh(r)
    <3> HIDE DEF c
    <3>1. c \in SUBSET AllRings
      BY <1>2 DEF c
    <3>2. QED
      BY <3>1 DEF Request, Fresh
  <2>2. Launch(q, r) /\ stored' \in SUBSET Blobs
    BY <1>3 DEF HandleImport, TypeOK
  <2>3. QED
    BY <2>1, <2>2
<1>4. ASSUME NEW R \in SUBSET AllRings, NEW open \in BOOLEAN,
             HandleAttach(q, h, R, open)
      PROVE  \E r \in Request : Launch(q, r) /\ Fresh(r) /\ stored' \in SUBSET Blobs
  <2> DEFINE c == R \cup (IF open THEN {Open} ELSE {})
             r == [op |-> "attach", blob |-> h, add |-> c, cut |-> {},
                   open |-> open, todo |-> R,
                   pc |-> IF R = {} THEN "open" ELSE "attach"]
  <2>1. /\ c \in SUBSET AllRings
        /\ open => Open \in c
        /\ R \subseteq c
        /\ R = {} => open
    BY <1>4 DEF HandleAttach, AllRings
  <2>2. r \in Request /\ Fresh(r)
    <3> HIDE DEF c
    <3>1. QED
      BY <2>1 DEF Request, Fresh
  <2>3. Launch(q, r) /\ stored' \in SUBSET Blobs
    BY <1>4 DEF HandleAttach, TypeOK, ResolveTarget
  <2>4. QED
    BY <2>2, <2>3
<1>5. ASSUME NEW c \in SUBSET AllRings, NEW o \in {"detach", "remove"},
             NEW l \in {"read", "clear"},
             l = "clear" \/ o = "remove" => c = AllRings /\ l = "clear",
             Launch(q, [op |-> o, blob |-> h, add |-> {}, cut |-> c,
                        open |-> FALSE, todo |-> {}, pc |-> l]),
             ResolveTarget(h)
      PROVE  \E r \in Request : Launch(q, r) /\ Fresh(r) /\ stored' \in SUBSET Blobs
  <2> DEFINE r == [op |-> o, blob |-> h, add |-> {}, cut |-> c,
                   open |-> FALSE, todo |-> {}, pc |-> l]
  <2>1. r \in Request /\ Fresh(r)
    BY <1>5 DEF Request, Fresh
  <2>2. QED
    BY <1>5, <2>1 DEF TypeOK, ResolveTarget
<1>6. ASSUME NEW R \in SUBSET AllRings, NEW open \in BOOLEAN,
             HandleDetach(q, h, R, open)
      PROVE  \E r \in Request : Launch(q, r) /\ Fresh(r) /\ stored' \in SUBSET Blobs
  BY <1>2, <1>5, <1>6 DEF HandleDetach
<1>7. CASE HandleDetachAll(q, h)
  BY <1>5, <1>7 DEF HandleDetachAll
<1>8. CASE HandleBlobRemove(q, h)
  BY <1>5, <1>8 DEF HandleBlobRemove
<1>9. QED
  BY <1>1, <1>3, <1>4, <1>6, <1>7, <1>8

LEMMA ArrivesType ==
  ASSUME TypeOK, NEW q \in Reqs, Arrives(q)
  PROVE  TypeOK'
BY ArrivesShape, LaunchType DEF TypeOK, Launch

Labels == {"attach", "open", "read", "clear", "rewrite", "delete", "done"}

\* What moving on does to the requests: only todo and pc of slot q change.
LEMMA AdvanceEffect ==
  ASSUME TypeOK, NEW q \in Reqs, req[q] # None,
         NEW todo \in SUBSET AllRings, NEW label \in Labels,
         Advance(q, todo, label)
  PROVE  /\ req' \in [Reqs -> Request \cup {None}]
         /\ req'[q] \in Request
         /\ req'[q].op = req[q].op /\ req'[q].blob = req[q].blob
         /\ req'[q].add = req[q].add /\ req'[q].cut = req[q].cut
         /\ req'[q].open = req[q].open
         /\ req'[q].todo = todo /\ req'[q].pc = label
         /\ \A p \in Reqs \ {q} : req'[p] = req[p]
<1>1. req[q] \in Request
  BY DEF TypeOK
<1> DEFINE r == [req[q] EXCEPT !.todo = todo, !.pc = label]
<1>2. /\ r \in Request
      /\ r.op = req[q].op /\ r.blob = req[q].blob
      /\ r.add = req[q].add /\ r.cut = req[q].cut
      /\ r.open = req[q].open /\ r.todo = todo /\ r.pc = label
  BY <1>1 DEF Request, Labels
<1>3. req' = [req EXCEPT ![q] = r]
  BY DEF Advance
<1> HIDE DEF r
<1>4. QED
  BY <1>2, <1>3 DEF TypeOK

LEMMA ReturnEffect ==
  ASSUME TypeOK, NEW q \in Reqs, Return(q)
  PROVE  /\ req' \in [Reqs -> Request \cup {None}]
         /\ req'[q] = None
         /\ \A p \in Reqs \ {q} : req'[p] = req[p]
BY DEF TypeOK, Return

LEMMA BusyRequest ==
  ASSUME TypeOK, NEW q \in Reqs, req[q] # None
  PROVE  /\ req[q] \in Request
         /\ req[q].blob \in Blobs
         /\ req[q].todo \in SUBSET AllRings
         /\ req[q].cut \in SUBSET AllRings
         /\ req[q].add \in SUBSET AllRings
BY DEF TypeOK, Request

LEMMA StepType ==
  ASSUME TypeOK, NEW q \in Reqs, Step(q)
  PROVE  TypeOK'
<1>1. req[q] # None
  BY DEF Step, AttachRing, AttachOpen, ReadCurrent, ClearRings, RewriteRing,
         DeleteTags, Finish, At
<1>2. /\ req[q].blob \in Blobs
      /\ req[q].todo \in SUBSET AllRings
  BY <1>1, BusyRequest
<1>3. CASE AttachRing(q)
  BY <1>1, <1>2, <1>3, AdvanceEffect
     DEF TypeOK, AttachRing, AddRingToResource, Labels
<1>4. CASE AttachOpen(q)
  BY <1>1, <1>2, <1>4, AdvanceEffect
     DEF TypeOK, AttachOpen, AddRingToResource, AllRings, Labels
<1>5. CASE ReadCurrent(q)
  BY <1>1, <1>2, <1>5, AdvanceEffect, ReturnEffect DEF TypeOK, ReadCurrent, Labels
<1>6. CASE ClearRings(q)
  BY <1>1, <1>2, <1>6, AdvanceEffect
     DEF TypeOK, ClearRings, RemoveRingFromResource, Labels
<1>7. CASE RewriteRing(q)
  BY <1>1, <1>2, <1>7, AdvanceEffect
     DEF TypeOK, RewriteRing, AddRingToResource, Labels
<1>8. CASE DeleteTags(q)
  BY <1>1, <1>2, <1>8, AdvanceEffect, ReturnEffect DEF TypeOK, DeleteTags, Labels
<1>9. CASE Finish(q)
  BY <1>9, ReturnEffect DEF TypeOK, Finish
<1>10. QED
  BY <1>3, <1>4, <1>5, <1>6, <1>7, <1>8, <1>9 DEF Step

LEMMA FaultType ==
  ASSUME TypeOK, (\E q \in Reqs : HandlerFails(q)) \/ Crash
  PROVE  TypeOK'
<1>1. req' \in [Reqs -> Request \cup {None}]
  BY DEF TypeOK, HandlerFails, Crash, Return
<1>2. faults' \in Nat
  <2>1. faults' = faults + 1
    BY DEF HandlerFails, Crash
  <2>2. faults \in Nat
    BY DEF TypeOK
  <2>3. QED
    BY <2>1, <2>2
<1>3. \E B : purged' = purged \ B
  BY DEF HandlerFails, Crash
<1>4. purged' \in SUBSET Blobs
  BY <1>3 DEF TypeOK
<1>5. QED
  BY <1>1, <1>2, <1>4 DEF TypeOK, HandlerFails, Crash

\* Every reachable state is well typed, however many handlers interleave.
THEOREM TypeCorrect == Spec => []TypeOK
<1>1. Init => TypeOK
  BY DEF Init, TypeOK
<1>2. TypeOK /\ [Next]_vars => TypeOK'
  <2>1. SUFFICES ASSUME TypeOK, [Next]_vars PROVE TypeOK'
    OBVIOUS
  <2>2. CASE UNCHANGED vars
    BY <2>1, <2>2 DEF TypeOK, vars
  <2>3. CASE Next
    BY <2>1, <2>3, ArrivesType, StepType, FaultType DEF Next
  <2>4. QED
    BY <2>1, <2>2, <2>3
<1>3. QED
  BY <1>1, <1>2, PTL DEF Spec

(***************************************************************************)
(* OnlyRequested. It is not inductive alone: a handler writes what it      *)
(* carries in todo, so what it carries must have been asked for. That      *)
(* holds of an attach by its request, and of a detach because it can only  *)
(* write back what it has read.                                            *)
(***************************************************************************)

CarriesAsked(q) ==
  req[q] # None =>
    /\ req[q].todo \subseteq asked[req[q].blob]
    /\ req[q].open \/ req[q].pc = "open" => Open \in asked[req[q].blob]

OnlyRequestedInv ==
  /\ TypeOK
  /\ OnlyRequested
  /\ \A q \in Reqs : CarriesAsked(q)

\* A new request asks for all it carries.
LEMMA LaunchAsked ==
  ASSUME OnlyRequestedInv, NEW q \in Reqs, NEW r \in Request, Launch(q, r),
         r.todo \subseteq r.add,
         r.open \/ r.pc = "open" => Open \in r.add
  PROVE  OnlyRequested' /\ \A p \in Reqs : CarriesAsked(p)'
<1>1. r.blob \in Blobs
  BY DEF Request
<1>2. \A h \in Blobs : asked[h] \subseteq asked'[h]
  BY <1>1 DEF Launch, OnlyRequestedInv, TypeOK
<1>3. r.add \subseteq asked'[r.blob]
  BY <1>1 DEF Launch, OnlyRequestedInv, TypeOK
<1>4. OnlyRequested'
  BY <1>2 DEF OnlyRequestedInv, OnlyRequested, Launch
<1>5. ASSUME NEW p \in Reqs PROVE CarriesAsked(p)'
  <2>1. CASE p = q
    <3>1. req'[p] = r
      BY <2>1 DEF Launch, OnlyRequestedInv, TypeOK
    <3>2. QED
      BY <1>3, <3>1 DEF CarriesAsked
  <2>2. CASE p # q
    <3>1. req'[p] = req[p]
      BY <2>2 DEF Launch, OnlyRequestedInv, TypeOK
    <3>2. req[p] # None => req[p].blob \in Blobs
      BY DEF OnlyRequestedInv, TypeOK, Request
    <3>3. CarriesAsked(p)
      BY DEF OnlyRequestedInv
    <3>4. QED
      BY <1>2, <3>1, <3>2, <3>3 DEF CarriesAsked
  <2>3. QED
    BY <2>1, <2>2
<1>6. QED
  BY <1>4, <1>5

LEMMA ArrivesAsked ==
  ASSUME OnlyRequestedInv, NEW q \in Reqs, Arrives(q)
  PROVE  OnlyRequested' /\ \A p \in Reqs : CarriesAsked(p)'
BY ArrivesShape, LaunchAsked DEF OnlyRequestedInv, Fresh

LEMMA StepAsked ==
  ASSUME OnlyRequestedInv, NEW q \in Reqs, Step(q)
  PROVE  OnlyRequested' /\ \A p \in Reqs : CarriesAsked(p)'
<1>1. TypeOK /\ OnlyRequested /\ CarriesAsked(q)
  BY DEF OnlyRequestedInv
<1>2. req[q] # None /\ asked' = asked
  BY DEF Step, AttachRing, AttachOpen, ReadCurrent, ClearRings, RewriteRing,
         DeleteTags, Finish, At
<1>3. /\ req[q].blob \in Blobs
      /\ req[q].todo \in SUBSET AllRings
  BY <1>1, <1>2, BusyRequest
<1>4. ASSUME CarriesAsked(q)', \A p \in Reqs \ {q} : req'[p] = req[p]
      PROVE  \A p \in Reqs : CarriesAsked(p)'
  BY <1>2, <1>4 DEF CarriesAsked, OnlyRequestedInv
<1>5. ASSUME NEW todo \in SUBSET asked[req[q].blob], NEW label \in Labels,
             Advance(q, todo, label),
             label = "open" => Open \in asked[req[q].blob]
      PROVE  \A p \in Reqs : CarriesAsked(p)'
  <2>1. todo \in SUBSET AllRings
    BY <1>1, <1>3 DEF TypeOK
  <2>2. CarriesAsked(q)'
    BY <1>1, <1>2, <1>5, <2>1, AdvanceEffect DEF CarriesAsked
  <2>3. QED
    BY <1>1, <1>2, <1>4, <1>5, <2>1, <2>2, AdvanceEffect
<1>6. ASSUME Return(q) PROVE \A p \in Reqs : CarriesAsked(p)'
  BY <1>1, <1>4, <1>6, ReturnEffect DEF CarriesAsked
<1>7. CASE AttachRing(q)
  <2>1. PICK r \in req[q].todo :
          /\ AddRingToResource(req[q].blob, r)
          /\ Advance(q, req[q].todo \ {r}, IF req[q].todo # {r} THEN "attach"
                                           ELSE IF req[q].open THEN "open"
                                           ELSE "done")
    BY <1>7 DEF AttachRing
  <2>2. OnlyRequested'
    BY <1>1, <1>2, <1>3, <2>1 DEF AddRingToResource, OnlyRequested, CarriesAsked, TypeOK
  <2>3. QED
    BY <1>1, <1>2, <1>5, <2>1, <2>2 DEF CarriesAsked, Labels
<1>8. CASE AttachOpen(q)
  <2>1. OnlyRequested'
    BY <1>1, <1>2, <1>3, <1>8
       DEF AttachOpen, At, AddRingToResource, OnlyRequested, CarriesAsked, TypeOK
  <2>2. QED
    BY <1>5, <1>8, <2>1 DEF AttachOpen, Labels
<1>9. CASE ReadCurrent(q)
  <2>1. attached[req[q].blob] \ req[q].cut \in SUBSET asked[req[q].blob]
    BY <1>1, <1>3 DEF OnlyRequested
  <2>2. OnlyRequested'
    BY <1>1, <1>9 DEF ReadCurrent, OnlyRequested
  <2>3. QED
    BY <1>5, <1>6, <1>9, <2>1, <2>2 DEF ReadCurrent, Labels
<1>10. CASE ClearRings(q)
  <2>1. OnlyRequested'
    BY <1>1, <1>2, <1>3, <1>10
       DEF ClearRings, RemoveRingFromResource, OnlyRequested, TypeOK
  <2>2. QED
    BY <1>1, <1>2, <1>5, <1>10, <2>1 DEF ClearRings, CarriesAsked, Labels
<1>11. CASE RewriteRing(q)
  <2>1. PICK r \in req[q].todo :
          /\ AddRingToResource(req[q].blob, r)
          /\ Advance(q, req[q].todo \ {r},
                     IF req[q].todo = {r} THEN "done" ELSE "rewrite")
    BY <1>11 DEF RewriteRing
  <2>2. OnlyRequested'
    BY <1>1, <1>2, <1>3, <2>1 DEF AddRingToResource, OnlyRequested, CarriesAsked, TypeOK
  <2>3. QED
    BY <1>1, <1>2, <1>5, <2>1, <2>2 DEF CarriesAsked, Labels
<1>12. CASE DeleteTags(q)
  BY <1>1, <1>5, <1>6, <1>12 DEF DeleteTags, OnlyRequested, Labels
<1>13. CASE Finish(q)
  BY <1>1, <1>6, <1>13 DEF Finish, OnlyRequested
<1>14. QED
  BY <1>7, <1>8, <1>9, <1>10, <1>11, <1>12, <1>13 DEF Step

LEMMA FaultAsked ==
  ASSUME OnlyRequestedInv, (\E q \in Reqs : HandlerFails(q)) \/ Crash
  PROVE  OnlyRequested' /\ \A p \in Reqs : CarriesAsked(p)'
<1>1. /\ attached' = attached /\ asked' = asked
      /\ \A p \in Reqs : req'[p] = req[p] \/ req'[p] = None
  BY DEF OnlyRequestedInv, TypeOK, HandlerFails, Crash, Return
<1>2. QED
  BY <1>1 DEF OnlyRequestedInv, OnlyRequested, CarriesAsked

\* However many handlers race on a blob, and wherever they fail, the blob only
\* ever gets rings that an import or attach request for it asked for.
THEOREM OnlyRequestedHolds == Spec => []OnlyRequested
<1>1. Init => OnlyRequestedInv
  BY DEF Init, OnlyRequestedInv, OnlyRequested, CarriesAsked, TypeOK
<1>2. OnlyRequestedInv /\ [Next]_vars => OnlyRequestedInv'
  <2>1. SUFFICES ASSUME OnlyRequestedInv, [Next]_vars
                 PROVE  OnlyRequestedInv'
    OBVIOUS
  <2>2. CASE UNCHANGED vars
    BY <2>1, <2>2 DEF OnlyRequestedInv, OnlyRequested, CarriesAsked, TypeOK, vars
  <2>3. CASE Next
    <3>1. TypeOK'
      BY <2>1, <2>3, ArrivesType, StepType, FaultType DEF Next, OnlyRequestedInv
    <3>2. OnlyRequested' /\ \A p \in Reqs : CarriesAsked(p)'
      BY <2>1, <2>3, ArrivesAsked, StepAsked, FaultAsked DEF Next
    <3>3. QED
      BY <3>1, <3>2 DEF OnlyRequestedInv
  <2>4. QED
    BY <2>1, <2>2, <2>3
<1>3. OnlyRequestedInv => OnlyRequested
  BY DEF OnlyRequestedInv
<1>4. QED
  BY <1>1, <1>2, <1>3, PTL DEF Spec

(***************************************************************************)
(* DetachFinal and RemovedUnserved. Both rest on who else works on a blob: *)
(* on one whose requests do not overlap there is one handler at most, so   *)
(* what that handler has read is still there when it writes back, and a    *)
(* remove is either about to clear the associations or has done so.        *)
(***************************************************************************)

Works(q, h) == req[q] # None /\ req[q].blob = h

\* One handler at most works on a blob whose requests do not overlap.
Lone ==
  \A p, q \in Reqs, h \in Blobs :
    Works(p, h) /\ Works(q, h) /\ (h \notin contested \/ h \in purged) => p = q

\* What a detach will write back is none of what it cuts.
WritesBack(q) ==
  req[q] # None /\ req[q].blob \notin contested =>
    /\ req[q].pc = "clear" => req[q].todo \subseteq wanted[req[q].blob] \ req[q].cut
    /\ req[q].pc = "rewrite" => req[q].todo \subseteq wanted[req[q].blob]

\* A remove clears before it deletes, and nobody else works on a purged blob.
Removes(q) ==
  req[q] # None =>
    /\ req[q].op = "remove" => req[q].pc \in {"clear", "delete", "done"}
    /\ req[q].blob \in purged => req[q].op = "remove"

\* A purged blob has no association, or its remove is about to clear them.
Purged ==
  \A h \in purged :
    attached[h] = {} \/ \E q \in Reqs : Works(q, h) /\ req[q].pc = "clear"

FinalInv ==
  /\ TypeOK
  /\ Lone
  /\ DetachFinal
  /\ Purged
  /\ \A q \in Reqs : WritesBack(q) /\ Removes(q)

\* A step moves its own handler and touches its own blob only.
LEMMA StepLocal ==
  ASSUME TypeOK, NEW q \in Reqs, Step(q)
  PROVE  /\ req[q] # None /\ req[q].blob \in Blobs
         /\ \A p \in Reqs \ {q} : req'[p] = req[p]
         /\ req'[q] # None =>
              /\ req'[q].op = req[q].op /\ req'[q].blob = req[q].blob
              /\ req'[q].cut = req[q].cut
         /\ \A h \in Blobs \ {req[q].blob} :
              attached'[h] = attached[h] /\ wanted'[h] = wanted[h]
         /\ contested' = contested /\ purged' = purged
<1>1. req[q] # None
  BY DEF Step, AttachRing, AttachOpen, ReadCurrent, ClearRings, RewriteRing,
         DeleteTags, Finish, At
<1>2. /\ req[q].blob \in Blobs
      /\ req[q].todo \in SUBSET AllRings
  BY <1>1, BusyRequest
<1>3. contested' = contested /\ purged' = purged
  BY DEF Step, AttachRing, AttachOpen, ReadCurrent, ClearRings, RewriteRing,
         DeleteTags, Finish
<1>4. \A h \in Blobs \ {req[q].blob} :
        attached'[h] = attached[h] /\ wanted'[h] = wanted[h]
  BY <1>2 DEF Step, AttachRing, AttachOpen, ReadCurrent, ClearRings, RewriteRing,
         DeleteTags, Finish, AddRingToResource, RemoveRingFromResource, TypeOK
<1>5. Return(q) \/ \E todo \in SUBSET AllRings, label \in Labels :
                     Advance(q, todo, label)
  <2>1. CASE AttachRing(q)
    BY <1>2, <2>1 DEF AttachRing, Labels
  <2>2. CASE AttachOpen(q)
    BY <2>2 DEF AttachOpen, Labels
  <2>3. CASE ReadCurrent(q)
    BY <1>2, <2>3 DEF ReadCurrent, Labels, TypeOK
  <2>4. CASE ClearRings(q)
    BY <1>2, <2>4 DEF ClearRings, Labels
  <2>5. CASE RewriteRing(q)
    BY <1>2, <2>5 DEF RewriteRing, Labels
  <2>6. CASE DeleteTags(q)
    BY <2>6 DEF DeleteTags, Labels
  <2>7. CASE Finish(q)
    BY <2>7 DEF Finish
  <2>8. QED
    BY <2>1, <2>2, <2>3, <2>4, <2>5, <2>6, <2>7 DEF Step
<1>6. CASE Return(q)
  BY <1>1, <1>2, <1>3, <1>4, <1>6, ReturnEffect
<1>7. ASSUME NEW todo \in SUBSET AllRings, NEW label \in Labels,
             Advance(q, todo, label)
      PROVE  /\ \A p \in Reqs \ {q} : req'[p] = req[p]
             /\ req'[q].op = req[q].op /\ req'[q].blob = req[q].blob
             /\ req'[q].cut = req[q].cut
  BY <1>1, <1>7, AdvanceEffect
<1>8. QED
  BY <1>1, <1>2, <1>3, <1>4, <1>5, <1>6, <1>7

\* What a step leaves of its own blob, when nobody else works on it.
LEMMA StepFinal ==
  ASSUME FinalInv, NEW q \in Reqs, Step(q), req[q].blob \notin contested
  PROVE  /\ attached'[req[q].blob] \subseteq wanted'[req[q].blob]
         /\ WritesBack(q)'
<1> DEFINE h == req[q].blob
<1>1. /\ TypeOK /\ req[q] # None /\ h \in Blobs
      /\ req[q].todo \in SUBSET AllRings /\ req[q].cut \in SUBSET AllRings
      /\ contested' = contested
  BY StepLocal, BusyRequest DEF FinalInv
<1>2. /\ attached[h] \subseteq wanted[h]
      /\ WritesBack(q)
  BY <1>1 DEF FinalInv, DetachFinal
<1>3. ASSUME Return(q) PROVE WritesBack(q)'
  BY <1>1, <1>3, ReturnEffect DEF WritesBack
<1>4. ASSUME NEW todo \in SUBSET AllRings, NEW label \in Labels,
             Advance(q, todo, label),
             label = "clear" => todo \subseteq wanted'[h] \ req[q].cut,
             label = "rewrite" => todo \subseteq wanted'[h]
      PROVE  WritesBack(q)'
  <2>1. /\ req'[q].blob = h /\ req'[q].cut = req[q].cut
        /\ req'[q].todo = todo /\ req'[q].pc = label
    BY <1>1, <1>4, AdvanceEffect
  <2>2. QED
    BY <1>1, <1>4, <2>1 DEF WritesBack
<1>5. CASE AttachRing(q)
  <2>1. PICK r \in req[q].todo :
          /\ attached' = [attached EXCEPT ![h] = @ \cup {r}]
          /\ wanted' = [wanted EXCEPT ![h] = @ \cup {r}]
          /\ Advance(q, req[q].todo \ {r}, IF req[q].todo # {r} THEN "attach"
                                           ELSE IF req[q].open THEN "open"
                                           ELSE "done")
    BY <1>5 DEF AttachRing, AddRingToResource
  <2>2. attached'[h] \subseteq wanted'[h]
    BY <1>1, <1>2, <2>1 DEF TypeOK
  <2>3. QED
    BY <1>1, <1>4, <2>1, <2>2 DEF Labels
<1>6. CASE AttachOpen(q)
  <2>1. attached'[h] \subseteq wanted'[h]
    BY <1>1, <1>2, <1>6 DEF AttachOpen, AddRingToResource, TypeOK
  <2>2. QED
    BY <1>4, <1>6, <2>1 DEF AttachOpen, Labels
<1>7. CASE ReadCurrent(q)
  <2>1. attached[h] \ req[q].cut \subseteq wanted[h] \ req[q].cut
    BY <1>2
  <2>2. attached[h] \ req[q].cut \in SUBSET AllRings
    BY <1>1 DEF TypeOK
  <2>3. QED
    BY <1>2, <1>3, <1>4, <1>7, <2>1, <2>2 DEF ReadCurrent, Labels
<1>8. CASE ClearRings(q)
  <2>1. attached'[h] = {} /\ wanted'[h] = wanted[h] \ req[q].cut
    BY <1>1, <1>8 DEF ClearRings, RemoveRingFromResource, TypeOK
  <2>2. req[q].todo \subseteq wanted'[h]
    BY <1>1, <1>2, <1>8, <2>1 DEF ClearRings, At, WritesBack
  <2>3. QED
    BY <1>1, <1>4, <1>8, <2>1, <2>2 DEF ClearRings, Labels
<1>9. CASE RewriteRing(q)
  <2>1. PICK r \in req[q].todo :
          /\ attached' = [attached EXCEPT ![h] = @ \cup {r}]
          /\ Advance(q, req[q].todo \ {r},
                     IF req[q].todo = {r} THEN "done" ELSE "rewrite")
    BY <1>9 DEF RewriteRing, AddRingToResource
  <2>2. wanted' = wanted /\ req[q].todo \subseteq wanted[h]
    BY <1>1, <1>2, <1>9 DEF RewriteRing, At, WritesBack
  <2>3. attached'[h] \subseteq wanted'[h]
    BY <1>1, <1>2, <2>1, <2>2 DEF TypeOK
  <2>4. QED
    BY <1>1, <1>4, <2>1, <2>2, <2>3 DEF Labels
<1>10. CASE DeleteTags(q)
  BY <1>1, <1>2, <1>3, <1>4, <1>10 DEF DeleteTags, Labels
<1>11. CASE Finish(q)
  BY <1>2, <1>3, <1>11 DEF Finish
<1>12. QED
  BY <1>5, <1>6, <1>7, <1>8, <1>9, <1>10, <1>11 DEF Step

\* A remove on a purged blob moves on only by clearing its associations.
LEMMA StepPurged ==
  ASSUME FinalInv, NEW q \in Reqs, Step(q)
  PROVE  /\ Removes(q)'
         /\ req[q].blob \in purged =>
              \/ attached'[req[q].blob] = {}
              \/ req'[q] # None /\ req'[q].pc = "clear"
<1> DEFINE h == req[q].blob
<1>1. /\ TypeOK /\ req[q] # None /\ h \in Blobs
      /\ req[q].todo \in SUBSET AllRings
      /\ purged' = purged
  BY StepLocal, BusyRequest DEF FinalInv
<1>2. Removes(q)
  BY DEF FinalInv
<1>3. ASSUME Return(q) PROVE Removes(q)'
  BY <1>1, <1>3, ReturnEffect DEF Removes
<1>4. ASSUME NEW todo \in SUBSET AllRings, NEW label \in Labels,
             Advance(q, todo, label),
             req[q].op = "remove" => label \in {"clear", "delete", "done"}
      PROVE  Removes(q)'
  <2>1. req'[q].blob = h /\ req'[q].op = req[q].op /\ req'[q].pc = label
    BY <1>1, <1>4, AdvanceEffect
  <2>2. QED
    BY <1>1, <1>2, <1>4, <2>1 DEF Removes
<1>5. ASSUME h \in purged, req[q].pc # "clear" PROVE attached[h] = {}
  <2>1. attached[h] = {} \/ \E p \in Reqs : Works(p, h) /\ req[p].pc = "clear"
    BY <1>5 DEF FinalInv, Purged
  <2>2. ASSUME NEW p \in Reqs, Works(p, h) PROVE p = q
    BY <1>1, <1>5, <2>2 DEF FinalInv, Lone, Works
  <2>3. QED
    BY <1>5, <2>1, <2>2
<1>6. CASE AttachRing(q)
  <2>1. PICK r \in req[q].todo :
          Advance(q, req[q].todo \ {r}, IF req[q].todo # {r} THEN "attach"
                                        ELSE IF req[q].open THEN "open"
                                        ELSE "done")
    BY <1>6 DEF AttachRing
  <2>2. req[q].op # "remove" /\ h \notin purged
    BY <1>1, <1>2, <1>6 DEF AttachRing, At, Removes
  <2>3. QED
    BY <1>1, <1>4, <2>1, <2>2 DEF Labels
<1>7. CASE AttachOpen(q)
  <2>1. req[q].op # "remove" /\ h \notin purged
    BY <1>1, <1>2, <1>7 DEF AttachOpen, At, Removes
  <2>2. QED
    BY <1>4, <1>7, <2>1 DEF AttachOpen, Labels
<1>8. CASE ReadCurrent(q)
  <2>1. req[q].op # "remove" /\ h \notin purged
    BY <1>1, <1>2, <1>8 DEF ReadCurrent, At, Removes
  <2>2. attached[h] \ req[q].cut \in SUBSET AllRings
    BY <1>1 DEF TypeOK
  <2>3. QED
    BY <1>3, <1>4, <1>8, <2>1, <2>2 DEF ReadCurrent, Labels
<1>9. CASE ClearRings(q)
  <2>1. attached'[h] = {}
    BY <1>1, <1>9 DEF ClearRings, RemoveRingFromResource, TypeOK
  <2>2. QED
    BY <1>1, <1>4, <1>9, <2>1 DEF ClearRings, Labels
<1>10. CASE RewriteRing(q)
  <2>1. PICK r \in req[q].todo :
          Advance(q, req[q].todo \ {r},
                  IF req[q].todo = {r} THEN "done" ELSE "rewrite")
    BY <1>10 DEF RewriteRing
  <2>2. req[q].op # "remove" /\ h \notin purged
    BY <1>1, <1>2, <1>10 DEF RewriteRing, At, Removes
  <2>3. QED
    BY <1>1, <1>4, <2>1, <2>2 DEF Labels
<1>11. CASE DeleteTags(q)
  <2>1. h \in purged => attached'[h] = {}
    BY <1>5, <1>11 DEF DeleteTags, At
  <2>2. QED
    BY <1>3, <1>4, <1>11, <2>1 DEF DeleteTags, Labels
<1>12. CASE Finish(q)
  <2>1. h \in purged => attached'[h] = {}
    BY <1>5, <1>12 DEF Finish, At
  <2>2. QED
    BY <1>3, <1>12, <2>1 DEF Finish
<1>13. QED
  BY <1>6, <1>7, <1>8, <1>9, <1>10, <1>11, <1>12 DEF Step

LEMMA StepKeepsFinal ==
  ASSUME FinalInv, NEW q \in Reqs, Step(q)
  PROVE  FinalInv'
<1> DEFINE h == req[q].blob
<1>1. TypeOK /\ TypeOK'
  BY StepType DEF FinalInv
<1>2. /\ req[q] # None /\ h \in Blobs
      /\ \A p \in Reqs \ {q} : req'[p] = req[p]
      /\ req'[q] # None => req'[q].blob = h
      /\ \A g \in Blobs \ {h} : attached'[g] = attached[g] /\ wanted'[g] = wanted[g]
      /\ contested' = contested /\ purged' = purged
  BY <1>1, StepLocal
<1>3. Lone'
  BY <1>2 DEF FinalInv, Lone, Works
<1>4. DetachFinal'
  BY <1>2, StepFinal DEF FinalInv, DetachFinal
<1>5. ASSUME NEW p \in Reqs PROVE WritesBack(p)' /\ Removes(p)'
  <2>1. CASE p = q
    <3>1. Removes(q)'
      BY StepPurged
    <3>2. CASE h \in contested
      BY <1>2, <2>1, <3>1, <3>2 DEF WritesBack
    <3>3. QED
      BY <2>1, <3>1, <3>2, StepFinal
  <2>2. CASE p # q
    <3>1. req'[p] = req[p] /\ WritesBack(p) /\ Removes(p)
      BY <1>2, <2>2 DEF FinalInv
    <3>2. ASSUME req[p] # None, req[p].blob \notin contested
          PROVE  req[p].blob \in Blobs \ {h}
      BY <1>1, <1>2, <2>2, <3>2, BusyRequest DEF FinalInv, Lone, Works
    <3>3. QED
      BY <1>2, <3>1, <3>2 DEF WritesBack, Removes
  <2>3. QED
    BY <2>1, <2>2
<1>6. ASSUME NEW g \in purged
      PROVE  attached'[g] = {} \/ \E p \in Reqs : Works(p, g)' /\ req'[p].pc = "clear"
  <2>1. attached[g] = {} \/ \E p \in Reqs : Works(p, g) /\ req[p].pc = "clear"
    BY DEF FinalInv, Purged
  <2>2. g \in Blobs
    BY <1>1 DEF TypeOK
  <2>3. CASE g = h
    BY <1>2, <2>3, StepPurged DEF Works
  <2>4. CASE g # h
    BY <1>2, <2>1, <2>2, <2>4 DEF Works
  <2>5. QED
    BY <2>3, <2>4
<1>7. Purged'
  BY <1>2, <1>6 DEF Purged
<1>8. QED
  BY <1>1, <1>3, <1>4, <1>5, <1>7 DEF FinalInv

\* A request that finds its blob quiet starts afresh, one that does not makes it
\* contested and spares it from being purged.
LEMMA LaunchKeepsFinal ==
  ASSUME FinalInv, TypeOK', NEW q \in Reqs, NEW r \in Request,
         Launch(q, r), Fresh(r)
  PROVE  FinalInv'
<1> DEFINE h == r.blob
<1>1. /\ TypeOK /\ h \in Blobs
      /\ req[q] = None /\ req'[q] = r /\ r # None
      /\ \A p \in Reqs \ {q} : req'[p] = req[p]
      /\ attached' = attached
  BY AttachmentsAssumption DEF FinalInv, TypeOK, Launch, Request
<1>2. /\ contested' = IF Busy(h) THEN contested \cup {h} ELSE contested \ {h}
      /\ purged' = IF r.op = "remove" /\ ~Busy(h)
                   THEN purged \cup {h} ELSE purged \ {h}
  BY DEF Launch
<1>3. \A g \in Blobs \ {h} : wanted'[g] = wanted[g]
  BY <1>1 DEF Launch, TypeOK
<1>4. wanted'[h] = IF h \in contested /\ ~Busy(h) THEN attached[h] ELSE wanted[h]
  BY <1>1 DEF Launch, TypeOK
<1>5. Lone'
  <2> SUFFICES ASSUME NEW p1 \in Reqs, NEW p2 \in Reqs, NEW g \in Blobs,
                      Works(p1, g)', Works(p2, g)',
                      (g \notin contested \/ g \in purged)'
               PROVE  p1 = p2
    BY DEF Lone
  <2>1. CASE g = h
    <3>1. ~Busy(h)
      BY <1>2, <2>1
    <3>2. QED
      BY <1>1, <2>1, <3>1 DEF Works, Busy
  <2>2. CASE g # h
    <3>1. p1 # q /\ p2 # q
      BY <1>1, <2>2 DEF Works
    <3>2. Works(p1, g) /\ Works(p2, g)
      BY <1>1, <3>1 DEF Works
    <3>3. g \notin contested \/ g \in purged
      BY <1>2, <2>2
    <3>4. QED
      BY <3>2, <3>3 DEF FinalInv, Lone
  <2>3. QED
    BY <2>1, <2>2
<1>6. DetachFinal'
  <2> SUFFICES ASSUME NEW g \in Blobs \ contested'
               PROVE  attached[g] \subseteq wanted'[g]
    BY <1>1 DEF DetachFinal
  <2>1. CASE g = h /\ h \in contested
    BY <1>2, <1>4, <2>1
  <2>2. CASE g = h /\ h \notin contested
    BY <1>1, <1>4, <2>2 DEF FinalInv, DetachFinal
  <2>3. CASE g # h
    BY <1>2, <1>3, <2>3 DEF FinalInv, DetachFinal
  <2>4. QED
    BY <2>1, <2>2, <2>3
<1>7. Purged'
  <2> SUFFICES ASSUME NEW g \in purged'
               PROVE  \/ attached[g] = {}
                      \/ \E p \in Reqs : Works(p, g)' /\ req'[p].pc = "clear"
    BY <1>1 DEF Purged
  <2>1. CASE g = h
    <3>1. r.pc = "clear"
      BY <1>2, <2>1 DEF Fresh
    <3>2. QED
      BY <1>1, <2>1, <3>1 DEF Works
  <2>2. CASE g # h
    <3>1. g \in purged
      BY <1>2, <2>2
    <3>2. attached[g] = {} \/ \E p \in Reqs : Works(p, g) /\ req[p].pc = "clear"
      BY <3>1 DEF FinalInv, Purged
    <3>3. QED
      BY <1>1, <3>2 DEF Works
  <2>3. QED
    BY <2>1, <2>2
<1>8. ASSUME NEW p \in Reqs PROVE WritesBack(p)' /\ Removes(p)'
  <2>1. CASE p = q
    <3>1. WritesBack(q)'
      BY <1>1 DEF WritesBack, Fresh, Request
    <3>2. Removes(q)'
      BY <1>1, <1>2 DEF Removes, Fresh
    <3>3. QED
      BY <2>1, <3>1, <3>2
  <2>2. CASE p # q
    <3>1. req'[p] = req[p] /\ WritesBack(p) /\ Removes(p)
      BY <1>1, <2>2 DEF FinalInv
    <3>2. req[p] # None => req[p].blob \in Blobs
      BY <1>1, BusyRequest
    <3>3. req[p] # None /\ req[p].blob = h => Busy(h)
      BY DEF Busy
    <3>4. WritesBack(p)'
      BY <1>2, <1>3, <1>4, <3>1, <3>2, <3>3 DEF WritesBack
    <3>5. Removes(p)'
      BY <1>2, <3>1, <3>3 DEF Removes
    <3>6. QED
      BY <3>4, <3>5
  <2>3. QED
    BY <2>1, <2>2
<1>9. QED
  BY <1>1, <1>5, <1>6, <1>7, <1>8 DEF FinalInv

\* A fault ends handlers; a remove it ends before its first write no longer
\* counts as one.
LEMMA FaultKeepsFinal ==
  ASSUME FinalInv, (\E q \in Reqs : HandlerFails(q)) \/ Crash
  PROVE  FinalInv'
<1>1. TypeOK'
  BY FaultType DEF FinalInv
<1>2. /\ attached' = attached /\ wanted' = wanted /\ contested' = contested
      /\ \A p \in Reqs : req'[p] = req[p] \/ req'[p] = None
  BY DEF FinalInv, TypeOK, HandlerFails, Crash, Return
<1>3. purged' \subseteq purged
  BY DEF HandlerFails, Crash
<1>4. \A p \in Reqs : At(p, "clear") /\ req'[p] = None => req[p].blob \notin purged'
  <2>1. ASSUME NEW q \in Reqs, HandlerFails(q)
        PROVE  \A p \in Reqs : At(p, "clear") /\ req'[p] = None
                                 => req[p].blob \notin purged'
    BY <2>1 DEF HandlerFails, Unstarted, Return, FinalInv, TypeOK, At
  <2>2. CASE Crash
    BY <2>2 DEF Crash, Unstarted
  <2>3. QED
    BY <2>1, <2>2
<1>5. Lone'
  BY <1>2, <1>3 DEF FinalInv, Lone, Works
<1>6. DetachFinal'
  BY <1>2 DEF FinalInv, DetachFinal
<1>7. \A p \in Reqs : WritesBack(p)' /\ Removes(p)'
  BY <1>2, <1>3 DEF FinalInv, WritesBack, Removes
<1>8. Purged'
  <2> SUFFICES ASSUME NEW g \in purged'
               PROVE  \/ attached[g] = {}
                      \/ \E p \in Reqs : Works(p, g)' /\ req'[p].pc = "clear"
    BY <1>2 DEF Purged
  <2>1. attached[g] = {} \/ \E p \in Reqs : Works(p, g) /\ req[p].pc = "clear"
    BY <1>3 DEF FinalInv, Purged
  <2>2. ASSUME NEW p \in Reqs, Works(p, g), req[p].pc = "clear"
        PROVE  Works(p, g)' /\ req'[p].pc = "clear"
    BY <1>2, <1>4, <2>2 DEF Works, At
  <2>3. QED
    BY <2>1, <2>2
<1>9. QED
  BY <1>1, <1>5, <1>6, <1>7, <1>8 DEF FinalInv

LEMMA FinalHolds == Spec => []FinalInv
<1>1. Init => FinalInv
  BY DEF Init, FinalInv, TypeOK, Lone, Works, DetachFinal, Purged, WritesBack, Removes
<1>2. FinalInv /\ [Next]_vars => FinalInv'
  <2>1. SUFFICES ASSUME FinalInv, [Next]_vars PROVE FinalInv'
    OBVIOUS
  <2>2. ASSUME NEW q \in Reqs, Arrives(q) PROVE FinalInv'
    <3>1. TypeOK'
      BY <2>1, <2>2, ArrivesType DEF FinalInv
    <3>2. PICK r \in Request : Launch(q, r) /\ Fresh(r)
      BY <2>1, <2>2, ArrivesShape DEF FinalInv
    <3>3. QED
      BY <2>1, <3>1, <3>2, LaunchKeepsFinal
  <2>3. CASE UNCHANGED vars
    BY <2>1, <2>3 DEF vars, FinalInv, TypeOK, Lone, Works, DetachFinal, Purged,
                      WritesBack, Removes
  <2>4. QED
    BY <2>1, <2>2, <2>3, StepKeepsFinal, FaultKeepsFinal DEF Next
<1>3. QED
  BY <1>1, <1>2, PTL DEF Spec

\* On a blob whose requests do not overlap no association survives, or comes
\* back after, a detach or remove that cut it (handle_detach, which reads,
\* clears and writes back; handle_blob_remove).
THEOREM DetachFinalHolds == Spec => []DetachFinal
<1>1. FinalInv => DetachFinal
  BY DEF FinalInv
<1>2. QED
  BY <1>1, FinalHolds, PTL

\* After a remove that nobody overlapped the blob has no association, even when
\* it failed between the associations and the tags (handle_blob_remove).
THEOREM RemovedUnservedHolds == Spec => []RemovedUnserved
<1>1. FinalInv => RemovedUnserved
  BY DEF FinalInv, Purged, RemovedUnserved, Works, Busy
<1>2. QED
  BY <1>1, FinalHolds, PTL

(***************************************************************************)
(* The refinement. Beyond FinalInv it needs what a handler carries to be   *)
(* what its request documents: an attach adds no more, and a detach alone  *)
(* on its blob writes back exactly what it does not cut.                   *)
(***************************************************************************)

Intends(q) ==
  req[q] # None =>
    /\ req[q].pc = "attach" => req[q].todo \subseteq req[q].add
    /\ req[q].open \/ req[q].pc = "open" => Open \in req[q].add
    /\ req[q].pc \in {"read", "clear", "rewrite"} => req[q].op # "attach"
    /\ req[q].op = "remove" => req[q].cut = AllRings
    /\ req[q].pc \in {"clear", "rewrite"} => req[q].cut # {}
    /\ req[q].pc = "clear" /\ req[q].blob \notin contested
         => req[q].todo = attached[req[q].blob] \ req[q].cut

PolicyInv == FinalInv /\ \A q \in Reqs : Intends(q)

LEMMA StepIntends ==
  ASSUME PolicyInv, NEW q \in Reqs, Step(q)
  PROVE  Intends(q)'
<1> DEFINE h == req[q].blob
<1>1. /\ TypeOK /\ req[q] # None /\ h \in Blobs
      /\ req[q].todo \in SUBSET AllRings /\ contested' = contested
      /\ Intends(q)
  BY StepLocal, BusyRequest DEF PolicyInv, FinalInv
<1>2. ASSUME Return(q) PROVE Intends(q)'
  BY <1>1, <1>2, ReturnEffect DEF Intends
<1>3. ASSUME NEW todo \in SUBSET AllRings, NEW label \in Labels,
             Advance(q, todo, label),
             label = "attach" => todo \subseteq req[q].add,
             label = "open" => Open \in req[q].add,
             label \in {"read", "clear", "rewrite"} => req[q].op # "attach",
             label \in {"clear", "rewrite"} => req[q].cut # {},
             label = "clear" => todo = attached'[h] \ req[q].cut
      PROVE  Intends(q)'
  <2>1. /\ req'[q].op = req[q].op /\ req'[q].blob = h
        /\ req'[q].add = req[q].add /\ req'[q].cut = req[q].cut
        /\ req'[q].open = req[q].open
        /\ req'[q].todo = todo /\ req'[q].pc = label
    BY <1>1, <1>3, AdvanceEffect
  <2>2. QED
    BY <1>1, <1>3, <2>1 DEF Intends
<1>4. CASE AttachRing(q)
  <2>1. PICK r \in req[q].todo :
          Advance(q, req[q].todo \ {r}, IF req[q].todo # {r} THEN "attach"
                                        ELSE IF req[q].open THEN "open"
                                        ELSE "done")
    BY <1>4 DEF AttachRing
  <2>2. req[q].todo \subseteq req[q].add /\ (req[q].open => Open \in req[q].add)
    BY <1>1, <1>4 DEF AttachRing, At, Intends
  <2>3. req[q].todo \ {r} \in SUBSET AllRings /\ req[q].todo \ {r} \subseteq req[q].add
    BY <1>1, <2>2
  <2>4. QED
    BY <1>3, <2>1, <2>2, <2>3 DEF Labels
<1>5. CASE AttachOpen(q)
  BY <1>3, <1>5 DEF AttachOpen, Labels
<1>6. CASE ReadCurrent(q)
  <2>1. /\ attached[h] \ req[q].cut \in SUBSET AllRings
        /\ attached' = attached
        /\ req[q].op # "attach"
    BY <1>1, <1>6 DEF ReadCurrent, TypeOK, At, Intends
  <2>2. CASE attached[h] \cap req[q].cut = {}
    BY <1>2, <1>6, <2>2 DEF ReadCurrent
  <2>3. CASE attached[h] \cap req[q].cut # {}
    <3>1. Advance(q, attached[h] \ req[q].cut, "clear")
      BY <1>6, <2>3 DEF ReadCurrent
    <3>2. req[q].cut # {}
      BY <2>3
    <3>3. QED
      BY <1>3, <2>1, <3>1, <3>2 DEF Labels
  <2>4. QED
    BY <2>2, <2>3
<1>7. CASE ClearRings(q)
  <2>1. req[q].cut # {} /\ req[q].op # "attach"
    BY <1>1, <1>7 DEF ClearRings, At, Intends
  <2>2. QED
    BY <1>1, <1>3, <1>7, <2>1 DEF ClearRings, Labels
<1>8. CASE RewriteRing(q)
  <2>1. PICK r \in req[q].todo :
          Advance(q, req[q].todo \ {r},
                  IF req[q].todo = {r} THEN "done" ELSE "rewrite")
    BY <1>8 DEF RewriteRing
  <2>2. req[q].cut # {} /\ req[q].op # "attach"
    BY <1>1, <1>8 DEF RewriteRing, At, Intends
  <2>3. QED
    BY <1>1, <1>3, <2>1, <2>2 DEF Labels
<1>9. CASE DeleteTags(q)
  BY <1>2, <1>3, <1>9 DEF DeleteTags, Labels
<1>10. CASE Finish(q)
  BY <1>2, <1>10 DEF Finish
<1>11. QED
  BY <1>4, <1>5, <1>6, <1>7, <1>8, <1>9, <1>10 DEF Step

LEMMA StepKeepsPolicy ==
  ASSUME PolicyInv, NEW q \in Reqs, Step(q)
  PROVE  PolicyInv'
<1>1. FinalInv /\ TypeOK /\ FinalInv'
  BY StepKeepsFinal DEF PolicyInv, FinalInv
<1>2. ASSUME NEW p \in Reqs, p # q PROVE Intends(p)'
  <2>1. /\ req'[p] = req[p] /\ contested' = contested
        /\ \A g \in Blobs \ {req[q].blob} : attached'[g] = attached[g]
        /\ req[q] # None /\ Intends(p)
    BY <1>1, <1>2, StepLocal DEF PolicyInv
  <2>2. ASSUME req[p] # None, req[p].blob \notin contested
        PROVE  req[p].blob \in Blobs \ {req[q].blob}
    BY <1>1, <1>2, <2>1, <2>2, BusyRequest DEF FinalInv, Lone, Works
  <2>3. QED
    BY <2>1, <2>2 DEF Intends
<1>3. QED
  BY <1>1, <1>2, StepIntends DEF PolicyInv

LEMMA LaunchKeepsPolicy ==
  ASSUME PolicyInv, TypeOK', NEW q \in Reqs, NEW r \in Request,
         Launch(q, r), Fresh(r)
  PROVE  PolicyInv'
<1>1. FinalInv'
  BY LaunchKeepsFinal DEF PolicyInv
<1>2. /\ TypeOK /\ r.blob \in Blobs /\ r.op \in {"attach", "detach", "remove"}
      /\ req[q] = None /\ req'[q] = r
      /\ \A p \in Reqs \ {q} : req'[p] = req[p]
      /\ attached' = attached /\ attached[r.blob] \subseteq AllRings
      /\ contested' = IF Busy(r.blob) THEN contested \cup {r.blob}
                      ELSE contested \ {r.blob}
  BY DEF PolicyInv, FinalInv, TypeOK, Launch, Request
<1>3. Intends(q)'
  <2>1. Open \in AllRings
    BY DEF AllRings
  <2>2. r.pc = "clear" => r.todo = attached[r.blob] \ r.cut /\ r.cut # {}
    BY <1>2, <2>1 DEF Fresh
  <2>3. QED
    BY <1>2, <2>1, <2>2 DEF Intends, Fresh
<1>4. ASSUME NEW p \in Reqs, p # q PROVE Intends(p)'
  <2>1. req[p] # None /\ req[p].blob = r.blob => Busy(r.blob)
    BY DEF Busy
  <2>2. QED
    BY <1>2, <1>4, <2>1 DEF PolicyInv, Intends
<1>5. QED
  BY <1>1, <1>3, <1>4 DEF PolicyInv

LEMMA FaultKeepsPolicy ==
  ASSUME PolicyInv, (\E q \in Reqs : HandlerFails(q)) \/ Crash
  PROVE  PolicyInv'
<1>1. FinalInv'
  BY FaultKeepsFinal DEF PolicyInv
<1>2. /\ attached' = attached /\ contested' = contested
      /\ \A p \in Reqs : req'[p] = req[p] \/ req'[p] = None
  BY DEF PolicyInv, FinalInv, TypeOK, HandlerFails, Crash, Return
<1>3. QED
  BY <1>1, <1>2 DEF PolicyInv, Intends

\* The abstract state, as Policy maps it.
P == [h \in Blobs |-> attached[h] \cup Pending(h)]

D == [q \in Reqs |->
        IF req[q] = None THEN None
        ELSE [blob |-> req[q].blob, add |-> req[q].add, cut |-> req[q].cut]]

LEMMA Doing ==
  ASSUME TypeOK, NEW q \in Reqs
  PROVE  /\ req[q] = None => D[q] = None
         /\ req[q] # None =>
              /\ D[q] \in Intent /\ D[q] # None
              /\ D[q].blob = req[q].blob /\ D[q].add = req[q].add
              /\ D[q].cut = req[q].cut
<1>1. CASE req[q] = None
  BY <1>1 DEF D
<1>2. CASE req[q] # None
  <2>1. D[q] = [blob |-> req[q].blob, add |-> req[q].add, cut |-> req[q].cut]
    BY <1>2 DEF D
  <2>2. D[q] \in Intent
    BY <1>2, <2>1, BusyRequest DEF Intent
  <2>3. QED
    BY <1>2, <2>1, <2>2, AttachmentsAssumption
<1>3. QED
  BY <1>1, <1>2

LEMMA PolicyType ==
  ASSUME TypeOK
  PROVE  /\ P \in [Blobs -> SUBSET AllRings]
         /\ \A h \in Blobs : P[h] = attached[h] \cup Pending(h)
<1>1. ASSUME NEW h \in Blobs PROVE Pending(h) \subseteq AllRings
  BY BusyRequest DEF Pending, At
<1>2. QED
  BY <1>1 DEF P, TypeOK

LEMMA PolicyTypeNext ==
  ASSUME TypeOK'
  PROVE  P' \in [Blobs -> SUBSET AllRings]
<1>1. ASSUME NEW h \in Blobs PROVE Pending(h)' \subseteq AllRings
  BY DEF Pending, At, TypeOK, Request
<1>2. QED
  BY <1>1 DEF P, TypeOK

\* What is pending for h changes only with its rewriting handlers.
LEMMA PendingKept ==
  ASSUME NEW q \in Reqs, NEW h,
         \A p \in Reqs \ {q} : req'[p] = req[p],
         At(q, "rewrite") => req[q].blob # h,
         At(q, "rewrite")' => req'[q].blob # h
  PROVE  Pending(h)' = Pending(h)
<1>1. \A p \in Reqs : (At(p, "rewrite") /\ req[p].blob = h)
                        <=> (At(p, "rewrite") /\ req[p].blob = h)'
  BY DEF At
<1>2. {p \in Reqs : At(p, "rewrite") /\ req[p].blob = h}
        = {p \in Reqs : (At(p, "rewrite") /\ req[p].blob = h)'}
  BY <1>1
<1>3. \A p \in {p \in Reqs : At(p, "rewrite") /\ req[p].blob = h} :
        req'[p].todo = req[p].todo
  BY DEF At
<1>4. QED
  BY <1>2, <1>3 DEF Pending

\* The steps of AccessPolicy, on the abstract state.
LEMMA BeginMaps ==
  ASSUME NEW q \in Reqs, NEW i \in Intent,
         D[q] = None, D' = [D EXCEPT ![q] = i],
         contested' = IF Busy(i.blob) THEN contested \cup {i.blob}
                      ELSE contested \ {i.blob},
         \A h : Busy(h) <=> \E p \in Reqs : D[p] # None /\ D[p].blob = h,
         P' = P, faults' = faults
  PROVE  Policy!PolicyNext
<1>1. Policy!Intent = Intent
  BY DEF Intent, Policy!Intent
<1>2. Policy!Busy(i.blob) <=> Busy(i.blob)
  BY DEF Policy!Busy, D
<1>3. Policy!Begin(q)
  BY <1>1, <1>2 DEF Policy!Begin, P, D
<1>4. QED
  BY <1>3 DEF Policy!PolicyNext

LEMMA AddMaps ==
  ASSUME NEW q \in Reqs, D[q] # None, NEW r \in D[q].add,
         P' = [P EXCEPT ![D[q].blob] = @ \cup {r}],
         D' = D, contested' = contested, faults' = faults
  PROVE  Policy!PolicyNext
<1>1. Policy!Add(q)
  BY DEF Policy!Add, P, D
<1>2. QED
  BY <1>1 DEF Policy!PolicyNext

LEMMA CutMaps ==
  ASSUME NEW q \in Reqs, D[q] # None, NEW left \in SUBSET AllRings,
         P' = [P EXCEPT ![D[q].blob] = left],
         D[q].blob \notin contested => left = P[D[q].blob] \ D[q].cut,
         D' = D, contested' = contested, faults' = faults
  PROVE  Policy!PolicyNext
<1>1. CASE D[q].blob \in contested
  <2>1. Policy!Cut(q)
    BY <1>1 DEF Policy!Cut, P, D
  <2>2. QED
    BY <2>1 DEF Policy!PolicyNext
<1>2. CASE D[q].blob \notin contested
  <2>1. P' = [P EXCEPT ![D[q].blob] = @ \ D[q].cut]
    BY <1>2
  <2>2. Policy!Cut(q)
    BY <1>2, <2>1 DEF Policy!Cut, P, D
  <2>3. QED
    BY <2>2 DEF Policy!PolicyNext
<1>3. QED
  BY <1>1, <1>2

LEMMA EndMaps ==
  ASSUME NEW q \in Reqs, D[q] # None, D' = [D EXCEPT ![q] = None],
         P' = P, contested' = contested, faults' = faults
  PROVE  Policy!PolicyNext
<1>1. Policy!End(q)
  BY DEF Policy!End, P, D
<1>2. QED
  BY <1>1 DEF Policy!PolicyNext

LEMMA FaultMaps ==
  ASSUME NEW Q \in SUBSET Reqs,
         D' = [q \in Reqs |-> IF q \in Q THEN None ELSE D[q]],
         P' \in [Blobs -> SUBSET AllRings],
         \A h \in Blobs :
           /\ P'[h] \subseteq P[h]
           /\ P'[h] # P[h] => \E q \in Q : /\ D[q] # None
                                           /\ D[q].blob = h
                                           /\ D[q].cut # {},
         faults' = faults + 1, contested' = contested
  PROVE  Policy!PolicyNext
<1>1. Policy!Fault(Q)
  BY DEF Policy!Fault, P, D
<1>2. QED
  BY <1>1 DEF Policy!PolicyNext

LEMMA InitMaps == Init => Policy!PolicyInit
<1> SUFFICES ASSUME Init PROVE Policy!PolicyInit
  OBVIOUS
<1>1. \A h : Pending(h) = {}
  BY DEF Init, Pending, At
<1>2. P = [h \in Blobs |-> {}] /\ D = [q \in Reqs |-> None]
  BY <1>1 DEF Init, P, D
<1>3. QED
  BY <1>2 DEF Init, Policy!PolicyInit, P, D

LEMMA LaunchMaps ==
  ASSUME PolicyInv, TypeOK', NEW q \in Reqs, NEW r \in Request,
         Launch(q, r), Fresh(r)
  PROVE  Policy!PolicyNext
<1> DEFINE i == [blob |-> r.blob, add |-> r.add, cut |-> r.cut]
<1>1. /\ TypeOK /\ r # None /\ i \in Intent
      /\ req[q] = None /\ req'[q] = r
      /\ \A p \in Reqs \ {q} : req'[p] = req[p]
      /\ attached' = attached /\ faults' = faults
      /\ contested' = IF Busy(i.blob) THEN contested \cup {i.blob}
                      ELSE contested \ {i.blob}
  BY AttachmentsAssumption
     DEF PolicyInv, FinalInv, TypeOK, Launch, Request, Intent
<1>2. \A h : Pending(h)' = Pending(h)
  <2>1. ~At(q, "rewrite") /\ ~At(q, "rewrite")'
    BY <1>1 DEF At, Fresh, Request
  <2>2. QED
    BY <1>1, <2>1, PendingKept
<1>3. P' = P
  BY <1>1, <1>2 DEF P
<1>4. D' = [D EXCEPT ![q] = i]
  <2>1. ASSUME NEW p \in Reqs PROVE D'[p] = IF p = q THEN i ELSE D[p]
    BY <1>1 DEF D
  <2>2. QED
    BY <2>1 DEF D
<1>5. \A h : Busy(h) <=> \E p \in Reqs : D[p] # None /\ D[p].blob = h
  BY <1>1, Doing DEF Busy
<1>6. D[q] = None
  BY <1>1, Doing
<1> HIDE DEF i
<1>7. QED
  BY <1>1, <1>3, <1>4, <1>5, <1>6, BeginMaps

\* A step is an addition, a cut, the end of its request, or a stutter.
LEMMA StepMaps ==
  ASSUME PolicyInv, NEW q \in Reqs, Step(q)
  PROVE  \/ Policy!PolicyNext
         \/ P' = P /\ D' = D /\ contested' = contested /\ faults' = faults
<1> PICK h \in Blobs : h = req[q].blob
  BY StepLocal DEF PolicyInv, FinalInv
<1>1. /\ TypeOK /\ TypeOK' /\ req[q] # None /\ h \in Blobs
      /\ req[q].todo \in SUBSET AllRings
      /\ \A p \in Reqs \ {q} : req'[p] = req[p]
      /\ \A g \in Blobs \ {h} : attached'[g] = attached[g]
      /\ req'[q] # None => req'[q].blob = h
      /\ contested' = contested /\ Intends(q)
  BY StepLocal, StepType, BusyRequest DEF PolicyInv, FinalInv
<1>2. faults' = faults
  BY DEF Step, AttachRing, AttachOpen, ReadCurrent, ClearRings, RewriteRing,
         DeleteTags, Finish
<1>3. D[q] # None /\ D[q].blob = h /\ D[q].add = req[q].add /\ D[q].cut = req[q].cut
  BY <1>1, Doing
<1>4. ASSUME NEW todo \in SUBSET AllRings, NEW label \in Labels,
             Advance(q, todo, label)
      PROVE  D' = D /\ req'[q] # None /\ req'[q].todo = todo /\ req'[q].pc = label
  <2>1. /\ req'[q] \in Request /\ req'[q].blob = h
        /\ req'[q].add = req[q].add /\ req'[q].cut = req[q].cut
        /\ req'[q].todo = todo /\ req'[q].pc = label
    BY <1>1, <1>4, AdvanceEffect
  <2>2. req'[q] # None
    BY <2>1, AttachmentsAssumption
  <2>3. QED
    BY <1>1, <2>1, <2>2 DEF D
<1>5. ASSUME Return(q) PROVE D' = [D EXCEPT ![q] = None]
  BY <1>1, <1>5, ReturnEffect DEF D
<1>6. \A g \in Blobs \ {h} : P'[g] = P[g]
  BY <1>1, PendingKept DEF P, At
<1>7. P \in [Blobs -> SUBSET AllRings] /\ P' \in [Blobs -> SUBSET AllRings]
  BY <1>1, PolicyType, PolicyTypeNext
<1>8. P[h] = attached[h] \cup Pending(h) /\ P'[h] = attached'[h] \cup Pending(h)'
  BY <1>1 DEF P
<1>9. ASSUME ~At(q, "rewrite"), ~At(q, "rewrite")' PROVE Pending(h)' = Pending(h)
  BY <1>1, <1>9, PendingKept
<1>10. ASSUME attached' = attached, ~At(q, "rewrite"), ~At(q, "rewrite")'
       PROVE  P' = P
  BY <1>6, <1>7, <1>8, <1>9, <1>10
<1>11. ASSUME NEW r \in req[q].add, AddRingToResource(h, r), D' = D,
              ~At(q, "rewrite"), ~At(q, "rewrite")'
       PROVE  Policy!PolicyNext
  <2>1. attached'[h] = attached[h] \cup {r}
    BY <1>1, <1>11 DEF AddRingToResource, TypeOK
  <2>2. P' = [P EXCEPT ![h] = @ \cup {r}]
    BY <1>1, <1>6, <1>7, <1>8, <1>9, <1>11, <2>1
  <2>3. QED
    BY <1>1, <1>2, <1>3, <1>11, <2>2, AddMaps
<1>12. CASE AttachRing(q)
  <2>1. PICK r \in req[q].todo :
          /\ AddRingToResource(h, r)
          /\ Advance(q, req[q].todo \ {r}, IF req[q].todo # {r} THEN "attach"
                                           ELSE IF req[q].open THEN "open"
                                           ELSE "done")
    BY <1>12 DEF AttachRing
  <2>2. r \in req[q].add /\ req[q].pc = "attach"
    BY <1>1, <1>12 DEF AttachRing, At, Intends
  <2>3. D' = D /\ req'[q].pc # "rewrite"
    BY <1>1, <1>4, <2>1 DEF Labels
  <2>4. QED
    BY <1>11, <2>1, <2>2, <2>3 DEF At
<1>13. CASE AttachOpen(q)
  <2>1. Open \in req[q].add /\ req[q].pc = "open"
    BY <1>1, <1>13 DEF AttachOpen, At, Intends
  <2>2. D' = D /\ req'[q].pc # "rewrite"
    BY <1>4, <1>13 DEF AttachOpen, Labels
  <2>3. QED
    BY <1>11, <1>13, <2>1, <2>2 DEF AttachOpen, At
<1>14. ASSUME attached' = attached, Return(q), ~At(q, "rewrite")
       PROVE  Policy!PolicyNext
  <2>1. ~At(q, "rewrite")'
    BY <1>1, <1>14, ReturnEffect DEF At
  <2>2. QED
    BY <1>1, <1>2, <1>3, <1>5, <1>10, <1>14, <2>1, EndMaps
<1>15. CASE ReadCurrent(q)
  <2>1. attached' = attached /\ ~At(q, "rewrite")
    BY <1>15 DEF ReadCurrent, At
  <2>2. ASSUME Advance(q, attached[h] \ req[q].cut, "clear")
        PROVE  P' = P /\ D' = D
    <3>1. attached[h] \ req[q].cut \in SUBSET AllRings
      BY <1>1 DEF TypeOK
    <3>2. D' = D /\ req'[q].pc = "clear"
      BY <1>4, <2>2, <3>1 DEF Labels
    <3>3. QED
      BY <1>10, <2>1, <3>2 DEF At
  <2>3. QED
    BY <1>1, <1>2, <1>14, <1>15, <2>1, <2>2 DEF ReadCurrent
<1>16. CASE ClearRings(q)
  <2>1. /\ attached'[h] = {}
        /\ ~At(q, "rewrite") /\ req[q].pc = "clear"
    BY <1>1, <1>16 DEF ClearRings, RemoveRingFromResource, TypeOK, At
  <2>2. /\ D' = D /\ req'[q] # None /\ req'[q].todo = req[q].todo
        /\ req'[q].pc = IF req[q].op = "remove" THEN "delete"
                        ELSE IF req[q].todo = {} THEN "done" ELSE "rewrite"
    BY <1>1, <1>4, <1>16 DEF ClearRings, Labels
  <2>3. ASSUME h \notin contested PROVE P'[h] = P[h] \ req[q].cut
    <3>1. req[q].todo = attached[h] \ req[q].cut
      BY <1>1, <2>1, <2>3 DEF Intends
    <3>2. \A p \in Reqs : Works(p, h) => p = q
      BY <1>1, <2>3 DEF PolicyInv, FinalInv, Lone, Works
    <3>3. Pending(h) = {}
      BY <2>1, <3>2 DEF Pending, At, Works
    <3>4. req[q].op = "remove" => req[q].todo = {}
      BY <1>1, <3>1 DEF Intends, TypeOK
    <3>5. Pending(h)' = req[q].todo
      <4>1. CASE req'[q].pc = "rewrite"
        <5>1. \A p \in Reqs : (At(p, "rewrite") /\ req[p].blob = h)' <=> p = q
          BY <1>1, <2>2, <3>2, <4>1 DEF At, Works
        <5>2. QED
          BY <2>2, <5>1 DEF Pending
      <4>2. CASE req'[q].pc # "rewrite"
        <5>1. req[q].todo = {}
          BY <2>2, <3>4, <4>2
        <5>2. QED
          BY <1>9, <2>1, <3>3, <4>2, <5>1 DEF At
      <4>3. QED
        BY <4>1, <4>2
    <3>6. QED
      BY <1>8, <2>1, <3>1, <3>3, <3>5
  <2>4. P' = [P EXCEPT ![h] = P'[h]]
    BY <1>1, <1>6, <1>7
  <2>5. P'[h] \in SUBSET AllRings
    BY <1>1, <1>7
  <2>6. QED
    BY <1>1, <1>2, <1>3, <2>2, <2>3, <2>4, <2>5, CutMaps
<1>17. CASE RewriteRing(q)
  <2>1. PICK r \in req[q].todo :
          /\ AddRingToResource(h, r)
          /\ Advance(q, req[q].todo \ {r},
                     IF req[q].todo = {r} THEN "done" ELSE "rewrite")
    BY <1>17 DEF RewriteRing
  <2>2. /\ attached'[h] = attached[h] \cup {r}
        /\ At(q, "rewrite")
    BY <1>1, <1>17, <2>1 DEF AddRingToResource, TypeOK, RewriteRing
  <2>3. /\ D' = D /\ req'[q] # None /\ req'[q].todo = req[q].todo \ {r}
        /\ req'[q].pc = IF req[q].todo = {r} THEN "done" ELSE "rewrite"
    BY <1>1, <1>4, <2>1 DEF Labels
  <2>4. req[q].todo \subseteq Pending(h)
    BY <2>2 DEF Pending
  <2>5. ASSUME NEW x PROVE x \in Pending(h)' \cup {r} <=> x \in Pending(h)
    <3>1. ASSUME x \in Pending(h)' PROVE x \in Pending(h)
      <4>1. PICK p \in Reqs : /\ (At(p, "rewrite") /\ req[p].blob = h)'
                              /\ x \in req'[p].todo
        BY <3>1 DEF Pending
      <4>2. QED
        BY <1>1, <2>3, <2>4, <4>1 DEF Pending, At
    <3>2. ASSUME x \in Pending(h), x # r PROVE x \in Pending(h)'
      <4>1. PICK p \in Reqs : At(p, "rewrite") /\ req[p].blob = h /\ x \in req[p].todo
        BY <3>2 DEF Pending
      <4>2. (At(p, "rewrite") /\ req[p].blob = h)' /\ x \in req'[p].todo
        BY <1>1, <2>3, <3>2, <4>1 DEF At
      <4>3. QED
        BY <4>2 DEF Pending
    <3>3. QED
      BY <2>4, <3>1, <3>2
  <2>6. P'[h] = P[h]
    BY <1>8, <2>2, <2>5
  <2>7. P' = P
    BY <1>6, <1>7, <2>6
  <2>8. QED
    BY <1>1, <1>2, <2>3, <2>7
<1>18. CASE DeleteTags(q)
  <2>1. attached' = attached /\ ~At(q, "rewrite")
    BY <1>18 DEF DeleteTags, At
  <2>2. ASSUME Advance(q, {}, "done") PROVE P' = P /\ D' = D
    <3>1. D' = D /\ req'[q].pc = "done"
      BY <1>4, <2>2 DEF Labels
    <3>2. QED
      BY <1>10, <2>1, <3>1 DEF At
  <2>3. QED
    BY <1>1, <1>2, <1>14, <1>18, <2>1, <2>2 DEF DeleteTags
<1>19. CASE Finish(q)
  <2>1. attached' = attached /\ ~At(q, "rewrite") /\ Return(q)
    BY <1>19 DEF Finish, At
  <2>2. QED
    BY <1>14, <2>1
<1>20. QED
  BY <1>12, <1>13, <1>15, <1>16, <1>17, <1>18, <1>19 DEF Step

\* A fault loses what its handlers had still to write back.
LEMMA FaultsMap ==
  ASSUME PolicyInv, (\E q \in Reqs : HandlerFails(q)) \/ Crash
  PROVE  Policy!PolicyNext
<1>1. PICK Q \in SUBSET Reqs :
        /\ \A p \in Reqs : req'[p] = IF p \in Q THEN None ELSE req[p]
        /\ attached' = attached /\ contested' = contested /\ faults' = faults + 1
  <2>1. ASSUME NEW q \in Reqs, HandlerFails(q)
        PROVE  /\ \A p \in Reqs : req'[p] = IF p \in {q} THEN None ELSE req[p]
               /\ attached' = attached /\ contested' = contested
               /\ faults' = faults + 1
    BY <2>1 DEF HandlerFails, Return, PolicyInv, FinalInv, TypeOK
  <2>2. CASE Crash
    BY <2>2 DEF Crash
  <2>3. QED
    BY <2>1, <2>2
<1>2. TypeOK /\ TypeOK'
  BY FaultType DEF PolicyInv, FinalInv
<1>3. D' = [q \in Reqs |-> IF q \in Q THEN None ELSE D[q]]
  BY <1>1 DEF D
<1>4. P' \in [Blobs -> SUBSET AllRings]
  BY <1>2, PolicyTypeNext
<1>5. ASSUME NEW h \in Blobs
      PROVE  /\ P'[h] \subseteq P[h]
             /\ P'[h] # P[h] => \E q \in Q : /\ D[q] # None
                                             /\ D[q].blob = h
                                             /\ D[q].cut # {}
  <2>1. P[h] = attached[h] \cup Pending(h) /\ P'[h] = attached[h] \cup Pending(h)'
    BY <1>1 DEF P
  <2>2. Pending(h)' \subseteq Pending(h)
    BY <1>1 DEF Pending, At
  <2>3. ASSUME NEW x \in Pending(h), x \notin Pending(h)'
        PROVE  \E q \in Q : D[q] # None /\ D[q].blob = h /\ D[q].cut # {}
    <3>1. PICK p \in Reqs : At(p, "rewrite") /\ req[p].blob = h /\ x \in req[p].todo
      BY <2>3 DEF Pending
    <3>2. p \in Q
      BY <1>1, <2>3, <3>1 DEF Pending, At
    <3>3. req[p] # None /\ req[p].cut # {}
      BY <3>1 DEF PolicyInv, Intends, At
    <3>4. QED
      BY <1>2, <3>1, <3>2, <3>3, Doing
  <2>4. QED
    BY <2>1, <2>2, <2>3
<1>6. QED
  BY <1>1, <1>3, <1>4, <1>5, FaultMaps

LEMMA InitPolicy == Init => PolicyInv
BY DEF Init, PolicyInv, FinalInv, TypeOK, Lone, Works, DetachFinal, Purged,
       WritesBack, Removes, Intends
LEMMA NextPolicy ==
  PolicyInv /\ [Next]_vars => PolicyInv' /\ [Policy!PolicyNext]_(Policy!policyVars)
<1> SUFFICES ASSUME PolicyInv, [Next]_vars
             PROVE  PolicyInv' /\ [Policy!PolicyNext]_(Policy!policyVars)
  OBVIOUS
<1>1. ASSUME P' = P, D' = D, contested' = contested, faults' = faults
      PROVE  UNCHANGED Policy!policyVars
  BY <1>1 DEF Policy!policyVars, P, D
<1>2. ASSUME NEW q \in Reqs, Arrives(q) PROVE PolicyInv' /\ Policy!PolicyNext
  <2>1. TypeOK'
    BY <1>2, ArrivesType DEF PolicyInv, FinalInv
  <2>2. PICK r \in Request : Launch(q, r) /\ Fresh(r)
    BY <1>2, ArrivesShape DEF PolicyInv, FinalInv
  <2>3. QED
    BY <2>1, <2>2, LaunchKeepsPolicy, LaunchMaps
<1>3. ASSUME NEW q \in Reqs, Step(q)
      PROVE  PolicyInv' /\ [Policy!PolicyNext]_(Policy!policyVars)
  BY <1>1, <1>3, StepKeepsPolicy, StepMaps
<1>4. CASE (\E q \in Reqs : HandlerFails(q)) \/ Crash
  BY <1>4, FaultKeepsPolicy, FaultsMap
<1>5. CASE UNCHANGED vars
  <2>1. PolicyInv'
    BY <1>5 DEF vars, PolicyInv, FinalInv, TypeOK, Lone, Works, DetachFinal,
                Purged, WritesBack, Removes, Intends
  <2>2. P' = P /\ D' = D /\ contested' = contested /\ faults' = faults
    BY <1>5 DEF vars, P, D, Pending, At
  <2>3. QED
    BY <1>1, <2>1, <2>2
<1>6. QED
  BY <1>2, <1>3, <1>4, <1>5 DEF Next

\* The handlers of handle_attach, handle_detach and handle_blob_remove implement
\* AccessPolicy: additions take effect ring by ring, a cut takes effect at one
\* instant on a blob nobody else works on, a fault never adds an association.
THEOREM PolicyHolds == Spec => PolicyRefined
<1>1. QED
  BY InitPolicy, NextPolicy, InitMaps, PTL DEF Spec, PolicyRefined, Policy!PolicySpec

-----------------------------------------------------------------------------
(* What the races can do, and no more. *)

\* An association that nobody wants any more comes back in one way alone: a
\* detach writes it back, on a blob whose requests overlap.
RaceExplained ==
  \A h \in Blobs :
    attached[h] \subseteq wanted[h] /\ ~(attached'[h] \subseteq wanted'[h]) =>
      /\ h \in contested
      /\ \E q \in Reqs :
           /\ At(q, "rewrite") /\ req[q].blob = h /\ req[q].op = "detach"
           /\ attached'[h] \ wanted'[h] \subseteq req[q].todo

RacesExplained == [][RaceExplained]_vars

LEMMA OnlyRewritesRace ==
  ASSUME PolicyInv, [Next]_vars, NEW h \in Blobs,
         attached[h] \subseteq wanted[h], ~(attached'[h] \subseteq wanted'[h])
  PROVE  /\ contested' = contested
         /\ \E q \in Reqs :
              /\ At(q, "rewrite") /\ req[q].blob = h
              /\ attached'[h] \ wanted'[h] \subseteq req[q].todo
<1> USE DEF PolicyInv, FinalInv
<1>1. ASSUME NEW q \in Reqs, Arrives(q) PROVE FALSE
  <2>1. PICK r \in Request : Launch(q, r)
    BY <1>1, ArrivesShape
  <2>2. attached' = attached /\ r.blob \in Blobs
    BY <2>1 DEF Launch, Request
  <2>3. wanted'[h] = wanted[h] \/ wanted'[h] = attached[h]
    BY <2>1, <2>2 DEF Launch, TypeOK
  <2>4. QED
    BY <2>2, <2>3
<1>2. PICK q \in Reqs : Step(q)
  BY <1>1 DEF Next, HandlerFails, Crash, vars
<1>3. req[q].blob = h /\ contested' = contested /\ TypeOK /\ req[q] # None
  BY <1>2, StepLocal
<1>4. ~(AttachRing(q) \/ AttachOpen(q))
  <2> SUFFICES ASSUME AttachRing(q) \/ AttachOpen(q) PROVE FALSE
    OBVIOUS
  <2>1. PICK r : /\ attached' = [attached EXCEPT ![h] = @ \cup {r}]
                 /\ wanted' = [wanted EXCEPT ![h] = @ \cup {r}]
    BY <1>3 DEF AttachRing, AttachOpen, AddRingToResource
  <2>2. /\ attached'[h] = attached[h] \cup {r}
        /\ wanted'[h] = wanted[h] \cup {r}
    BY <1>3, <2>1 DEF TypeOK
  <2>3. QED
    BY <2>2
<1>5. ~(ReadCurrent(q) \/ ClearRings(q) \/ DeleteTags(q) \/ Finish(q))
  BY <1>3 DEF ReadCurrent, ClearRings, DeleteTags, Finish, RemoveRingFromResource, TypeOK
<1>6. RewriteRing(q)
  BY <1>2, <1>4, <1>5 DEF Step
<1>7. PICK r \in req[q].todo : AddRingToResource(h, r)
  BY <1>3, <1>6 DEF RewriteRing
<1>8. attached'[h] = attached[h] \cup {r} /\ wanted' = wanted
  BY <1>6, <1>7 DEF RewriteRing, AddRingToResource, TypeOK
<1>9. attached'[h] \ wanted'[h] \subseteq req[q].todo
  BY <1>7, <1>8
<1>10. QED
  BY <1>3, <1>6, <1>9 DEF RewriteRing

\* The race that the run on FailClosed shows is the only one: what comes back
\* after it was cut is a ring that a detach had read before, on a blob with
\* overlapping requests (handle_detach).
THEOREM RacesAreExplained == Spec => RacesExplained
<1>1. ASSUME PolicyInv, PolicyInv', [Next]_vars PROVE [RaceExplained]_vars
  <2> SUFFICES ASSUME NEW h \in Blobs, attached[h] \subseteq wanted[h],
                      ~(attached'[h] \subseteq wanted'[h])
               PROVE  /\ h \in contested
                      /\ \E q \in Reqs :
                           /\ At(q, "rewrite") /\ req[q].blob = h /\ req[q].op = "detach"
                           /\ attached'[h] \ wanted'[h] \subseteq req[q].todo
    BY DEF RaceExplained
  <2>1. contested' = contested /\ \E q \in Reqs :
          /\ At(q, "rewrite") /\ req[q].blob = h
          /\ attached'[h] \ wanted'[h] \subseteq req[q].todo
    BY <1>1, OnlyRewritesRace
  <2>2. h \in contested
    BY <1>1, <2>1 DEF PolicyInv, FinalInv, DetachFinal
  <2>3. ASSUME NEW q \in Reqs, At(q, "rewrite") PROVE req[q].op = "detach"
    BY <1>1, <2>3 DEF PolicyInv, FinalInv, TypeOK, Request, Intends, Removes, At
  <2>4. QED
    BY <2>1, <2>2, <2>3
<1>2. QED
  BY <1>1, InitPolicy, NextPolicy, PTL DEF Spec, RacesExplained
=============================================================================
