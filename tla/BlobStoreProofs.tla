-------------------------- MODULE BlobStoreProofs --------------------------
(***************************************************************************)
(* Proofs about BlobStore: an import that was answered is kept, for any    *)
(* number of requests, blobs and names and any faults; and how a directory *)
(* can lose a file.                                                        *)
(***************************************************************************)
EXTENDS BlobStore, TLAPS

\* From the moment its blob is added to the moment its tag is set, an import
\* holds a temporary tag.
Held ==
  \A q \in Slots :
    At(q, "tag") => /\ op[q].blob \in complete
                    /\ op[q].blob \in temp[q]

\* A request knows its blob, and an import its name.
Aimed ==
  \A q \in Slots :
    /\ op[q].pc # "idle" => op[q].blob \in Blobs
    /\ op[q].pc \in {"add", "member", "tag"} => op[q].name \in Names

\* What a remove has still to delete was given up when it listed the tags.
GivenUp ==
  \A q \in Slots : \A n \in Names \ raced :
    At(q, "delete") /\ n \in op[q].names => pins[n] = None

\* What a remove has not listed of the tags on its blob was set meanwhile.
Unlisted ==
  \A q \in Slots : \A n \in Names \ raced :
    At(q, "delete") /\ tags[n] = op[q].blob => n \in op[q].names

\* Promised pins are there.
Pinned == \A n \in Names \ raced : pins[n] # None => tags[n] = pins[n]

\* The inductive invariant. Kept follows from Pinned and NoDangling,
\* RemoveComplete from Unlisted.
Inv ==
  /\ TypeOK
  /\ NoDangling
  /\ Held
  /\ Aimed
  /\ GivenUp
  /\ Unlisted
  /\ Pinned

LEMMA IdleType == Idle \in Request /\ Idle.pc = "idle"
  BY DEF Idle, Request

LEMMA InitInv == Init => Inv
<1> SUFFICES ASSUME Init PROVE Inv
  OBVIOUS
<1>1. TypeOK
  BY IdleType DEF Init, TypeOK
<1>2. NoDangling /\ Pinned
  BY DEF Init, NoDangling, Pinned
<1>3. Held /\ Aimed /\ GivenUp /\ Unlisted
  BY IdleType DEF Init, Held, Aimed, GivenUp, Unlisted, At
<1>4. QED
  BY <1>1, <1>2, <1>3 DEF Inv

(***************************************************************************)
(* A request that only moves on: the store, the tags and the pins stay.    *)
(***************************************************************************)
LEMMA ArriveInv ==
  ASSUME Inv, NEW q \in Slots, Arrives(q)
  PROVE  Inv'
<1>1. PICK r \in Request :
        /\ op' = [op EXCEPT ![q] = r]
        /\ r.blob \in Blobs
        /\ r.pc \in {"add", "member"} => r.name \in Names
        /\ r.pc \in {"add", "member", "list"}
  <2>1. CASE \E b \in Blobs, n \in Names, remove \in BOOLEAN : ImportPath(q, b, n, remove)
    <3> PICK b \in Blobs, n \in Names, remove \in BOOLEAN : ImportPath(q, b, n, remove)
      BY <2>1
    <3>1. b \notin Files => Members[b] \in SUBSET Files
      BY BlobStoreAssumption DEF Blobs
    <3> DEFINE r == [Idle EXCEPT !.blob = b, !.name = n, !.remove = remove,
                                 !.pc = IF b \in Files THEN "add" ELSE "member",
                                 !.todo = IF b \in Files THEN {} ELSE Members[b]]
    <3>2. r \in Request
      BY <3>1 DEF Idle, Request
    <3>3. r.blob = b /\ r.name = n /\ r.pc \in {"add", "member"}
      BY DEF Idle
    <3>4. op' = [op EXCEPT ![q] = r]
      BY DEF ImportPath
    <3>5. QED
      BY <3>2, <3>3, <3>4
  <2>2. CASE \E b \in Blobs : BlobRemove(q, b)
    <3> PICK b \in Blobs : BlobRemove(q, b)
      BY <2>2
    <3> DEFINE r == [Idle EXCEPT !.blob = b, !.remove = TRUE, !.pc = "list"]
    <3>1. r \in Request /\ r.blob = b /\ r.pc = "list"
      BY DEF Idle, Request
    <3>2. op' = [op EXCEPT ![q] = r]
      BY DEF BlobRemove
    <3>3. QED
      BY <3>1, <3>2
  <2>3. QED
    BY <2>1, <2>2 DEF Arrives
<1>2. UNCHANGED <<store, saved, temp, faults, pins, raced>>
  BY DEF Arrives, ImportPath, BlobRemove
<1>3. TypeOK'
  BY <1>1, <1>2 DEF Inv, TypeOK, store
<1>4. NoDangling' /\ Pinned'
  BY <1>2 DEF Inv, NoDangling, Pinned, store
<1>5. \A p \in Slots : op'[p] = IF p = q THEN r ELSE op[p]
  BY <1>1 DEF Inv, TypeOK
<1>6. Held' /\ Aimed' /\ GivenUp' /\ Unlisted'
  BY <1>1, <1>2, <1>5 DEF Inv, Held, Aimed, GivenUp, Unlisted, At, store
<1>7. QED
  BY <1>3, <1>4, <1>6 DEF Inv

LEMMA AddInv ==
  ASSUME Inv, NEW q \in Slots, AddPath(q) \/ StoreCollection(q) \/ AddMember(q)
  PROVE  Inv'
<1> USE DEF Inv, At
<1>1. /\ UNCHANGED <<tags, saved, faults, pins, raced>>
      /\ complete \subseteq complete'
  BY DEF AddPath, StoreCollection, AddMember
<1>2. NoDangling' /\ Pinned'
  BY <1>1 DEF NoDangling, Pinned
<1>3. CASE AddPath(q) \/ StoreCollection(q)
  <2> DEFINE r == [op[q] EXCEPT !.pc = "tag"]
  <2>1. /\ op[q].pc \in {"add", "member"}
        /\ op' = [op EXCEPT ![q] = r]
        /\ temp' = [temp EXCEPT ![q] = {op[q].blob}]
        /\ complete' = complete \cup {op[q].blob}
    BY <1>3 DEF AddPath, StoreCollection
  <2>2. op[q].blob \in Blobs /\ op[q].name \in Names
    BY <2>1 DEF Aimed
  <2>3. op[q] \in Request
    BY DEF TypeOK
  <2>4. r \in Request /\ r.pc = "tag" /\ r.blob = op[q].blob /\ r.name = op[q].name
    BY <2>3 DEF Request
  <2> HIDE DEF r
  <2>5. \A p \in Slots : op'[p] = IF p = q THEN r ELSE op[p]
    BY <2>1 DEF TypeOK
  <2>6. TypeOK'
    BY <1>1, <2>1, <2>2, <2>4 DEF TypeOK
  <2>7. Held' /\ Aimed'
    BY <1>1, <2>1, <2>2, <2>4, <2>5 DEF TypeOK, Held, Aimed
  <2>8. GivenUp' /\ Unlisted'
    BY <1>1, <2>4, <2>5 DEF GivenUp, Unlisted
  <2>9. QED
    BY <1>2, <2>6, <2>7, <2>8
<1>4. CASE AddMember(q)
  <2>1. PICK f \in op[q].todo : /\ complete' = complete \cup {f}
                                /\ op' = [op EXCEPT ![q].todo = @ \ {f}]
    BY <1>4 DEF AddMember
  <2> DEFINE r == [op[q] EXCEPT !.todo = @ \ {f}]
  <2>2. /\ temp' = temp
        /\ op[q].pc = "member"
        /\ op' = [op EXCEPT ![q] = r]
    BY <1>4, <2>1 DEF AddMember
  <2>3. op[q] \in Request
    BY DEF TypeOK
  <2>4. /\ r \in Request
        /\ r.pc = op[q].pc /\ r.blob = op[q].blob /\ r.name = op[q].name
        /\ f \in Blobs
    BY <2>3 DEF Request, Blobs
  <2> HIDE DEF r
  <2>5. \A p \in Slots : op'[p] = IF p = q THEN r ELSE op[p]
    BY <2>2 DEF TypeOK
  <2>6. TypeOK'
    BY <1>1, <2>1, <2>2, <2>4 DEF TypeOK
  <2>7. Held' /\ Aimed'
    BY <1>1, <2>2, <2>4, <2>5 DEF Held, Aimed
  <2>8. GivenUp' /\ Unlisted'
    BY <1>1, <2>2, <2>4, <2>5 DEF GivenUp, Unlisted
  <2>9. QED
    BY <1>2, <2>6, <2>7, <2>8
<1>5. QED
  BY <1>3, <1>4

LEMMA SetTagInv ==
  ASSUME Inv, NEW q \in Slots, SetTag(q)
  PROVE  Inv'
<1> USE DEF Inv, At
<1> DEFINE n == op[q].name
           b == op[q].blob
<1>1. /\ n \in Names /\ b \in Blobs /\ b \in complete /\ b # None
  BY BlobStoreAssumption DEF SetTag, Aimed, Held
<1>2. /\ tags' = [tags EXCEPT ![n] = b]
      /\ pins' = [pins EXCEPT ![n] = b]
      /\ raced' = IF Deleting(n, b) THEN raced \cup {n} ELSE raced \ {n}
      /\ temp' = [temp EXCEPT ![q] = {}]
      /\ UNCHANGED <<complete, saved, faults>>
  BY DEF SetTag, Return
<1>3. PICK r \in Request : /\ op' = [op EXCEPT ![q] = r]
                           /\ r.pc = "idle" \/ (r.pc = "list" /\ r.blob = b)
  <2>1. CASE op[q].remove
    <3>1. [op[q] EXCEPT !.pc = "list"] \in Request
      BY DEF TypeOK, Request
    <3>2. op' = [op EXCEPT ![q] = [op[q] EXCEPT !.pc = "list"]]
      BY <2>1 DEF SetTag
    <3>3. [op[q] EXCEPT !.pc = "list"].pc = "list" /\ [op[q] EXCEPT !.pc = "list"].blob = b
      BY DEF TypeOK, Request
    <3>4. QED
      BY <3>1, <3>2, <3>3
  <2>2. CASE ~op[q].remove
    BY <2>2, IdleType DEF SetTag, Return
  <2>3. QED
    BY <2>1, <2>2
<1>4. TypeOK'
  BY <1>1, <1>2, <1>3 DEF TypeOK
<1>5. NoDangling' /\ Pinned'
  BY <1>1, <1>2 DEF TypeOK, NoDangling, Pinned
<1>6. Held' /\ Aimed'
  BY <1>1, <1>2, <1>3 DEF TypeOK, Held, Aimed
<1>7. GivenUp'
  <2> SUFFICES ASSUME NEW p \in Slots, NEW m \in Names, m \notin raced',
                      op'[p].pc = "delete", m \in op'[p].names
               PROVE  pins'[m] = None
    BY DEF GivenUp
  <2>1. p # q /\ op'[p] = op[p]
    BY <1>3 DEF TypeOK
  <2>2. m # n
    BY <1>2, <2>1 DEF Deleting
  <2>3. m \notin raced
    BY <1>2, <2>2
  <2>4. QED
    BY <1>1, <1>2, <2>1, <2>2, <2>3 DEF TypeOK, GivenUp
<1>8. Unlisted'
  <2> SUFFICES ASSUME NEW p \in Slots, NEW m \in Names, m \notin raced',
                      op'[p].pc = "delete", tags'[m] = op'[p].blob
               PROVE  m \in op'[p].names
    BY DEF Unlisted
  <2>1. p # q /\ op'[p] = op[p]
    BY <1>3 DEF TypeOK
  <2>2. m # n
    <3>1. SUFFICES ASSUME m = n PROVE FALSE
      OBVIOUS
    <3>2. op[p].blob = b
      BY <1>1, <1>2, <2>1, <3>1 DEF TypeOK
    <3>3. QED
      BY <1>2, <2>1, <3>1, <3>2 DEF Deleting
  <2>3. m \notin raced /\ tags'[m] = tags[m]
    BY <1>1, <1>2, <2>2 DEF TypeOK
  <2>4. QED
    BY <2>1, <2>3 DEF Unlisted
<1>9. QED
  BY <1>4, <1>5, <1>6, <1>7, <1>8

LEMMA RemoveInv ==
  ASSUME Inv, NEW q \in Slots, ListTags(q) \/ DeleteTag(q)
  PROVE  Inv'
<1> USE DEF Inv, At
<1>1. CASE ListTags(q)
  <2> DEFINE found == Tagged(op[q].blob)
  <2>1. /\ found \in SUBSET Names
        /\ op[q].blob \in Blobs
    BY <1>1 DEF ListTags, Tagged, Aimed
  <2>2. /\ UNCHANGED <<complete, tags, saved, faults, raced>>
        /\ pins' = [m \in Names |-> IF m \in found THEN None ELSE pins[m]]
    BY <1>1 DEF ListTags, store
  <2>3. PICK r \in Request : /\ op' = [op EXCEPT ![q] = r]
                             /\ \/ r.pc = "idle"
                                \/ r.pc = "delete" /\ r.blob = op[q].blob /\ r.names = found
    <3>1. CASE found = {}
      BY <1>1, <3>1, IdleType DEF ListTags, Return
    <3>2. CASE found # {}
      <4> DEFINE r == [op[q] EXCEPT !.pc = "delete", !.names = found]
      <4>1. op' = [op EXCEPT ![q] = r] /\ op[q] \in Request
        BY <1>1, <3>2 DEF ListTags, TypeOK
      <4> HIDE DEF found
      <4>2. r \in Request /\ r.pc = "delete" /\ r.blob = op[q].blob /\ r.names = found
        BY <2>1, <4>1 DEF Request
      <4>3. QED
        BY <2>1, <4>1, <4>2
    <3>3. QED
      BY <3>1, <3>2
  <2>4. temp' \in [Slots -> SUBSET Blobs] /\ \A p \in Slots \ {q} : temp'[p] = temp[p]
    BY <1>1 DEF ListTags, Return, TypeOK
  <2>5. TypeOK'
    BY <2>2, <2>3, <2>4 DEF TypeOK
  <2>6. \A p \in Slots : op'[p] = IF p = q THEN r ELSE op[p]
    BY <2>3 DEF TypeOK
  <2>7. NoDangling' /\ Pinned'
    BY <2>2 DEF NoDangling, Pinned
  <2>8. Held' /\ Aimed' /\ GivenUp'
    BY <2>1, <2>2, <2>3, <2>4, <2>6 DEF Held, Aimed, GivenUp
  <2>9. Unlisted'
    BY <2>2, <2>3, <2>6 DEF Unlisted, Tagged
  <2>10. QED
    BY <2>5, <2>7, <2>8, <2>9
<1>2. CASE DeleteTag(q)
  <2>1. PICK n \in op[q].names : /\ tags' = [tags EXCEPT ![n] = None]
                                 /\ op' = [op EXCEPT ![q].names = @ \ {n}]
    BY <1>2 DEF DeleteTag
  <2>2. n \in Names /\ op[q].pc = "delete"
    BY <1>2 DEF DeleteTag, TypeOK, Request
  <2>3. UNCHANGED <<complete, saved, temp, faults, pins, raced>>
    BY <1>2 DEF DeleteTag
  <2>4. n \notin raced => pins[n] = None
    BY <2>1, <2>2 DEF GivenUp
  <2> DEFINE r == [op[q] EXCEPT !.names = @ \ {n}]
  <2>5. /\ op[q] \in Request
        /\ \A p \in Slots : op'[p] = IF p = q THEN r ELSE op[p]
        /\ op' = [op EXCEPT ![q] = r]
    BY <2>1 DEF TypeOK
  <2>6. /\ r \in Request
        /\ r.pc = "delete" /\ r.blob = op[q].blob /\ r.names = op[q].names \ {n}
    BY <2>2, <2>5 DEF Request
  <2> HIDE DEF r
  <2>7. TypeOK'
    BY <2>1, <2>2, <2>3, <2>5, <2>6 DEF TypeOK
  <2>8. NoDangling' /\ Pinned'
    BY <2>1, <2>2, <2>3, <2>4 DEF TypeOK, NoDangling, Pinned
  <2>9. Held' /\ Aimed' /\ GivenUp'
    BY <2>2, <2>3, <2>5, <2>6 DEF Held, Aimed, GivenUp
  <2>10. Unlisted'
    <3>1. \A m \in Names : tags'[m] = IF m = n THEN None ELSE tags[m]
      BY <2>1 DEF TypeOK
    <3>2. \A p \in Slots : op[p].pc = "delete" => op[p].blob # None
      BY BlobStoreAssumption DEF Aimed
    <3>3. QED
      BY <2>2, <2>3, <2>5, <2>6, <3>1, <3>2 DEF Unlisted
  <2>11. QED
    BY <2>7, <2>8, <2>9, <2>10
<1>3. QED
  BY <1>1, <1>2

\* A request that ends leaves the store, the tags and the pins.
LEMMA EndInv ==
  ASSUME Inv, NEW q \in Slots, Removed(q) \/ HandlerFails(q)
  PROVE  Inv'
<1>1. /\ UNCHANGED <<complete, tags, saved, pins, raced>>
      /\ op' = [op EXCEPT ![q] = Idle]
      /\ temp' = [temp EXCEPT ![q] = {}]
      /\ faults' \in Nat
  BY DEF Inv, TypeOK, Removed, HandlerFails, Return, store
<1>2. QED
  BY <1>1, IdleType
     DEF Inv, TypeOK, NoDangling, Pinned, Held, Aimed, GivenUp, Unlisted, At

\* The collector takes nothing that a tag protects, temporary or not.
LEMMA CollectInv ==
  ASSUME Inv, NEW b \in Blobs, Collect(b)
  PROVE  Inv'
<1>1. /\ complete' = complete \ {b}
      /\ UNCHANGED <<tags, saved, temp, op, faults, pins, raced>>
  BY DEF Collect
<1>2. /\ \A n \in Names : tags[n] # None => tags[n] # b
      /\ \A q \in Slots : b \notin temp[q]
  BY BlobStoreAssumption DEF Collect, Protected
<1>3. QED
  BY <1>1, <1>2
     DEF Inv, TypeOK, NoDangling, Pinned, Held, Aimed, GivenUp, Unlisted, At

LEMMA RestartInv ==
  ASSUME Inv, Commit \/ Kill \/ Shutdown
  PROVE  Inv'
<1> USE DEF Inv
<1>1. CASE Commit
  BY <1>1 DEF Commit, store, TypeOK, NoDangling, Pinned, Held, Aimed, GivenUp, Unlisted, At
<1>2. CASE Kill \/ Shutdown
  <2>1. /\ saved' \in [complete : SUBSET Blobs, tags : [Names -> Blobs \cup {None}]]
        /\ \A n \in Names : saved'.tags[n] # None => saved'.tags[n] \in saved'.complete
    BY <1>2 DEF Kill, Shutdown, TypeOK, NoDangling
  <2>2. /\ complete' = saved'.complete
        /\ tags' = saved'.tags
        /\ op' = [q \in Slots |-> Idle]
        /\ temp' = [q \in Slots |-> {}]
        /\ raced' = raced
        /\ faults' \in Nat
    BY <1>2 DEF Kill, Shutdown, Restart, TypeOK
  <2>3. pins' \in [Names -> Blobs \cup {None}]
    BY <1>2 DEF Kill, Shutdown, TypeOK
  <2>4. Pinned'
    <3>1. CASE Kill
      <4>1. /\ pins' = [n \in Names |-> IF saved.tags[n] = pins[n] THEN pins[n] ELSE None]
            /\ tags' = saved.tags
        BY <2>2, <3>1 DEF Kill
      <4>2. QED
        BY <4>1 DEF Pinned
    <3>2. CASE Shutdown
      BY <2>2, <3>2 DEF Shutdown, Pinned
    <3>3. QED
      BY <1>2, <3>1, <3>2
  <2>5. TypeOK' /\ NoDangling'
    BY <2>1, <2>2, <2>3, IdleType DEF TypeOK, NoDangling
  <2>6. Held' /\ Aimed' /\ GivenUp' /\ Unlisted'
    BY <2>2, IdleType DEF Held, Aimed, GivenUp, Unlisted, At
  <2>7. QED
    BY <2>4, <2>5, <2>6
<1>3. QED
  BY <1>1, <1>2

LEMMA NextInv == Inv /\ [Next]_vars => Inv'
<1> SUFFICES ASSUME Inv, [Next]_vars PROVE Inv'
  OBVIOUS
<1>1. CASE \E q \in Slots : Arrives(q) \/ Step(q) \/ HandlerFails(q)
  BY <1>1, ArriveInv, AddInv, SetTagInv, RemoveInv, EndInv DEF Step
<1>2. CASE \E b \in Blobs : Collect(b)
  BY <1>2, CollectInv
<1>3. CASE Commit \/ Kill \/ Shutdown
  BY <1>3, RestartInv
<1>4. CASE UNCHANGED vars
  BY <1>4 DEF vars, store, Inv, TypeOK, NoDangling, Pinned, Held, Aimed, GivenUp, Unlisted, At
<1>5. QED
  BY <1>1, <1>2, <1>3, <1>4 DEF Next

LEMMA Invariance == Spec => []Inv
  BY InitInv, NextInv, PTL DEF Spec

\* The variables of the blob store keep their types, whatever imports, removes,
\* collections and restarts interleave.
THEOREM StoreTypeCorrect == Spec => []TypeOK
<1>1. Inv => TypeOK
  BY DEF Inv
<1>2. QED
  BY <1>1, Invariance, PTL

\* An answered import is kept: import_file and import_directory never let go of
\* a blob between adding it and tagging it, delete_blob takes no other blob's
\* tag away but from names set meanwhile, and shutdown loses nothing.
THEOREM KeptHolds == Spec => []Kept
<1>1. Inv => Kept
  BY DEF Inv, NoDangling, Pinned, Kept
<1>2. QED
  BY <1>1, Invariance, PTL

\* A remove that is answered has deleted every tag on its blob that was not set
\* meanwhile: delete_blob collects all of them before it deletes the first.
THEOREM RemoveCompleteHolds == Spec => RemoveComplete
<1> DEFINE Done(q) == At(q, "delete") /\ op[q].names = {} /\ op'[q] = Idle /\ UNCHANGED faults
<1>1. Inv => \A q \in Slots : Done(q) => Tagged(op[q].blob) \subseteq raced
  BY DEF Inv, Unlisted, Tagged
<1>2. QED
  BY <1>1, Invariance, PTL DEF RemoveComplete

\* No tag names a blob that is not in the store, at any time and after any kill:
\* import_file and import_directory hold what they have added until it is tagged.
THEOREM NoDanglingHolds == Spec => []NoDangling
<1>1. Inv => NoDangling
  BY DEF Inv
<1>2. QED
  BY <1>1, Invariance, PTL
-----------------------------------------------------------------------------
(* How a directory can lose a file. *)

Whole(c) == c \in complete /\ Members[c] \subseteq complete

\* The members of an imported directory are only missing if the collector was
\* faster than the import, which tags the collection all the same, or if a kill
\* brings back a database in which they were missing.
LossExplained ==
  MembersKept /\ ~MembersKept' =>
    \/ \E q \in Slots :
         /\ At(q, "tag") /\ op[q].blob \in Colls /\ ~Whole(op[q].blob)
         /\ tags'[op[q].name] = op[q].blob
    \/ /\ faults' > faults
       /\ \E n \in Names : saved.tags[n] \in Colls
                           /\ ~(Members[saved.tags[n]] \subseteq saved.complete)

LossesExplained == [][LossExplained]_vars

\* The loss that the run on MembersKept shows is the only one: an import that
\* tags a collection whose members were collected before it was stored
\* (import_directory), or a kill that goes back to such a state.
THEOREM LossesAreExplained == Spec => LossesExplained
<1>1. ASSUME Inv, [Next]_vars PROVE [LossExplained]_vars
  <2> SUFFICES ASSUME MembersKept, NEW n \in Names, n \notin raced', pins'[n] \in Colls,
                      ~(Members[pins'[n]] \subseteq complete')
               PROVE  \/ \E q \in Slots :
                           /\ At(q, "tag") /\ op[q].blob \in Colls /\ ~Whole(op[q].blob)
                           /\ tags'[op[q].name] = op[q].blob
                      \/ /\ faults' > faults
                         /\ \E x \in Names :
                              /\ saved.tags[x] \in Colls
                              /\ ~(Members[saved.tags[x]] \subseteq saved.complete)
    BY DEF LossExplained, MembersKept
  <2>1. TypeOK /\ None \notin Colls
    BY <1>1, BlobStoreAssumption DEF Inv, Blobs
  <2>2. ASSUME n \notin raced, pins[n] = pins'[n] PROVE ~(complete \subseteq complete')
    BY <2>2 DEF MembersKept
  <2>3. ASSUME NEW q \in Slots,
               Arrives(q) \/ AddPath(q) \/ AddMember(q) \/ StoreCollection(q)
               \/ DeleteTag(q) \/ Removed(q) \/ HandlerFails(q)
        PROVE  FALSE
    BY <2>2, <2>3 DEF Arrives, ImportPath, BlobRemove, AddPath, AddMember, StoreCollection,
       DeleteTag, Removed, HandlerFails, store
  <2>4. ASSUME NEW q \in Slots, ListTags(q) PROVE FALSE
    <3>1. complete' = complete /\ raced' = raced /\ (pins'[n] = None \/ pins'[n] = pins[n])
      BY <2>4 DEF ListTags, store
    <3>2. QED
      BY <2>1, <2>2, <3>1
  <2>5. ASSUME NEW q \in Slots, SetTag(q)
        PROVE  /\ At(q, "tag") /\ op[q].blob \in Colls /\ ~Whole(op[q].blob)
               /\ tags'[op[q].name] = op[q].blob
    <3>1. /\ complete' = complete /\ At(q, "tag") /\ op[q].name \in Names
          /\ tags'[op[q].name] = op[q].blob /\ pins'[op[q].name] = op[q].blob
      BY <1>1, <2>1, <2>5 DEF SetTag, Inv, Aimed, At, TypeOK
    <3>2. n # op[q].name => n \notin raced /\ pins'[n] = pins[n]
      BY <2>1, <2>5 DEF SetTag, TypeOK
    <3>3. n = op[q].name
      BY <2>2, <3>1, <3>2
    <3>4. QED
      BY <3>1, <3>3 DEF Whole
  <2>6. ASSUME NEW b \in Blobs, Collect(b) PROVE FALSE
    <3>1. /\ n \notin raced /\ pins[n] = pins'[n] /\ pins[n] # None
          /\ complete' = complete \ {b} /\ ~Protected(b)
      BY <2>1, <2>6 DEF Collect
    <3>2. tags[n] = pins[n] /\ tags[n] \in complete
      BY <1>1, <3>1 DEF Inv, Pinned, NoDangling
    <3>3. b \notin Members[tags[n]]
      BY <2>1, <3>1, <3>2 DEF Protected
    <3>4. QED
      BY <3>1, <3>2, <3>3 DEF MembersKept
  <2>7. ~(Commit \/ Shutdown \/ UNCHANGED vars)
    BY <2>2 DEF Commit, Shutdown, Restart, vars, store
  <2>8. CASE Kill
    <3>1. /\ faults' > faults /\ complete' = saved.complete
          /\ pins'[n] = saved.tags[n] \/ pins'[n] = None
      BY <2>1, <2>8 DEF Kill, Restart, TypeOK
    <3>2. QED
      BY <2>1, <3>1
  <2>9. QED
    BY <1>1, <2>3, <2>4, <2>5, <2>6, <2>7, <2>8 DEF Next, Step
<1>2. QED
  BY <1>1, Invariance, PTL DEF Spec, LossesExplained
=============================================================================
