-------------------------- MODULE PeerDirectoryProofs --------------------------
(***************************************************************************)
(* Proofs about PeerDirectory and Listings, for any peers, rings,          *)
(* nicknames and number of handlers. The inductive invariant of the        *)
(* directory says where a handler can be, who else can work on its peer,   *)
(* and what of the three stores it has already dealt with; that of the     *)
(* listings what an answer under way may hold and what it still owes.      *)
(***************************************************************************)
EXTENDS Listings, TLAPS

\* A handler that works on p is in slot q.
Works(q, p) == req[q] # None /\ req[q].peer = p

\* No other command overlaps with the one that works on p.
Quiet(p) == p \notin contested \/ p \in erased

\* Unless commands overlap, one handler at most works on a peer.
Single ==
  \A p \in Peers, q1, q2 \in Reqs :
    Quiet(p) /\ Works(q1, p) /\ Works(q2, p) => q1 = q2

\* A handler is where its command can be.
Placed ==
  \A q \in Reqs : req[q] # None =>
    (req[q].op = "peerRemove" <=> req[q].pc \notin {"ensure", "insert"})

\* Nobody but its removal works on an erased peer.
OnlyRemoval ==
  \A q \in Reqs :
    req[q] # None /\ req[q].peer \in erased => req[q].op = "peerRemove"

\* The address book forgets a nickname with its peer.
Forgotten == \A p \in Peers : book[p] = Absent => nick[p] = NoNick

\* What ensure has read is still true when it inserts.
StillAbsent ==
  \A q \in Reqs : At(q, "insert") /\ req[q].peer \notin contested =>
    book[req[q].peer] = Absent

\* A peer stays in the address book until its removal is at its end.
StillThere ==
  \A q \in Reqs :
    /\ req[q] # None
    /\ req[q].op = "peerRemove"
    /\ req[q].peer \notin contested
    => book[req[q].peer] # Absent

\* Only rings that exist have members.
InRings == \A r \in Rings, p \in Peers : member[r][p] # "none" => r \in rings

\* The sweep leaves nothing behind: neither in the rings it has visited nor in
\* those made since its snapshot.
Swept ==
  \A q \in Reqs, r \in Rings :
    /\ \/ At(q, "sweep") /\ r \notin req[q].todo
       \/ At(q, "grants") \/ At(q, "forget")
    /\ Quiet(req[q].peer)
    => member[r][req[q].peer] = "none"

\* A removal about to forget its peer has revoked its grant.
Revoked ==
  \A q \in Reqs : At(q, "forget") /\ req[q].peer \in erased =>
    req[q].peer \notin granted

\* A member without an address book entry is being registered.
Registered ==
  \A r \in Rings, p \in Peers \ (contested \cup halfAdded) :
    member[r][p] # "none" /\ book[p] = Absent =>
      \E q \in Reqs : Works(q, p) /\ req[q].op = "ringAdd"

Handlers == Single /\ Placed /\ OnlyRemoval
Books == Forgotten /\ StillAbsent /\ StillThere /\ NicknameKept /\ Registered
Sweeps == InRings /\ Swept /\ Revoked /\ RemovalComplete

\* The inductive invariant, in three parts: where the handlers are, what the
\* address book says, and what a removal has swept.
Inv == TypeOK /\ Handlers /\ Books /\ Sweeps

-----------------------------------------------------------------------------
(* Every step keeps the invariant. *)

LEMMA RingNewKeeps ==
  ASSUME Inv, NEW q \in Reqs, NEW r \in Rings,
         RingNew(q, r)
  PROVE Inv'
<1> USE DirectoryAssumption DEF Inv, Handlers, Books, Sweeps, TypeOK,
  RingNew
<1>1. TypeOK'
  BY DEF Handler
<1>2. InRings'
  BY DEF InRings
<1>3. Single' /\ Placed' /\ OnlyRemoval' /\ Forgotten' /\ StillAbsent' /\
     StillThere' /\ NicknameKept' /\ Registered' /\ Swept' /\ Revoked' /\
     RemovalComplete'
  BY DEF Single, Works, Quiet, Placed, OnlyRemoval, Forgotten, StillAbsent,
     At, StillThere, NicknameKept, Registered, Swept, Revoked,
     RemovalComplete, NoTrace, Busy
<1> QED
  BY <1>1, <1>2, <1>3

LEMMA RingAddKeeps ==
  ASSUME Inv, NEW q \in Reqs, NEW r \in Rings, NEW p \in Peers \cup {Self},
         NEW expires \in BOOLEAN,
         RingAdd(q, r, p, expires)
  PROVE Inv'
<1> USE DirectoryAssumption DEF Inv, Handlers, Books, Sweeps, TypeOK,
  RingAdd, Contend, Lifetimes, Busy
<1>1. TypeOK'
  BY DEF Handler
<1>2. Single'
  BY DEF Single, Works, Quiet
<1>3. Placed'
  BY DEF Placed
<1>4. OnlyRemoval'
  BY DEF OnlyRemoval
<1>5. StillAbsent'
  BY DEF StillAbsent, At, Single, Works, Quiet
<1>6. StillThere'
  BY DEF StillThere, OnlyRemoval, Single, Works, Quiet
<1>7. NicknameKept'
  BY DEF NicknameKept, Forgotten, StillAbsent
<1>8. Registered'
  <2> SUFFICES ASSUME NEW r2 \in Rings,
                      NEW p2 \in Peers \ (contested' \cup halfAdded'),
                      member'[r2][p2] # "none", book'[p2] = Absent
               PROVE \E x \in Reqs : Works(x, p2)' /\ req'[x].op = "ringAdd"
    BY DEF Registered
  <2>1. CASE p2 = p
    <3>1. req'[q].peer = p /\ req'[q].op = "ringAdd" /\ req'[q] # None
      BY DEF Handler
    <3> QED
      BY <2>1, <3>1 DEF Works
  <2>2. CASE p2 # p
    <3>1. member'[r2][p2] = member[r2][p2]
      BY <2>2
    <3>2. p2 \notin contested \cup halfAdded /\ book[p2] = Absent
      BY <2>2
    <3>3. PICK x \in Reqs : Works(x, p2) /\ req[x].op = "ringAdd"
      BY <3>1, <3>2 DEF Registered
    <3> QED
      BY <3>3 DEF Works
  <2> QED
    BY <2>1, <2>2
<1>9. InRings'
  BY DEF InRings
<1>10. Swept'
  BY DEF Swept, At, Quiet
<1>11. Revoked'
  BY DEF Revoked, At
<1>12. RemovalComplete'
  <2> SUFFICES ASSUME NEW p2 \in Peers, p2 \in erased', ~Busy(p2)'
               PROVE NoTrace(p2)'
    BY DEF RemovalComplete
  <2>1. p2 \in erased /\ ~Busy(p2)
    BY DEF Busy
  <2>2. NoTrace(p2)
    BY <2>1 DEF RemovalComplete
  <2> QED
    BY <2>1, <2>2 DEF NoTrace, Busy
<1>13. Forgotten'
  BY DEF Forgotten
<1> QED
  BY <1>1, <1>2, <1>3, <1>4, <1>5, <1>6, <1>7, <1>8, <1>9, <1>10, <1>11,
     <1>12, <1>13

LEMMA RingRemoveKeeps ==
  ASSUME Inv, NEW q \in Reqs, NEW r \in Rings, NEW p \in Peers,
         RingRemove(q, r, p)
  PROVE Inv'
<1> USE DirectoryAssumption DEF Inv, Handlers, Books, Sweeps, TypeOK,
  RingRemove
<1>1. TypeOK'
  BY DEF Handler
<1>2. Registered'
  BY DEF Registered, Works
<1>3. InRings'
  BY DEF InRings
<1>4. Swept'
  BY DEF Swept, At, Quiet
<1>5. RemovalComplete'
  BY DEF RemovalComplete, NoTrace, Busy
<1>6. Single' /\ Placed' /\ OnlyRemoval' /\ Forgotten' /\ StillAbsent' /\
     StillThere' /\ NicknameKept' /\ Revoked'
  BY DEF Single, Works, Quiet, Placed, OnlyRemoval, Forgotten, StillAbsent,
     At, StillThere, NicknameKept, Revoked
<1> QED
  BY <1>1, <1>2, <1>3, <1>4, <1>5, <1>6

LEMMA ExpireKeeps ==
  ASSUME Inv, NEW r \in Rings, NEW p \in Peers,
         Expire(r, p)
  PROVE Inv'
<1> USE DirectoryAssumption DEF Inv, Handlers, Books, Sweeps, TypeOK, Expire
<1>1. TypeOK'
  BY DEF Handler
<1>2. Registered'
  BY DEF Registered, Works
<1>3. InRings'
  BY DEF InRings
<1>4. Swept'
  BY DEF Swept, At, Quiet
<1>5. RemovalComplete'
  BY DEF RemovalComplete, NoTrace, Busy
<1>6. Single' /\ Placed' /\ OnlyRemoval' /\ Forgotten' /\ StillAbsent' /\
     StillThere' /\ NicknameKept' /\ Revoked'
  BY DEF Single, Works, Quiet, Placed, OnlyRemoval, Forgotten, StillAbsent,
     At, StillThere, NicknameKept, Revoked
<1> QED
  BY <1>1, <1>2, <1>3, <1>4, <1>5, <1>6

LEMMA PeerAddNamedKeeps ==
  ASSUME Inv, NEW q \in Reqs, NEW p \in Peers, NEW n \in Nicks,
         PeerAddNamed(q, p, n)
  PROVE Inv'
<1> USE DirectoryAssumption DEF Inv, Handlers, Books, Sweeps, TypeOK,
  PeerAddNamed, Busy
<1>1. TypeOK'
  BY DEF Handler
<1>2. Single'
  BY DEF Single, Works, Quiet
<1>3. OnlyRemoval'
  BY DEF OnlyRemoval
<1>4. Forgotten'
  BY DEF Forgotten
<1>5. StillAbsent'
  BY DEF StillAbsent, At, Single, Works, Quiet
<1>6. StillThere'
  BY DEF StillThere, OnlyRemoval, Single, Works, Quiet
<1>7. NicknameKept'
  BY DEF NicknameKept, Forgotten, StillAbsent
<1>8. Registered'
  BY DEF Registered, Works
<1>9. Swept'
  BY DEF Swept, At, Quiet
<1>10. Revoked'
  BY DEF Revoked, At
<1>11. RemovalComplete'
  BY DEF RemovalComplete, NoTrace
<1>12. Placed' /\ InRings'
  BY DEF Placed, InRings
<1> QED
  BY <1>1, <1>2, <1>3, <1>4, <1>5, <1>6, <1>7, <1>8, <1>9, <1>10, <1>11, <1>12

LEMMA PeerAddKeeps ==
  ASSUME Inv, NEW q \in Reqs, NEW p \in Peers,
         PeerAdd(q, p)
  PROVE Inv'
<1> USE DirectoryAssumption DEF Inv, Handlers, Books, Sweeps, TypeOK,
  PeerAdd, Contend, Busy
<1>1. TypeOK'
  BY DEF Handler
<1>2. Single'
  BY DEF Single, Works, Quiet
<1>3. Placed'
  BY DEF Placed
<1>4. OnlyRemoval'
  BY DEF OnlyRemoval
<1>5. StillAbsent'
  BY DEF StillAbsent, At, Single, Works, Quiet
<1>6. StillThere'
  BY DEF StillThere, OnlyRemoval, Single, Works, Quiet
<1>7. NicknameKept'
  BY DEF NicknameKept, Forgotten, StillAbsent
<1>8. Registered'
  BY DEF Registered, Works
<1>9. Swept'
  BY DEF Swept, At, Quiet
<1>10. Revoked'
  BY DEF Revoked, At
<1>11. RemovalComplete'
  BY DEF RemovalComplete, NoTrace
<1>12. Forgotten' /\ InRings'
  BY DEF Forgotten, InRings
<1> QED
  BY <1>1, <1>2, <1>3, <1>4, <1>5, <1>6, <1>7, <1>8, <1>9, <1>10, <1>11, <1>12

LEMMA EnsureReadKeeps ==
  ASSUME Inv, NEW q \in Reqs,
         EnsureRead(q)
  PROVE Inv'
<1> USE DirectoryAssumption DEF Inv, Handlers, Books, Sweeps, TypeOK, At, stores
<1>a. /\ At(q, "ensure")
      /\ req' \in [Reqs -> Handler \cup {None}]
      /\ \A x \in Reqs \ {q} : req'[x] = req[x]
      /\ \/ req'[q] = None
         \/ /\ req'[q] # None /\ req'[q].pc = "insert" /\ book[req[q].peer] = Absent
            /\ req'[q].op = req[q].op /\ req'[q].peer = req[q].peer
      /\ book[req[q].peer] = Absent => req'[q] # None
      /\ UNCHANGED <<stores, faults, nick, contested, halfAdded, erased>>
  <2>1. UNCHANGED <<stores, faults, nick, contested, halfAdded, erased>>
    BY DEF EnsureRead
  <2>2. CASE book[req[q].peer] = Absent
    BY <2>1, <2>2 DEF EnsureRead, Goto, Handler
  <2>3. CASE book[req[q].peer] # Absent
    BY <2>1, <2>3 DEF EnsureRead, Return
  <2> QED
    BY <2>2, <2>3
<1>1. TypeOK'
  BY <1>a DEF Handler
<1>2. Single'
  BY <1>a DEF Single, Works, Quiet
<1>3. Placed'
  BY <1>a DEF Placed
<1>4. OnlyRemoval'
  BY <1>a DEF OnlyRemoval
<1>5. StillAbsent'
  BY <1>a DEF StillAbsent, Single, Works, Quiet
<1>6. StillThere'
  BY <1>a DEF StillThere, OnlyRemoval, Single, Works, Quiet
<1>7. Registered'
  BY <1>a DEF Registered, Works
<1>8. Swept'
  BY <1>a DEF Swept, Quiet
<1>9. Revoked'
  BY <1>a DEF Revoked
<1>10. RemovalComplete'
  <2> SUFFICES ASSUME NEW p2 \in Peers, p2 \in erased', ~Busy(p2)'
               PROVE NoTrace(p2)'
    BY <1>a DEF RemovalComplete
  <2>1. p2 \in erased /\ ~Busy(p2)
    BY <1>a DEF Busy, OnlyRemoval, Placed
  <2>2. NoTrace(p2)
    BY <2>1 DEF RemovalComplete
  <2> QED
    BY <1>a, <2>2 DEF NoTrace
<1>11. Forgotten' /\ NicknameKept' /\ InRings'
  BY <1>a DEF Forgotten, NicknameKept, InRings
<1> QED
  BY <1>1, <1>2, <1>3, <1>4, <1>5, <1>6, <1>7, <1>8, <1>9, <1>10, <1>11

LEMMA EnsureInsertKeeps ==
  ASSUME Inv, NEW q \in Reqs,
         EnsureInsert(q)
  PROVE Inv'
<1> USE DirectoryAssumption DEF Inv, Handlers, Books, Sweeps, TypeOK,
  EnsureInsert, At, Return
<1>1. TypeOK'
  BY DEF Handler
<1>2. Single'
  BY DEF Single, Works, Quiet
<1>3. Placed'
  BY DEF Placed
<1>4. OnlyRemoval'
  BY DEF OnlyRemoval
<1>5. Forgotten'
  BY DEF Forgotten
<1>6. StillAbsent'
  BY DEF StillAbsent, Single, Works, Quiet
<1>7. StillThere'
  BY DEF StillThere, OnlyRemoval, Single, Works, Quiet
<1>8. NicknameKept'
  BY DEF NicknameKept, Forgotten, StillAbsent
<1>9. Registered'
  BY DEF Registered, Works
<1>10. Swept'
  BY DEF Swept, Quiet
<1>11. Revoked'
  BY DEF Revoked
<1>12. RemovalComplete'
  BY DEF RemovalComplete, NoTrace, Busy, Works, Swept, Quiet, Revoked, Single,
     OnlyRemoval, Placed
<1>13. InRings'
  BY DEF InRings
<1> QED
  BY <1>1, <1>2, <1>3, <1>4, <1>5, <1>6, <1>7, <1>8, <1>9, <1>10, <1>11,
     <1>12, <1>13

LEMMA GrantKeeps ==
  ASSUME Inv, NEW q \in Reqs, NEW p \in Peers,
         Grant(q, p)
  PROVE Inv'
<1> USE DirectoryAssumption DEF Inv, Handlers, Books, Sweeps, TypeOK, Grant
<1>1. TypeOK'
  BY DEF Handler
<1>2. Single'
  BY DEF Single, Works, Quiet
<1>3. OnlyRemoval'
  BY DEF OnlyRemoval
<1>4. Swept'
  BY DEF Swept, At, Quiet
<1>5. Revoked'
  BY DEF Revoked, At
<1>6. RemovalComplete'
  BY DEF RemovalComplete, NoTrace, Busy
<1>7. Placed' /\ Forgotten' /\ StillAbsent' /\ StillThere' /\ NicknameKept' /\
     Registered' /\ InRings'
  BY DEF Placed, Forgotten, StillAbsent, At, StillThere, NicknameKept,
     Registered, Works, InRings
<1> QED
  BY <1>1, <1>2, <1>3, <1>4, <1>5, <1>6, <1>7

LEMMA RevokeKeeps ==
  ASSUME Inv, NEW q \in Reqs, NEW p \in Peers,
         Revoke(q, p)
  PROVE Inv'
<1> USE DirectoryAssumption DEF Inv, Handlers, Books, Sweeps, TypeOK, Revoke
<1>1. TypeOK'
  BY DEF Handler
<1>2. Revoked'
  BY DEF Revoked, At
<1>3. RemovalComplete'
  BY DEF RemovalComplete, NoTrace, Busy
<1>4. Single' /\ Placed' /\ OnlyRemoval' /\ Forgotten' /\ StillAbsent' /\
     StillThere' /\ NicknameKept' /\ Registered' /\ InRings' /\ Swept'
  BY DEF Single, Works, Quiet, Placed, OnlyRemoval, Forgotten, StillAbsent,
     At, StillThere, NicknameKept, Registered, InRings, Swept
<1> QED
  BY <1>1, <1>2, <1>3, <1>4

LEMMA PeerRemoveKeeps ==
  ASSUME Inv, NEW q \in Reqs, NEW p \in Peers,
         PeerRemove(q, p)
  PROVE Inv'
<1> USE DirectoryAssumption DEF Inv, Handlers, Books, Sweeps, TypeOK,
  PeerRemove, Contend, Busy, stores
<1>1. TypeOK'
  BY DEF Handler
<1>2. Single'
  BY DEF Single, Works, Quiet
<1>3. Placed'
  BY DEF Placed
<1>4. OnlyRemoval'
  BY DEF OnlyRemoval
<1>5. StillAbsent'
  BY DEF StillAbsent, At, Single, Works, Quiet
<1>6. StillThere'
  BY DEF StillThere, OnlyRemoval, Single, Works, Quiet
<1>7. NicknameKept'
  BY DEF NicknameKept, Forgotten, StillAbsent
<1>8. Registered'
  BY DEF Registered, Works
<1>9. Swept'
  BY DEF Swept, At, Quiet
<1>10. Revoked'
  BY DEF Revoked, At
<1>11. RemovalComplete'
  <2> SUFFICES ASSUME NEW p2 \in Peers, p2 \in erased', ~Busy(p2)'
               PROVE NoTrace(p2)'
    BY DEF RemovalComplete
  <2>1. p2 # p
    BY DEF Busy, Handler
  <2>2. ~Busy(p2)
    BY <2>1 DEF Busy
  <2>3. p2 \in erased
    BY <2>1
  <2> QED
    BY <2>2, <2>3 DEF RemovalComplete, NoTrace
<1>12. Forgotten' /\ InRings'
  BY DEF Forgotten, InRings
<1> QED
  BY <1>1, <1>2, <1>3, <1>4, <1>5, <1>6, <1>7, <1>8, <1>9, <1>10, <1>11, <1>12

LEMMA ListRingsKeeps ==
  ASSUME Inv, NEW q \in Reqs,
         ListRings(q)
  PROVE Inv'
<1> USE DirectoryAssumption DEF Inv, Handlers, Books, Sweeps, TypeOK, At, stores
<1>a. /\ At(q, "rings")
      /\ req' \in [Reqs -> Handler \cup {None}]
      /\ \A x \in Reqs \ {q} : req'[x] = req[x]
      /\ req'[q] # None /\ req'[q].op = req[q].op /\ req'[q].peer = req[q].peer
      /\ \/ req'[q].pc = "grants" /\ rings = {}
         \/ req'[q].pc = "sweep" /\ req'[q].todo = rings
      /\ UNCHANGED <<stores, faults, nick, contested, halfAdded, erased>>
  <2>1. CASE rings = {}
    BY <2>1 DEF ListRings, Handler
  <2>2. CASE rings # {}
    BY <2>2 DEF ListRings, Handler
  <2> QED
    BY <2>1, <2>2
<1>1. TypeOK'
  BY <1>a DEF Handler
<1>2. Single'
  BY <1>a DEF Single, Works, Quiet
<1>3. Placed'
  BY <1>a DEF Placed
<1>4. OnlyRemoval'
  BY <1>a DEF OnlyRemoval
<1>5. StillAbsent'
  BY <1>a DEF StillAbsent, Single, Works, Quiet
<1>6. StillThere'
  BY <1>a DEF StillThere, OnlyRemoval, Single, Works, Quiet
<1>7. Registered'
  BY <1>a DEF Registered, Works, Placed, Swept, Single, Quiet, StillThere
<1>8. Swept'
  <2> SUFFICES ASSUME NEW x \in Reqs, NEW r \in Rings, Quiet(req[x].peer)',
                      \/ At(x, "sweep")' /\ r \notin req'[x].todo
                      \/ At(x, "grants")' \/ At(x, "forget")'
               PROVE member'[r][req'[x].peer] = "none"
    BY <1>a DEF Swept
  <2>1. CASE x = q
    BY <1>a, <2>1 DEF InRings, Handler
  <2>2. CASE x # q
    BY <1>a, <2>2 DEF Swept, Quiet, Handler
  <2> QED
    BY <2>1, <2>2
<1>9. Revoked'
  BY <1>a DEF Revoked
<1>10. RemovalComplete'
  BY <1>a DEF RemovalComplete, NoTrace, Busy, Works, Swept, Quiet, Revoked,
     Single, OnlyRemoval, Placed
<1>11. Forgotten' /\ NicknameKept' /\ InRings'
  BY <1>a DEF Forgotten, NicknameKept, InRings
<1> QED
  BY <1>1, <1>2, <1>3, <1>4, <1>5, <1>6, <1>7, <1>8, <1>9, <1>10, <1>11

LEMMA SweepRingKeeps ==
  ASSUME Inv, NEW q \in Reqs,
         SweepRing(q)
  PROVE Inv'
<1> USE DirectoryAssumption DEF Inv, Handlers, Books, Sweeps, TypeOK, At, stores
<1>b. PICK r \in req[q].todo :
       /\ member' = [member EXCEPT ![r][req[q].peer] = "none"]
       /\ req' = [req EXCEPT ![q].todo = @ \ {r},
                    ![q].pc = IF req[q].todo = {r} THEN "grants" ELSE "sweep"]
  BY DEF SweepRing
<1>d. /\ At(q, "sweep") /\ r \in Rings /\ req[q] \in Handler
      /\ member' = [member EXCEPT ![r][req[q].peer] = "none"]
      /\ UNCHANGED <<rings, granted, book, faults, nick, contested, halfAdded,
                     erased>>
  BY <1>b DEF SweepRing, Handler
<1>a. /\ req' \in [Reqs -> Handler \cup {None}]
      /\ \A x \in Reqs \ {q} : req'[x] = req[x]
      /\ req'[q] # None /\ req'[q].op = req[q].op /\ req'[q].peer = req[q].peer
      /\ \/ req'[q].pc = "grants" /\ req[q].todo = {r}
         \/ req'[q].pc = "sweep" /\ req'[q].todo = req[q].todo \ {r}
  <2> DEFINE h == [req[q] EXCEPT !.todo = @ \ {r},
                     !.pc = IF req[q].todo = {r} THEN "grants" ELSE "sweep"]
  <2>1. h \in Handler /\ h.op = req[q].op /\ h.peer = req[q].peer
    BY <1>d DEF Handler
  <2>2. \/ h.pc = "grants" /\ req[q].todo = {r}
        \/ h.pc = "sweep" /\ h.todo = req[q].todo \ {r}
    BY <1>d DEF Handler
  <2>3. req' = [req EXCEPT ![q] = h]
    BY <1>b
  <2> HIDE DEF h
  <2> QED
    BY <1>d, <2>1, <2>2, <2>3
<1>c. /\ member'[r][req[q].peer] = "none"
      /\ \A r2 \in Rings, p \in Peers :
           member'[r2][p] = "none" \/ member'[r2][p] = member[r2][p]
  BY <1>d DEF Handler
<1>1. TypeOK'
  BY <1>d, <1>a DEF Handler
<1>2. Single'
  BY <1>d, <1>a DEF Single, Works, Quiet
<1>3. Placed'
  BY <1>d, <1>a DEF Placed
<1>4. OnlyRemoval'
  BY <1>d, <1>a DEF OnlyRemoval
<1>5. StillAbsent'
  BY <1>d, <1>a DEF StillAbsent, Single, Works, Quiet
<1>6. StillThere'
  BY <1>d, <1>a DEF StillThere, OnlyRemoval, Single, Works, Quiet
<1>7. Registered'
  BY <1>d, <1>a DEF Registered, Works, Placed, Swept, Single, Quiet,
     StillThere
<1>8. InRings'
  BY <1>d, <1>a DEF InRings
<1>9. Swept'
  <2> SUFFICES ASSUME NEW x \in Reqs, NEW r2 \in Rings, Quiet(req[x].peer)',
                      \/ At(x, "sweep")' /\ r2 \notin req'[x].todo
                      \/ At(x, "grants")' \/ At(x, "forget")'
               PROVE member'[r2][req'[x].peer] = "none"
    BY <1>d, <1>a DEF Swept
  <2>1. CASE x = q /\ r2 = r
    BY <1>d, <1>a, <1>c, <2>1
  <2>2. CASE x = q /\ r2 # r
    BY <1>d, <1>a, <1>c, <2>2 DEF Swept, Quiet, Handler
  <2>3. CASE x # q
    BY <1>d, <1>a, <1>c, <2>3 DEF Swept, Quiet, Handler
  <2> QED
    BY <2>1, <2>2, <2>3
<1>10. Revoked'
  BY <1>d, <1>a DEF Revoked
<1>11. RemovalComplete'
  <2> SUFFICES ASSUME NEW p2 \in Peers, p2 \in erased', ~Busy(p2)'
               PROVE NoTrace(p2)'
    BY <1>d, <1>a DEF RemovalComplete
  <2>1. p2 \in erased /\ ~Busy(p2)
    BY <1>d, <1>a DEF Busy
  <2>2. NoTrace(p2)
    BY <2>1 DEF RemovalComplete
  <2> QED
    BY <1>d, <1>a, <1>c, <2>2 DEF NoTrace
<1>12. Forgotten' /\ NicknameKept'
  BY <1>d, <1>a DEF Forgotten, NicknameKept
<1> QED
  BY <1>1, <1>2, <1>3, <1>4, <1>5, <1>6, <1>7, <1>8, <1>9, <1>10, <1>11, <1>12

LEMMA RevokeGrantsKeeps ==
  ASSUME Inv, NEW q \in Reqs,
         RevokeGrants(q)
  PROVE Inv'
<1> USE DirectoryAssumption DEF Inv, Handlers, Books, Sweeps, TypeOK, At, stores
<1>a. /\ At(q, "grants") /\ granted' = granted \ {req[q].peer}
      /\ UNCHANGED <<rings, member, book, faults, nick, contested, halfAdded,
                     erased>>
      /\ req' \in [Reqs -> Handler \cup {None}]
      /\ \A x \in Reqs \ {q} : req'[x] = req[x]
      /\ req'[q] # None /\ req'[q].op = req[q].op /\ req'[q].peer = req[q].peer
      /\ req'[q].pc = "forget"
  BY DEF RevokeGrants, Goto, Handler
<1>1. TypeOK'
  BY <1>a DEF Handler
<1>2. Single'
  BY <1>a DEF Single, Works, Quiet
<1>3. Placed'
  BY <1>a DEF Placed
<1>4. OnlyRemoval'
  BY <1>a DEF OnlyRemoval
<1>5. StillAbsent'
  BY <1>a DEF StillAbsent, Single, Works, Quiet
<1>6. StillThere'
  BY <1>a DEF StillThere, OnlyRemoval, Single, Works, Quiet
<1>7. Registered'
  BY <1>a DEF Registered, Works, Placed, Swept, Single, Quiet, StillThere
<1>8. Swept'
  BY <1>a DEF Swept, Quiet, InRings, Single, OnlyRemoval, Works, Placed
<1>9. Revoked'
  BY <1>a DEF Revoked
<1>10. RemovalComplete'
  <2> SUFFICES ASSUME NEW p2 \in Peers, p2 \in erased', ~Busy(p2)'
               PROVE NoTrace(p2)'
    BY <1>a DEF RemovalComplete
  <2>1. p2 \in erased /\ ~Busy(p2)
    BY <1>a DEF Busy
  <2>2. NoTrace(p2)
    BY <2>1 DEF RemovalComplete
  <2> QED
    BY <1>a, <2>2 DEF NoTrace
<1>11. Forgotten' /\ NicknameKept' /\ InRings'
  BY <1>a DEF Forgotten, NicknameKept, InRings
<1> QED
  BY <1>1, <1>2, <1>3, <1>4, <1>5, <1>6, <1>7, <1>8, <1>9, <1>10, <1>11

LEMMA ForgetPeerKeeps ==
  ASSUME Inv, NEW q \in Reqs,
         ForgetPeer(q)
  PROVE Inv'
<1> USE DirectoryAssumption DEF Inv, Handlers, Books, Sweeps, TypeOK,
  ForgetPeer, At, Return
<1>1. TypeOK'
  BY DEF Handler
<1>2. Single'
  BY DEF Single, Works, Quiet
<1>3. Placed'
  BY DEF Placed
<1>4. OnlyRemoval'
  BY DEF OnlyRemoval
<1>5. Forgotten'
  BY DEF Forgotten
<1>6. StillAbsent'
  BY DEF StillAbsent, Single, Works, Quiet
<1>7. StillThere'
  BY DEF StillThere, OnlyRemoval, Single, Works, Quiet
<1>8. NicknameKept'
  BY DEF NicknameKept, Forgotten, StillAbsent
<1>9. Registered'
  BY DEF Registered, Works, Placed, Swept, Single, Quiet, StillThere
<1>10. Swept'
  BY DEF Swept, Quiet, InRings, Single, OnlyRemoval, Works, Placed
<1>11. Revoked'
  BY DEF Revoked
<1>12. RemovalComplete'
  BY DEF RemovalComplete, NoTrace, Busy, Works, Swept, Quiet, Revoked, Single,
     OnlyRemoval, Placed
<1>13. InRings'
  BY DEF InRings
<1> QED
  BY <1>1, <1>2, <1>3, <1>4, <1>5, <1>6, <1>7, <1>8, <1>9, <1>10, <1>11,
     <1>12, <1>13

LEMMA DieKeeps ==
  ASSUME Inv, NEW Q \in SUBSET Reqs,
         Die(Q)
  PROVE Inv'
<1> USE DirectoryAssumption DEF Inv, Handlers, Books, Sweeps, TypeOK, Die,
  stores
<1>1. TypeOK'
  BY DEF Handler
<1>2. Single'
  BY DEF Single, Works, Quiet
<1>3. Placed'
  BY DEF Placed
<1>4. OnlyRemoval'
  BY DEF OnlyRemoval
<1>5. StillAbsent'
  BY DEF StillAbsent, At, Single, Works, Quiet
<1>6. StillThere'
  BY DEF StillThere, OnlyRemoval, Single, Works, Quiet
<1>7. Registered'
  BY DEF Registered, Works
<1>8. Swept'
  BY DEF Swept, At, Quiet
<1>9. Revoked'
  BY DEF Revoked, At
<1>10. RemovalComplete'
  BY DEF RemovalComplete, NoTrace, Busy
<1>11. Forgotten' /\ NicknameKept' /\ InRings'
  BY DEF Forgotten, NicknameKept, InRings
<1> QED
  BY <1>1, <1>2, <1>3, <1>4, <1>5, <1>6, <1>7, <1>8, <1>9, <1>10, <1>11

-----------------------------------------------------------------------------
(* The theorems. *)

LEMMA InitInv == Init => Inv
<1> SUFFICES ASSUME Init PROVE Inv
  OBVIOUS
<1> USE DEF Init
<1>1. TypeOK
  BY DirectoryAssumption DEF TypeOK
<1>2. Handlers
  BY DEF Handlers, Single, Placed, OnlyRemoval, Works
<1>3. Books
  BY DEF Books, Forgotten, StillAbsent, StillThere, NicknameKept, Registered, At
<1>4. Sweeps
  BY DEF Sweeps, InRings, Swept, Revoked, RemovalComplete, At
<1> QED
  BY <1>1, <1>2, <1>3, <1>4 DEF Inv

LEMMA NextInv == Inv /\ [Next]_vars => Inv'
<1> SUFFICES ASSUME Inv, [Next]_vars PROVE Inv'
  OBVIOUS
<1>1. ASSUME NEW q \in Reqs, Command(q) PROVE Inv'
  BY <1>1, RingNewKeeps, RingAddKeeps, RingRemoveKeeps, PeerAddNamedKeeps,
     PeerAddKeeps, PeerRemoveKeeps, GrantKeeps, RevokeKeeps DEF Command
<1>2. ASSUME NEW q \in Reqs, Step(q) PROVE Inv'
  BY <1>2, EnsureReadKeeps, EnsureInsertKeeps, ListRingsKeeps, SweepRingKeeps,
     RevokeGrantsKeeps, ForgetPeerKeeps DEF Step
<1>3. ASSUME NEW Q \in SUBSET Reqs, Die(Q) PROVE Inv'
  BY <1>3, DieKeeps
<1>4. CASE UNCHANGED vars
  <2>1. TypeOK' /\ Handlers'
    BY <1>4 DEF Inv, vars, TypeOK, Handlers, Single, Placed, OnlyRemoval, Works,
       Quiet
  <2>2. Books'
    BY <1>4 DEF Inv, vars, Books, Forgotten, StillAbsent, StillThere, NicknameKept,
       Registered, At, Works
  <2>3. Sweeps'
    BY <1>4 DEF Inv, vars, Sweeps, InRings, Swept, Quiet, Revoked, RemovalComplete,
       NoTrace, Busy, At
  <2> QED
    BY <2>1, <2>2, <2>3 DEF Inv
<1> QED
  BY <1>1, <1>2, <1>3, <1>4, ExpireKeeps DEF Next, HandlerFails, Crash

LEMMA InvHolds == Spec => []Inv
  BY InitInv, NextInv, PTL DEF Spec

\* The variables of the directory keep their types.
THEOREM DirectoryTypeHolds == Spec => []TypeOK
<1>1. Inv => TypeOK
  BY DEF Inv
<1> QED
  BY <1>1, InvHolds, PTL

\* A peer remove that no other command on that peer overlapped leaves no trace
\* of the peer in the rings, the grants and the address book (peer_remove_lines).
THEOREM RemovalHolds == Spec => []RemovalComplete
<1>1. Inv => RemovalComplete
  BY DEF Inv, Sweeps
<1> QED
  BY <1>1, InvHolds, PTL

\* The address book shows the nickname last given, unless commands on the peer
\* have overlapped (PeerStore::ensure, upsert and remove).
THEOREM NicknameHolds == Spec => []NicknameKept
<1>1. Inv => NicknameKept
  BY DEF Inv, Books
<1> QED
  BY <1>1, InvHolds, PTL

\* Every ring member is in the address book, but for the exempt ones
\* (ring_add_lines against peer_remove_lines).
THEOREM MembersHold == Spec => []MembersInBook
<1>1. Inv => MembersInBook
  BY DEF Inv, Books, Registered, MembersInBook, Works, Busy
<1> QED
  BY <1>1, InvHolds, PTL

-----------------------------------------------------------------------------
(* The listings. *)

ListOp == {"rings", "members", "peers", "grants"}

\* What a listing may have shown so far, and where it can be.
Listed ==
  list # None =>
    /\ list \in [op : ListOp, about : Rings \cup Peers \cup {Self, None},
                 pass : {1, 2}, pc : {"read", "look", "told"},
                 todo : SUBSET (Rings \cup Peers), shown : SUBSET once]
    /\ list.pc = "read" => list.shown = {}
    /\ list.pc = "told" => list.todo = {}
    /\ list.pc = "look" => list.op \in {"rings", "members"}
    /\ list.op = "rings" => list.todo \subseteq rings
    /\ list.op = "members" => list.about \in Rings /\ list.todo \subseteq Peers

\* The histories are true of the present state, until the answer is given.
Watched ==
  list # None /\ list.pc # "told" => Truth(list) \subseteq once /\ always \subseteq Truth(list)

\* What the answer may still lack: what has not been read or looked up yet, and
\* in the end the exceptions that ListComplete names.
Owed(e) ==
  \/ list.pc = "read"
  \/ list.op = "rings" /\ e[1] = "count" /\ (e[2] \in list.todo \/ list.pass = 2)
  \/ /\ list.op = "members" /\ e[1] = "named"
     /\ e[2] \in list.todo \/ <<"member", e[2]>> \notin always \/ faults > 0

OnlyOwed == list # None => \A e \in always \ list.shown : Owed(e)

\* The inductive invariant of the listings, beside Inv.
ListInv == Listed /\ Watched /\ OnlyOwed

\* Faults are only ever counted up.
LEMMA FaultsGrow == ASSUME TypeOK, [Next]_vars PROVE faults' = faults \/ faults' = faults + 1
<1>1. ASSUME NEW q \in Reqs, Command(q) PROVE faults' = faults
  BY <1>1 DEF Command, RingNew, RingAdd, RingRemove, PeerAddNamed, PeerAdd, PeerRemove,
              Grant, Revoke
<1>2. ASSUME NEW q \in Reqs, Step(q) PROVE faults' = faults
  BY <1>2 DEF Step, EnsureRead, EnsureInsert, ListRings, SweepRing, RevokeGrants,
              ForgetPeer
<1>3. QED
  BY <1>1, <1>2 DEF Next, HandlerFails, Crash, Die, Expire, vars

\* A ring, once made, stays.
LEMMA RingsStay == ASSUME [Next]_vars PROVE rings \subseteq rings'
<1>1. ASSUME NEW q \in Reqs, Command(q) PROVE rings \subseteq rings'
  BY <1>1 DEF Command, RingNew, RingAdd, RingRemove, PeerAddNamed, PeerAdd, PeerRemove,
              Grant, Revoke, stores
<1>2. ASSUME NEW q \in Reqs, Step(q) PROVE rings \subseteq rings'
  BY <1>2 DEF Step, EnsureRead, EnsureInsert, ListRings, SweepRing, RevokeGrants,
              ForgetPeer, stores
<1>3. QED
  BY <1>1, <1>2 DEF Next, HandlerFails, Crash, Die, Expire, vars, stores

\* While a listing stays where it is, the histories follow the directory.
LEMMA OthersStep ==
  ASSUME TypeOK, ListInv, [Next]_vars, UNCHANGED list, Observe
  PROVE  ListInv'
<1>1. CASE list = None
  BY <1>1 DEF ListInv, Listed, Watched, OnlyOwed
<1>2. CASE list # None /\ list.pc = "told"
  <2>1. once' = once /\ always' = always
    BY <1>2 DEF Observe
  <2>2. faults > 0 => faults' > 0
    BY FaultsGrow DEF TypeOK
  <2>3. Listed' /\ Watched'
    BY <1>2, <2>1, RingsStay DEF ListInv, Listed, Watched
  <2>4. ASSUME NEW e \in always \ list.shown PROVE Owed(e)'
    <3>1. Owed(e)
      BY <1>2 DEF ListInv, OnlyOwed
    <3>2. QED
      BY <1>2, <2>1, <2>2, <3>1 DEF Owed
  <2>5. QED
    BY <2>1, <2>3, <2>4 DEF ListInv, OnlyOwed
<1>3. CASE list # None /\ list.pc # "told"
  <2>1. once' = once \cup Truth(list)' /\ always' = always \cap Truth(list)'
    BY <1>3 DEF Observe
  <2>2. faults > 0 => faults' > 0
    BY FaultsGrow DEF TypeOK
  <2>3. Listed'
    BY <1>3, <2>1, RingsStay DEF ListInv, Listed
  <2>4. Watched'
    BY <2>1 DEF Watched
  <2>5. ASSUME NEW e \in always' \ list.shown PROVE Owed(e)'
    <3>1. Owed(e)
      BY <1>3, <2>1 DEF ListInv, OnlyOwed
    <3>2. QED
      BY <1>3, <2>1, <2>2, <3>1 DEF Owed
  <2>6. QED
    BY <2>3, <2>4, <2>5 DEF ListInv, OnlyOwed
<1>4. QED
  BY <1>1, <1>2, <1>3

\* A pass begins with the histories.
LEMMA PassBegins ==
  ASSUME UNCHANGED vars, Observe, list = None \/ list'.pass # list.pass,
         list' # None =>
           /\ list' \in [op : ListOp, about : Rings \cup Peers \cup {Self, None},
                         pass : {1, 2}, pc : {"read"}, todo : {{}}, shown : {{}}]
           /\ list'.op = "members" => list'.about \in Rings
  PROVE  ListInv'
<1>1. CASE list' = None
  BY <1>1 DEF ListInv, Listed, Watched, OnlyOwed
<1>2. CASE list' # None
  <2>1. list'.pc = "read"
    BY <1>2
  <2>2. once' = Truth(list') /\ always' = Truth(list')
    BY <1>2, <2>1 DEF Observe
  <2>3. Truth(list') = Truth(list)'
    BY DEF Truth, Members, Known, Nicknamed, vars
  <2>4. Listed'
    BY <1>2 DEF Listed
  <2>5. Watched' /\ OnlyOwed'
    BY <2>1, <2>2, <2>3 DEF Watched, OnlyOwed, Owed
  <2>6. QED
    BY <2>4, <2>5 DEF ListInv
<1>3. QED
  BY <1>1, <1>2

\* How a telling moves the listing and its histories.
LEMMA TellObserves ==
  ASSUME Listed, list # None, list.pc # "told", Observe,
         NEW E, NEW S, Tell(E, S), UNCHANGED <<rings, member, granted, book>>,
         list' # None
  PROVE  /\ list'.pc = (IF S = {} THEN "told" ELSE "look")
         /\ list'.todo = S /\ list'.shown = list.shown \cup E
         /\ list'.op = list.op /\ list'.about = list.about /\ list'.pass = list.pass
         /\ Truth(list)' = Truth(list)
         /\ once' = once \cup Truth(list) /\ always' = always \cap Truth(list)
<1>1. /\ list' = [list EXCEPT !.pc = IF S = {} THEN "told" ELSE "look",
                              !.todo = S, !.shown = list.shown \cup E]
      /\ list \in [op : ListOp, about : Rings \cup Peers \cup {Self, None},
                   pass : {1, 2}, pc : {"read", "look", "told"},
                   todo : SUBSET (Rings \cup Peers), shown : SUBSET once]
  BY DEF Tell, Listed
<1>2. /\ list'.pc = (IF S = {} THEN "told" ELSE "look")
      /\ list'.todo = S /\ list'.shown = list.shown \cup E
      /\ list'.op = list.op /\ list'.about = list.about /\ list'.pass = list.pass
  BY <1>1
<1>3. Truth(list)' = Truth(list)
  BY <1>2 DEF Truth, Members, Known, Nicknamed
<1>4. once' = once \cup Truth(list)' /\ always' = always \cap Truth(list)'
  BY <1>2 DEF Observe
<1>5. QED
  BY <1>2, <1>3, <1>4

\* What was just read is true, so it may be told, and nothing is forgotten that
\* is not still owed.
LEMMA TellKeeps ==
  ASSUME ListInv, list # None, list.pc # "told", Observe,
         NEW E \in SUBSET Truth(list), NEW S \in SUBSET (Rings \cup Peers),
         Tell(E, S), UNCHANGED <<rings, member, granted, book>>,
         S # {} => list.op \in {"rings", "members"},
         list.op = "rings" => S \subseteq rings, list.op = "members" => S \subseteq Peers,
         list' # None => \A e \in (always \cap Truth(list)) \ (list.shown \cup E) : Owed(e)'
  PROVE  ListInv'
<1>1. CASE list' = None
  BY <1>1 DEF ListInv, Listed, Watched, OnlyOwed
<1>2. CASE list' # None
  <2>1. Listed
    BY DEF ListInv
  <2>2. /\ list'.pc = (IF S = {} THEN "told" ELSE "look")
        /\ list'.todo = S /\ list'.shown = list.shown \cup E
        /\ list'.op = list.op /\ list'.about = list.about /\ list'.pass = list.pass
        /\ Truth(list)' = Truth(list)
        /\ once' = once \cup Truth(list) /\ always' = always \cap Truth(list)
    BY <1>2, <2>1, TellObserves
  <2>3. Listed'
    <3>1. PICK c, W : list' = [list EXCEPT !.pc = c, !.todo = S, !.shown = W]
      BY Zenon DEF Tell
    <3>2. /\ list \in [op : ListOp, about : Rings \cup Peers \cup {Self, None},
                       pass : {1, 2}, pc : {"read", "look", "told"},
                       todo : SUBSET (Rings \cup Peers), shown : SUBSET once]
          /\ list.op = "members" => list.about \in Rings
      BY <2>1 DEF Listed
    <3>3. c \in {"told", "look"} /\ W \subseteq once'
      BY <2>2, <3>1, <3>2
    <3>4. list' \in [op : ListOp, about : Rings \cup Peers \cup {Self, None},
                     pass : {1, 2}, pc : {"read", "look", "told"},
                     todo : SUBSET (Rings \cup Peers), shown : SUBSET once']
      BY <3>1, <3>2, <3>3
    <3>5. QED
      BY <2>2, <3>2, <3>4 DEF Listed
  <2>4. Watched'
    BY <2>2 DEF Watched
  <2>5. OnlyOwed'
    BY <1>2, <2>2 DEF OnlyOwed
  <2>6. QED
    BY <2>3, <2>4, <2>5 DEF ListInv
<1>3. QED
  BY <1>1, <1>2

LEMMA ReadRingsKeeps ==
  ASSUME TypeOK, ListInv, ReadRings, UNCHANGED vars, Observe PROVE ListInv'
<1> DEFINE S == IF list.pass = 1 THEN rings ELSE {}
           E == {<<"ring", r>> : r \in rings}
<1>1. list # None /\ list.op = "rings" /\ list.pc = "read" /\ Tell(E, S)
  BY DEF ReadRings, Reading
<1>2. Truth(list) = E \cup {<<"count", r, Cardinality(Members(r))>> : r \in rings}
  BY <1>1 DEF Truth
<1>3. /\ S \in SUBSET (Rings \cup Peers) /\ S \subseteq rings
      /\ list.pass = 1 => S = rings
      /\ list.pass \in {1, 2} /\ Listed
  BY <1>1 DEF TypeOK, ListInv, Listed
<1>4. UNCHANGED <<rings, member, granted, book>>
  BY DEF vars
<1>5. E \in SUBSET Truth(list)
  BY <1>2
<1>6. ASSUME list' # None, NEW e \in Truth(list), e \notin E PROVE Owed(e)'
  <2>1. e[1] = "count" /\ e[2] \in rings
    BY <1>2, <1>6
  <2> HIDE DEF S, E
  <2>2. list'.op = "rings" /\ list'.todo = S /\ list'.pass = list.pass
    BY <1>1, <1>3, <1>4, <1>6, TellObserves
  <2>3. QED
    BY <1>3, <2>1, <2>2 DEF Owed
<1> HIDE DEF S, E
<1>7. QED
  BY <1>1, <1>3, <1>4, <1>5, <1>6, TellKeeps

LEMMA CountRingKeeps ==
  ASSUME TypeOK, ListInv, CountRing, UNCHANGED vars, Observe PROVE ListInv'
<1>1. PICK r \in list.todo :
        Tell({<<"count", r, Cardinality(Members(r))>>}, list.todo \ {r})
  BY DEF CountRing
<1> DEFINE S == list.todo \ {r}
           E == {<<"count", r, Cardinality(Members(r))>>}
<1>2. /\ list # None /\ list.op = "rings" /\ list.pc = "look" /\ Listed
      /\ list.todo \subseteq rings
  BY DEF CountRing, Looking, ListInv, Listed
<1>3. S \in SUBSET (Rings \cup Peers) /\ S \subseteq rings
  BY <1>2 DEF TypeOK
<1>4. UNCHANGED <<rings, member, granted, book>>
  BY DEF vars
<1>5. Truth(list) = {<<"ring", x>> : x \in rings}
                      \cup {<<"count", x, Cardinality(Members(x))>> : x \in rings}
  BY <1>2 DEF Truth
<1>6. E \in SUBSET Truth(list)
  BY <1>1, <1>2, <1>5
<1>7. ASSUME list' # None, NEW e \in (always \cap Truth(list)) \ (list.shown \cup E)
      PROVE  Owed(e)'
  <2>1. e[1] = "count" /\ (e[2] \in list.todo \/ list.pass = 2)
    BY <1>2, <1>7 DEF ListInv, OnlyOwed, Owed
  <2>2. e[2] # r
    BY <1>5, <1>7, <2>1
  <2> HIDE DEF E
  <2>3. list'.op = "rings" /\ list'.todo = S /\ list'.pass = list.pass
    BY <1>1, <1>2, <1>4, <1>7, TellObserves DEF E
  <2>4. QED
    BY <2>1, <2>2, <2>3 DEF Owed
<1> HIDE DEF S, E
<1>8. Tell(E, S)
  BY <1>1 DEF S, E
<1>9. QED
  BY <1>2, <1>3, <1>4, <1>6, <1>7, <1>8, TellKeeps

\* The subjects of ring members: its members, and the nicknames of all peers.
LEMMA TruthOfMembers ==
  ASSUME list.op = "members"
  PROVE  Truth(list) = {<<"member", p>> : p \in Members(list.about)}
                         \cup UNION {Nicknamed(p) : p \in Peers}
BY DEF Truth

LEMMA ReadMembersKeeps ==
  ASSUME TypeOK, ListInv, ReadMembers, UNCHANGED vars, Observe PROVE ListInv'
<1> DEFINE S == Members(list.about)
           E == {<<"member", p>> : p \in S}
<1>1. list # None /\ list.op = "members" /\ list.pc = "read" /\ Listed
  BY DEF ReadMembers, Reading, ListInv
<1>2. Tell(E, S)
  BY DEF ReadMembers
<1>3. S \in SUBSET (Rings \cup Peers) /\ S \subseteq Peers
  BY DEF Members
<1>4. UNCHANGED <<rings, member, granted, book>>
  BY DEF vars
<1>5. E \in SUBSET Truth(list)
  BY <1>1, TruthOfMembers
<1>6. ASSUME list' # None, NEW e \in Truth(list), e \notin E PROVE Owed(e)'
  <2>1. PICK p \in Peers : e \in Nicknamed(p)
    BY <1>1, <1>6, TruthOfMembers
  <2>2. e[1] = "named" /\ e[2] = p
    BY <2>1 DEF Nicknamed
  <2>3. p \in S \/ <<"member", p>> \notin Truth(list)
    <3>1. ASSUME NEW x \in Peers PROVE <<"member", p>> \notin Nicknamed(x)
      BY DEF Nicknamed
    <3>2. QED
      BY <1>1, <3>1, TruthOfMembers
  <2> HIDE DEF E, S
  <2>4. /\ list'.op = "members" /\ list'.todo = S
        /\ always' = always \cap Truth(list)
    BY <1>1, <1>2, <1>4, <1>6, TellObserves
  <2>5. QED
    BY <2>2, <2>3, <2>4 DEF Owed
<1> HIDE DEF S, E
<1>7. QED
  BY <1>1, <1>2, <1>3, <1>4, <1>5, <1>6, TellKeeps

LEMMA LookUpNicknameKeeps ==
  ASSUME TypeOK, ListInv, LookUpNickname, UNCHANGED vars, Observe PROVE ListInv'
<1>1. PICK p \in list.todo : Tell(Nicknamed(p), list.todo \ {p})
  BY DEF LookUpNickname
<1> DEFINE S == list.todo \ {p}
<1>2. /\ list # None /\ list.op = "members" /\ list.pc = "look" /\ Listed
      /\ list.todo \subseteq Peers
  BY DEF LookUpNickname, Looking, ListInv, Listed
<1>3. S \in SUBSET (Rings \cup Peers) /\ S \subseteq Peers
  BY <1>2
<1>4. UNCHANGED <<rings, member, granted, book>>
  BY DEF vars
<1>5. Nicknamed(p) \in SUBSET Truth(list)
  BY <1>1, <1>2, TruthOfMembers
<1>6. ASSUME list' # None, NEW e \in (always \cap Truth(list)) \ (list.shown \cup Nicknamed(p))
      PROVE  Owed(e)'
  <2>1. /\ e[1] = "named"
        /\ e[2] \in list.todo \/ <<"member", e[2]>> \notin always \/ faults > 0
    BY <1>2, <1>6 DEF ListInv, OnlyOwed, Owed
  <2>2. e[2] # p
    <3>1. e \notin {<<"member", x>> : x \in Members(list.about)}
      BY <2>1
    <3>2. PICK x \in Peers : e \in Nicknamed(x)
      BY <1>2, <1>6, <3>1, TruthOfMembers
    <3>3. e[2] = x
      BY <3>2 DEF Nicknamed
    <3>4. QED
      BY <1>6, <3>2, <3>3
  <2>3. /\ list'.op = "members" /\ list'.todo = S
        /\ always' = always \cap Truth(list) /\ faults' = faults
    BY <1>1, <1>2, <1>4, <1>6, TellObserves DEF vars
  <2>4. QED
    BY <2>1, <2>2, <2>3 DEF Owed
<1> HIDE DEF S
<1>7. Tell(Nicknamed(p), S)
  BY <1>1 DEF S
<1>8. QED
  BY <1>2, <1>3, <1>4, <1>5, <1>6, <1>7, TellKeeps

\* A nickname that cannot be read is left out, and the fault counted.
LEMMA ListFailsKeeps ==
  ASSUME TypeOK, ListInv, ListFails, Observe PROVE ListInv'
<1>1. CASE list' = None
  BY <1>1 DEF ListInv, Listed, Watched, OnlyOwed
<1>2. CASE Looking("members") /\ \E p \in list.todo : Tell({}, list.todo \ {p})
  <2>1. PICK p \in list.todo : Tell({}, list.todo \ {p})
    BY <1>2
  <2> DEFINE S == list.todo \ {p}
  <2>2. /\ list # None /\ list.op = "members" /\ list.pc = "look" /\ Listed
        /\ list.todo \subseteq Peers
    BY <1>2 DEF Looking, ListInv, Listed
  <2>3. S \in SUBSET (Rings \cup Peers) /\ S \subseteq Peers
    BY <2>2
  <2>4. UNCHANGED <<rings, member, granted, book>> /\ faults' > 0
    BY DEF ListFails, stores, TypeOK
  <2>5. ASSUME list' # None, NEW e \in (always \cap Truth(list)) \ (list.shown \cup {})
        PROVE  Owed(e)'
    <3>1. e[1] = "named"
      BY <2>2, <2>5 DEF ListInv, OnlyOwed, Owed
    <3>2. list'.op = "members"
      BY <2>1, <2>2, <2>4, <2>5, TellObserves
    <3>3. QED
      BY <2>4, <3>1, <3>2 DEF Owed
  <2> HIDE DEF S
  <2>6. Tell({}, S)
    BY <2>1 DEF S
  <2>7. QED
    BY <2>2, <2>3, <2>4, <2>5, <2>6, TellKeeps
<1>3. QED
  BY <1>1, <1>2 DEF ListFails

\* One read tells it all.
LEMMA ReadAllKeeps ==
  ASSUME TypeOK, ListInv, ReadPeers \/ ReadGrants, UNCHANGED vars, Observe PROVE ListInv'
<1>1. list # None /\ list.pc = "read" /\ list.op \in {"peers", "grants"}
  BY DEF ReadPeers, ReadGrants, Reading
<1>2. Tell(Truth(list), {})
  <2>1. CASE ReadPeers
    BY <2>1 DEF ReadPeers, Reading, Truth
  <2>2. CASE ReadGrants
    BY <2>2 DEF ReadGrants, Reading, Truth, Matching
  <2>3. QED
    BY <2>1, <2>2
<1>3. UNCHANGED <<rings, member, granted, book>>
  BY DEF vars
<1>4. QED
  BY <1>1, <1>2, <1>3, TellKeeps

LEMMA ListStepKeeps ==
  ASSUME TypeOK, ListInv, ListStep, UNCHANGED vars, Observe PROVE ListInv'
<1>1. ASSUME NEW op \in ListOp, NEW about \in Rings \cup Peers \cup {Self, None},
             op = "members" => about \in Rings, ListCommand(op, about)
      PROVE  ListInv'
  BY <1>1, PassBegins DEF ListCommand
<1>2. CASE NextPass
  <2>1. CASE list' = None
    BY <2>1 DEF ListInv, Listed, Watched, OnlyOwed
  <2>2. CASE list' # None
    <3>1. /\ list' = [list EXCEPT !.pass = 2, !.pc = "read", !.shown = {}]
          /\ list.pass # 2 /\ list # None /\ list.pc = "told"
      BY <1>2, <2>2 DEF NextPass
    <3>2. /\ list \in [op : ListOp, about : Rings \cup Peers \cup {Self, None},
                       pass : {1, 2}, pc : {"read", "look", "told"},
                       todo : SUBSET (Rings \cup Peers), shown : SUBSET once]
          /\ list.todo = {}
          /\ list.op = "members" => list.about \in Rings
      BY <3>1 DEF ListInv, Listed
    <3>3. /\ list' \in [op : ListOp, about : Rings \cup Peers \cup {Self, None},
                        pass : {1, 2}, pc : {"read"}, todo : {{}}, shown : {{}}]
          /\ list'.op = list.op /\ list'.about = list.about /\ list'.pass = 2
      BY <3>1, <3>2
    <3>4. QED
      BY <3>1, <3>2, <3>3, PassBegins
  <2>3. QED
    BY <2>1, <2>2
<1>3. QED
  BY <1>1, <1>2, ReadRingsKeeps, CountRingKeeps, ReadMembersKeeps, LookUpNicknameKeeps,
     ReadAllKeeps DEF ListStep, ListOp

\* The handlers' invariant and that of the listings, together.
LEMMA ListInvHolds == ListSpec => [](Inv /\ ListInv)
<1>1. ListInit => Inv /\ ListInv
  BY InitInv DEF ListInit, ListInv, Listed, Watched, OnlyOwed
<1>2. Inv /\ ListInv /\ [ListNext]_<<vars, listVars>> => Inv' /\ ListInv'
  <2> SUFFICES ASSUME Inv, ListInv, [ListNext]_<<vars, listVars>> PROVE Inv' /\ ListInv'
    OBVIOUS
  <2>1. TypeOK
    BY DEF Inv
  <2>2. CASE Next /\ UNCHANGED list /\ Observe
    BY <2>1, <2>2, NextInv, OthersStep
  <2>3. CASE ListStep /\ UNCHANGED vars /\ Observe
    BY <2>1, <2>3, NextInv, ListStepKeeps
  <2>4. CASE ListFails /\ Observe
    <3>1. ListInv'
      BY <2>1, <2>4, ListFailsKeeps
    <3>2. Inv'
      <4>1. /\ UNCHANGED <<rings, member, granted, book, req, nick, contested, halfAdded,
                           erased>>
            /\ faults' = faults + 1
        BY <2>4 DEF ListFails, stores
      <4>2. TypeOK'
        BY <2>1, <4>1 DEF TypeOK
      <4>3. Handlers'
        BY <4>1 DEF Inv, Handlers, Single, Placed, OnlyRemoval, Works, Quiet
      <4>4. Books'
        BY <4>1 DEF Inv, Books, Forgotten, StillAbsent, StillThere, NicknameKept,
                    Registered, At, Works
      <4>5. Sweeps'
        BY <4>1 DEF Inv, Sweeps, InRings, Swept, Revoked, RemovalComplete, At, Quiet,
                    NoTrace, Busy
      <4>6. QED
        BY <4>2, <4>3, <4>4, <4>5 DEF Inv
    <3>3. QED
      BY <3>1, <3>2
  <2>5. CASE UNCHANGED <<vars, listVars>>
    <3>1. Inv'
      BY <2>5, NextInv
    <3>2. ListInv'
      <4>1. /\ UNCHANGED <<rings, member, granted, book, faults, list, once, always>>
            /\ Truth(list)' = Truth(list)
        BY <2>5 DEF listVars, vars, Truth, Members, Known, Nicknamed
      <4>2. Listed' /\ Watched'
        BY <4>1 DEF ListInv, Listed, Watched
      <4>3. OnlyOwed'
        BY Zenon, <4>1 DEF ListInv, OnlyOwed, Owed
      <4>4. QED
        BY <4>2, <4>3 DEF ListInv
    <3>3. QED
      BY <3>1, <3>2
  <2>6. QED
    BY <2>2, <2>3, <2>4, <2>5 DEF ListNext
<1>3. QED
  BY <1>1, <1>2, PTL DEF ListSpec

\* A listing shows nothing that was not so at some moment of it: ring list, ring
\* members, peer list and grant list read the stores in several transactions,
\* while other handlers change them.
THEOREM ListSoundHolds == ListSpec => []ListSound
<1>1. ListInv => ListSound
  BY DEF ListInv, Listed, ListSound
<1>2. QED
  BY <1>1, ListInvHolds, PTL

\* A listing leaves out nothing that was so all the time it took, but for what
\* ListComplete names.
THEOREM ListCompleteHolds == ListSpec => []ListComplete
<1>1. ListInv => ListComplete
  <2> SUFFICES ASSUME ListInv, list # None, list.pc = "told",
                      NEW e \in always \ list.shown
               PROVE  \/ e[1] = "count" /\ list.pass = 2
                      \/ e[1] = "named" /\ (<<"member", e[2]>> \notin always \/ faults > 0)
    BY Zenon DEF ListComplete
  <2>1. Owed(e) /\ list.todo = {}
    BY DEF ListInv, Listed, OnlyOwed
  <2>2. QED
    BY <2>1 DEF Owed
<1>2. QED
  BY <1>1, ListInvHolds, PTL

\* Listings only read: with them running beside the commands, the directory
\* keeps all it keeps without them.
THEOREM DirectoryHoldsBesideListings ==
  ListSpec => [](TypeOK /\ RemovalComplete /\ NicknameKept /\ MembersInBook)
<1>1. Inv => TypeOK /\ RemovalComplete /\ NicknameKept /\ MembersInBook
  BY DEF Inv, Books, Sweeps, Registered, MembersInBook, Works, Busy
<1>2. QED
  BY <1>1, ListInvHolds, PTL
=============================================================================
