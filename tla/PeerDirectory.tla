--------------------------- MODULE PeerDirectory ---------------------------
(***************************************************************************)
(* Who is who: the named rings and their members (iroh-rings registry),    *)
(* the catalog grants (core/grants.rs), the address book (core/peers.rs),  *)
(* and the ring, peer and grant commands of the daemon that change them    *)
(* (daemon/server/handlers/{ring,peer,grant}.rs).                          *)
(*                                                                         *)
(* The three stores are separate databases or separate transactions, and   *)
(* handlers of different connections run in parallel: one action per       *)
(* transaction. A command that is a single transaction is a single action, *)
(* taken by an idle slot.                                                  *)
(***************************************************************************)
EXTENDS Naturals

CONSTANTS
  Reqs,      \* request slots: how many handlers may be in flight at once
  Peers,     \* endpoint ids
  Self,      \* the daemon's own endpoint id
  Rings,     \* names of named rings
  Nicks,     \* nicknames
  NoNick,    \* known, without a nickname (the empty string of the table)
  Absent,    \* not in the address book
  None,      \* an idle slot
  MaxFaults  \* bound on handler errors and daemon crashes

VARIABLES
  rings,     \* rings that exist
  member,    \* member[r][p]: "none", "forever" or "limited" (has an expiry)
  granted,   \* peers that hold the blob-list privilege
  book,      \* book[p]: nickname, NoNick or Absent
  req,       \* req[q]: the handler running in slot q, or None
  faults,    \* faults so far
  nick,      \* history: nickname last given since the peer was last removed
  contested, \* history: peers whose commands have overlapped since they were
             \* last named or removed by a command that ran alone
  halfAdded, \* history: peers whose ring add died before the address book
  erased     \* history: peers whose last request is a remove nobody overlapped

stores == <<rings, member, granted, book>>
vars == <<rings, member, granted, book, req, faults, nick, contested,
          halfAdded, erased>>

Handler ==
  [op : {"ringAdd", "peerAdd", "peerRemove"}, peer : Peers, todo : SUBSET Rings,
   pc : {"ensure", "insert", "rings", "sweep", "grants", "forget"}]

ASSUME DirectoryAssumption ==
  /\ NoNick \notin Nicks
  /\ Absent \notin Nicks \cup {NoNick}
  /\ None \notin Handler
  /\ MaxFaults \in Nat

Init ==
  /\ rings = {}
  /\ member = [r \in Rings |-> [p \in Peers |-> "none"]]
  /\ granted = {}
  /\ book = [p \in Peers |-> Absent]
  /\ req = [q \in Reqs |-> None]
  /\ faults = 0
  /\ nick = [p \in Peers |-> NoNick]
  /\ contested = {}
  /\ halfAdded = {}
  /\ erased = {}

At(q, label) == req[q] # None /\ req[q].pc = label

Busy(p) == \E q \in Reqs : req[q] # None /\ req[q].peer = p

Goto(q, label) == req' = [req EXCEPT ![q].pc = label]

Return(q) == req' = [req EXCEPT ![q] = None]

\* A command that names p arrives.
Contend(p) ==
  contested' = IF Busy(p) THEN contested \cup {p} ELSE contested

-----------------------------------------------------------------------------
(* Ring commands. *)

\* External: how add_peer_to_ring settles the lifetime. A live member added
\* again without an expiry keeps its own; with one, either may win.
Lifetimes(old, expires) ==
  IF expires THEN {"limited"} \cup ({old} \ {"none"})
  ELSE IF old = "none" THEN {"forever"} ELSE {old}

\* ring_new_lines: a duplicate name is an error.
RingNew(q, r) ==
  /\ req[q] = None
  /\ r \notin rings
  /\ rings' = rings \cup {r}
  /\ UNCHANGED <<member, granted, book, req, faults, nick, contested,
                 halfAdded, erased>>

\* Mutant: the peer is not registered in the address book.
RingAddUnregistered(q, r, p, expires) ==
  /\ req[q] = None
  /\ p # Self
  /\ rings' = rings \cup {r}
  /\ \E l \in Lifetimes(member[r][p], expires) :
       member' = [member EXCEPT ![r][p] = l]
  /\ Contend(p)
  /\ erased' = erased \ {p}
  /\ UNCHANGED <<granted, book, req, faults, nick, halfAdded>>

\* ring_add_lines up to the registry's transaction; the address book follows.
\* (The open ring, a bad expiry and the daemon itself return early.)
RingAdd(q, r, p, expires) ==
  /\ req[q] = None
  /\ p # Self
  /\ rings' = rings \cup {r}
  /\ \E l \in Lifetimes(member[r][p], expires) :
       member' = [member EXCEPT ![r][p] = l]
  /\ req' = [req EXCEPT ![q] = [op |-> "ringAdd", peer |-> p, todo |-> {},
                                pc |-> "ensure"]]
  /\ Contend(p)
  /\ erased' = erased \ {p}
  /\ UNCHANGED <<granted, book, faults, nick, halfAdded>>

\* ring_remove_lines: one transaction of the registry.
RingRemove(q, r, p) ==
  /\ req[q] = None
  /\ member' = [member EXCEPT ![r][p] = "none"]
  /\ UNCHANGED <<rings, granted, book, req, faults, nick, contested,
                 halfAdded, erased>>

\* The clock passes the expiry: the registry no longer lists the member.
Expire(r, p) ==
  /\ member[r][p] = "limited"
  /\ member' = [member EXCEPT ![r][p] = "none"]
  /\ UNCHANGED <<rings, granted, book, req, faults, nick, contested,
                 halfAdded, erased>>

-----------------------------------------------------------------------------
(* Address book and grants. *)

\* peer_add_lines with a nickname: PeerStore::upsert.
PeerAddNamed(q, p, n) ==
  /\ req[q] = None
  /\ book' = [book EXCEPT ![p] = n]
  /\ nick' = [nick EXCEPT ![p] = n]
  /\ contested' = IF Busy(p) THEN contested \cup {p} ELSE contested \ {p}
  /\ halfAdded' = halfAdded \ {p}
  /\ erased' = erased \ {p}
  /\ UNCHANGED <<rings, member, granted, req, faults>>

\* peer_add_lines without a nickname: PeerStore::ensure.
PeerAdd(q, p) ==
  /\ req[q] = None
  /\ req' = [req EXCEPT ![q] = [op |-> "peerAdd", peer |-> p, todo |-> {},
                                pc |-> "ensure"]]
  /\ Contend(p)
  /\ erased' = erased \ {p}
  /\ UNCHANGED <<rings, member, granted, book, faults, nick, halfAdded>>

\* Mutant: ensure inserts without looking.
EnsureReadIgnored(q) ==
  /\ At(q, "ensure")
  /\ Goto(q, "insert")
  /\ UNCHANGED <<stores, faults, nick, contested, halfAdded, erased>>

\* ensure's read transaction: a known peer is left as it is.
EnsureRead(q) ==
  /\ At(q, "ensure")
  /\ IF book[req[q].peer] = Absent THEN Goto(q, "insert") ELSE Return(q)
  /\ UNCHANGED <<stores, faults, nick, contested, halfAdded, erased>>

\* Mutant: the key is written in the place of the nickname.
EnsureInsertKey(q) ==
  /\ At(q, "insert")
  /\ book' = [book EXCEPT ![req[q].peer] = req[q].peer]
  /\ halfAdded' = halfAdded \ {req[q].peer}
  /\ Return(q)
  /\ UNCHANGED <<rings, member, granted, faults, nick, contested, erased>>

\* ensure's write transaction: upsert(peer, None), whatever is there by now.
EnsureInsert(q) ==
  /\ At(q, "insert")
  /\ book' = [book EXCEPT ![req[q].peer] = NoNick]
  /\ halfAdded' = halfAdded \ {req[q].peer}
  /\ Return(q)
  /\ UNCHANGED <<rings, member, granted, faults, nick, contested, erased>>

\* grant_lines: one transaction; the address book is not consulted.
Grant(q, p) ==
  /\ req[q] = None
  /\ granted' = granted \cup {p}
  /\ erased' = erased \ {p}
  /\ UNCHANGED <<rings, member, book, req, faults, nick, contested, halfAdded>>

\* revoke_lines: one transaction, a no-op when nothing was granted.
Revoke(q, p) ==
  /\ req[q] = None
  /\ granted' = granted \ {p}
  /\ UNCHANGED <<rings, member, book, req, faults, nick, contested,
                 halfAdded, erased>>

-----------------------------------------------------------------------------
(* peer_remove_lines: rings, then grants, then the address book. *)

\* The peer must be in the address book.
PeerRemove(q, p) ==
  /\ req[q] = None
  /\ book[p] # Absent
  /\ req' = [req EXCEPT ![q] = [op |-> "peerRemove", peer |-> p, todo |-> {},
                                pc |-> "rings"]]
  /\ Contend(p)
  /\ erased' = IF Busy(p) THEN erased \ {p} ELSE erased \cup {p}
  /\ UNCHANGED <<stores, faults, nick, halfAdded>>

\* list_rings: the rings the loop will visit are fixed here.
ListRings(q) ==
  /\ At(q, "rings")
  /\ req' = [req EXCEPT ![q].todo = rings,
                        ![q].pc = IF rings = {} THEN "grants" ELSE "sweep"]
  /\ UNCHANGED <<stores, faults, nick, contested, halfAdded, erased>>

\* Mutant: the loop stops at the first ring.
SweepFirstRing(q) ==
  /\ At(q, "sweep")
  /\ \E r \in req[q].todo :
       /\ member' = [member EXCEPT ![r][req[q].peer] = "none"]
       /\ Goto(q, "grants")
  /\ UNCHANGED <<rings, granted, book, faults, nick, contested,
                 halfAdded, erased>>

\* One turn of the loop: remove_peer_from_ring if list_ring_peers shows it.
SweepRing(q) ==
  /\ At(q, "sweep")
  /\ \E r \in req[q].todo :
       /\ member' = [member EXCEPT ![r][req[q].peer] = "none"]
       /\ req' = [req EXCEPT ![q].todo = @ \ {r},
                    ![q].pc = IF req[q].todo = {r} THEN "grants" ELSE "sweep"]
  /\ UNCHANGED <<rings, granted, book, faults, nick, contested,
                 halfAdded, erased>>

\* has_grant and revoke.
RevokeGrants(q) ==
  /\ At(q, "grants")
  /\ granted' = granted \ {req[q].peer}
  /\ Goto(q, "forget")
  /\ UNCHANGED <<rings, member, book, faults, nick, contested,
                 halfAdded, erased>>

\* PeerStore::remove: last, so that a failed removal can be asked for again.
ForgetPeer(q) ==
  LET p == req[q].peer IN
  /\ At(q, "forget")
  /\ book' = [book EXCEPT ![p] = Absent]
  /\ nick' = [nick EXCEPT ![p] = NoNick]
  /\ contested' = IF p \in erased THEN contested \ {p} ELSE contested
  /\ halfAdded' = halfAdded \ {p}
  /\ Return(q)
  /\ UNCHANGED <<rings, member, granted, faults, erased>>

-----------------------------------------------------------------------------
(* Faults. *)

\* The handlers in slots Q die where they are; nothing is undone.
Die(Q) ==
  LET dying == {q \in Q : req[q] # None} IN
  /\ faults < MaxFaults
  /\ faults' = faults + 1
  /\ req' = [q \in Reqs |-> IF q \in Q THEN None ELSE req[q]]
  /\ halfAdded' = halfAdded
       \cup {req[q].peer : q \in {d \in dying : req[d].op = "ringAdd"}}
  /\ erased' = erased \ {req[q].peer : q \in dying}
  /\ UNCHANGED <<stores, nick, contested>>

\* A store call returns an error and `?` ends the handler.
HandlerFails(q) == req[q] # None /\ Die({q})

\* The daemon dies and is restarted: committed transactions survive.
Crash == Die(Reqs)

Command(q) ==
  \/ \E r \in Rings : RingNew(q, r)
  \/ \E r \in Rings, p \in Peers \cup {Self}, expires \in BOOLEAN :
       RingAdd(q, r, p, expires)
  \/ \E r \in Rings, p \in Peers : RingRemove(q, r, p)
  \/ \E p \in Peers, n \in Nicks : PeerAddNamed(q, p, n)
  \/ \E p \in Peers : PeerAdd(q, p)
  \/ \E p \in Peers : PeerRemove(q, p)
  \/ \E p \in Peers : Grant(q, p)
  \/ \E p \in Peers : Revoke(q, p)

Step(q) ==
  \/ EnsureRead(q)
  \/ EnsureInsert(q)
  \/ ListRings(q)
  \/ SweepRing(q)
  \/ RevokeGrants(q)
  \/ ForgetPeer(q)

Next ==
  \/ \E q \in Reqs : Command(q) \/ Step(q) \/ HandlerFails(q)
  \/ \E r \in Rings, p \in Peers : Expire(r, p)
  \/ Crash

Spec == Init /\ [][Next]_vars

-----------------------------------------------------------------------------
(* Properties. *)

\* The variables keep their types.
TypeOK ==
  /\ rings \in SUBSET Rings
  /\ member \in [Rings -> [Peers -> {"none", "forever", "limited"}]]
  /\ granted \in SUBSET Peers
  /\ book \in [Peers -> Nicks \cup {NoNick, Absent}]
  /\ req \in [Reqs -> Handler \cup {None}]
  /\ faults \in Nat
  /\ nick \in [Peers -> Nicks \cup {NoNick}]
  /\ contested \in SUBSET Peers
  /\ halfAdded \in SUBSET Peers
  /\ erased \in SUBSET Peers

\* No ring, grant or address book entry mentions the peer.
NoTrace(p) ==
  /\ \A r \in Rings : member[r][p] = "none"
  /\ p \notin granted
  /\ book[p] = Absent

\* `peer remove` is complete: when a removal that no other command on that
\* peer overlapped is over, the peer is in no ring, holds no grant and is not
\* in the address book, whatever other handlers did meanwhile, and it stays so
\* until a command names it again (peer_remove_lines works through three
\* stores with a snapshot of the ring list).
RemovalComplete == \A p \in erased : Busy(p) \/ NoTrace(p)

\* The nickname shown is the one last given: ring add and peer add without a
\* nickname (PeerStore::ensure) preserve it, only peer remove forgets it. The
\* code has it for peers whose commands do not overlap: ensure looks in one
\* transaction and inserts in another.
NicknameKept ==
  \A p \in Peers \ contested : book[p] # Absent => book[p] = nick[p]

\* Every ring member is in the address book, so `peer remove` reaches it: ring
\* add registers the peer, and a peer remove that dies half way leaves the
\* entry (it goes last). Exempt are a peer some handler is working on, one
\* whose commands have overlapped, and one whose ring add died between the
\* registry and the address book.
MembersInBook ==
  \A r \in Rings, p \in Peers \ (contested \cup halfAdded) :
    member[r][p] # "none" /\ ~Busy(p) => book[p] # Absent

\* "If the peer is already present the existing nickname is preserved", says
\* PeerStore::ensure. Violated: a nickname given between its two transactions is
\* overwritten.
NicknamePreserved == \A p \in Peers : book[p] # Absent => book[p] = nick[p]

\* "If the peer is not yet in the peer store it is automatically registered", says
\* RingAdd. Violated: a ring add looks while a peer remove that has swept the rings
\* has the entry still to delete. The member stays, and `peer remove` does not know
\* him any more.
MembersRegistered ==
  \A r \in Rings, p \in Peers :
    member[r][p] # "none" /\ ~Busy(p) => book[p] # Absent
=============================================================================
