------------------------------- MODULE Listings -------------------------------
(***************************************************************************)
(* The listing commands over PeerDirectory: ring list, ring members, peer  *)
(* list and grant list (daemon/server/mod.rs and its handlers). Each shows *)
(* its answer twice, in lines and in records, and reads the stores for     *)
(* each, in several transactions, while other handlers change them.        *)
(***************************************************************************)
EXTENDS PeerDirectory, FiniteSets

VARIABLES
  list,     \* the listing under way, or None
  once,     \* history: what was true at some moment of its present pass
  always    \* history: what was true at all of its moments

listVars == <<list, once, always>>

\* list is a record. op: the command; about: the ring of members, the peer to
\* whom grants are narrowed, or None; pass: 1 for the lines, 2 for the records
\* (grant list takes them the other way round); pc: "read", "look" or "told";
\* todo: what is still to be looked up; shown: the answer so far.
ListInit == Init /\ list = None /\ once = {} /\ always = {}

Members(r) == {p \in Peers : member[r][p] # "none"}

\* PeerStore::list.
Known == {<<"peer", p, book[p]>> : p \in {x \in Peers : book[x] # Absent}}

\* PeerStore::get: no peer and no nickname read alike.
Nicknamed(p) == {<<"named", p, book[p]>>} \cap {<<"named", p, n>> : n \in Nicks}

\* What is true of the subject of a listing: the entries it may show.
Truth(l) ==
  CASE l.op = "rings" ->
         {<<"ring", r>> : r \in rings}
           \cup {<<"count", r, Cardinality(Members(r))>> : r \in rings}
    [] l.op = "members" ->
         {<<"member", p>> : p \in Members(l.about)}
           \cup UNION {Nicknamed(p) : p \in Peers}
    [] l.op = "peers" -> Known
    [] OTHER ->
         {<<"grant", p>> : p \in {x \in granted : l.about \in {None, x}}}

\* The answer so far.
Tell(entries, todo) ==
  list' = [list EXCEPT !.pc = IF todo = {} THEN "told" ELSE "look",
                       !.todo = todo, !.shown = @ \cup entries]

Reading(op) == list # None /\ list.op = op /\ list.pc = "read"
Looking(op) == list # None /\ list.op = op /\ list.pc = "look"

-----------------------------------------------------------------------------
(* The handlers. *)

\* handle_op: a listing command.
ListCommand(op, about) ==
  /\ list = None
  /\ list' = [op |-> op, about |-> about, pass |-> 1, pc |-> "read", todo |-> {},
              shown |-> {}]

\* ring_list_lines: the rings, then the members of each are counted; the records
\* have the names only.
ReadRings ==
  /\ Reading("rings")
  /\ Tell({<<"ring", r>> : r \in rings}, IF list.pass = 1 THEN rings ELSE {})

CountRing ==
  /\ Looking("rings")
  /\ \E r \in list.todo :
       Tell({<<"count", r, Cardinality(Members(r))>>}, list.todo \ {r})

\* Mutant: members who are not in the address book are left out.
ReadMembersOfBook ==
  /\ Reading("members")
  /\ LET known == {p \in Members(list.about) : book[p] # Absent}
     IN Tell({<<"member", p>> : p \in known}, known)

\* ring_members_lines and the records of RingMembers: the members, then the
\* nickname of each.
ReadMembers ==
  /\ Reading("members")
  /\ Tell({<<"member", p>> : p \in Members(list.about)}, Members(list.about))

\* Mutant: the bare key is shown in the place of a missing nickname.
LookUpNicknameAnyhow ==
  /\ Looking("members")
  /\ \E p \in list.todo : Tell({<<"named", p, book[p]>>}, list.todo \ {p})

\* display_peer, and the nickname of a record.
LookUpNickname ==
  /\ Looking("members")
  /\ \E p \in list.todo : Tell(Nicknamed(p), list.todo \ {p})

\* peer_list_lines: one read, PeerStore::list.
ReadPeers == Reading("peers") /\ Tell(Known, {})

\* Mutant: the filter is not applied.
MatchingAll(about) == granted

\* GrantStore::list, filtered by peer (there is one privilege to filter by).
Matching(about) == {p \in granted : about \in {None, p}}

\* handle_grants, filtered_grant_lines: one read.
ReadGrants ==
  /\ Reading("grants")
  /\ Tell({<<"grant", p>> : p \in Matching(list.about)}, {})

\* The other pass, or the end.
NextPass ==
  /\ list # None
  /\ list.pc = "told"
  /\ list' = IF list.pass = 2 THEN None
             ELSE [list EXCEPT !.pass = 2, !.pc = "read", !.shown = {}]

\* A read fails: the listing ends with an error. A nickname that cannot be read
\* is left out instead.
ListFails ==
  /\ list # None
  /\ faults < MaxFaults
  /\ faults' = faults + 1
  /\ UNCHANGED <<stores, req, nick, contested, halfAdded, erased>>
  /\ \/ list' = None
     \/ /\ Looking("members")
        /\ \E p \in list.todo : Tell({}, list.todo \ {p})

-----------------------------------------------------------------------------

\* The histories follow the pass: they start with it, see every state, and rest
\* when the answer is given.
Observe ==
  IF list' = None THEN once' = {} /\ always' = {}
  ELSE IF list = list' /\ list.pc = "told" THEN UNCHANGED <<once, always>>
  ELSE IF list'.pc = "read" /\ (list = None \/ list'.pass # list.pass)
  THEN once' = Truth(list') /\ always' = Truth(list')
  ELSE once' = once \cup Truth(list)' /\ always' = always \cap Truth(list)'

ListStep ==
  \/ \E op \in {"rings", "peers"} : ListCommand(op, None)
  \/ \E r \in Rings : ListCommand("members", r)
  \/ \E p \in Peers \cup {Self, None} : ListCommand("grants", p)
  \/ ReadRings \/ CountRing
  \/ ReadMembers \/ LookUpNickname
  \/ ReadPeers
  \/ ReadGrants
  \/ NextPass

\* Bound: a listing takes one of the request slots.
SlotFree == (list = None) \/ \E q \in Reqs : req[q] = None

ListNext ==
  \/ Next /\ UNCHANGED list /\ SlotFree' /\ Observe
  \/ ListStep /\ UNCHANGED vars /\ SlotFree' /\ Observe
  \/ ListFails /\ Observe

ListSpec == ListInit /\ [][ListNext]_<<vars, listVars>>

-----------------------------------------------------------------------------
(* Properties. *)

\* A listing shows nothing that was not so at some moment of it, in its lines as
\* in its records: no peer under a nickname it did not have, no count, member,
\* grant or entry that never was, none that was not asked for.
ListSound == list # None => list.shown \subseteq once

\* A listing leaves nothing out that was so all the time it took, in its lines
\* as in its records: the members and the nicknames they kept, the rings, the
\* peers, the grants. (Records of rings have no counts; the error of a nickname
\* that cannot be read is swallowed.)
ListComplete ==
  list # None /\ list.pc = "told" =>
    \A e \in always \ list.shown :
      \/ e[1] = "count" /\ list.pass = 2
      \/ e[1] = "named" /\ (<<"member", e[2]>> \notin always \/ faults > 0)
=============================================================================
